------------------------------ MODULE SendProofs -------------------------------
(***************************************************************************)
(* Theorems about what a send meets: the limits of its tenant, the routes  *)
(* of its notification and the presets that give it a severity, for any    *)
(* number of receivers, of channels, of presets and of requests in flight. *)
(***************************************************************************)
EXTENDS Api, FiniteSetTheorems, SequenceTheorems, WellFoundedInduction, TLAPS

\* The modules of the API count with one operator.
LEMMA SameCardinality ==
    \A S : /\ Q!Cardinality(S) = Cardinality(S) /\ R!Cardinality(S) = Cardinality(S)
           /\ P!Cardinality(S) = Cardinality(S)
  BY DEF Q!Cardinality, R!Cardinality, P!Cardinality, Cardinality

-----------------------------------------------------------------------------
(* Limits of a tenant.  What a request has compared stays true until it    *)
(* commits: whoever could change it needs a lock on the row of the tenant, *)
(* against the one that the request holds.                                 *)

Modes == {"key_share", "no_key_update", "update"}
LockRows == Receivers \cup {Q!Tenant}
Checks == {"count", "sum", "compare", "validate"}

QuotaStatements ==
    [kind : {"lock"}, row : LockRows, mode : Modes] \cup
    [kind : Checks \cup {"skip_locked"}, row : {Null}, mode : {Null}]

SendOps == {"precheck", "ingest"}
Raises == {"create_receiver", "update_receiver"}
Edits == {"edit_receiver", "rotate_slug", "delete_receiver"}
QuotaOps == SendOps \cup Raises \cup Edits \cup {"update_tenant", "job"}

TenantType == [max_per_day : Nat \cup {Null}, max_storage : Nat \cup {Null}, cap : Nat]

RequestType ==
    [op : QuotaOps, receiver : Receivers \cup {Null}, value : Nat \cup {Null} \cup Settings,
     id : Nat, locked : SUBSET Receivers]

\* What the theorems assume of the constants: finitely many receivers, limits and sizes
\* that are numbers, settings of the right types, and caps that hold at the start.
QuotaGiven ==
    /\ Q!Tenant \notin Receivers /\ IsFiniteSet(Receivers)
    /\ NoRequest \notin RequestType /\ MaxRequests \in Nat
    /\ NoRow \notin Nat /\ Null \notin Nat /\ Null \notin Settings
    /\ Caps \subseteq Nat /\ Sizes \subseteq Nat
    /\ InitialTenants \subseteq TenantType
    /\ InitialCaps \in [Receivers -> Nat \cup {NoRow}]
    /\ \A t \in InitialTenants, r \in Receivers :
          InitialCaps[r] # NoRow => InitialCaps[r] <= t.cap
    /\ \A s \in Settings :
          /\ "max_per_day" \in DOMAIN s => s["max_per_day"] \in Nat \cup {Null}
          /\ "max_storage" \in DOMAIN s => s["max_storage"] \in Nat \cup {Null}
          /\ "cap" \in DOMAIN s => s["cap"] \in Nat

DataInv ==
    /\ tenant \in TenantType
    /\ caps \in [Receivers -> Nat \cup {NoRow, Null}]
    /\ stored \subseteq [receiver : Receivers, size : Nat, id : Nat, recent : BOOLEAN]
    /\ IsFiniteSet(stored)

TxInv ==
    /\ locks \in [Requests -> SUBSET (LockRows \X Modes)]
    /\ request \in [Requests -> RequestType \cup {NoRequest}]
    /\ pc \in [Requests -> {"idle", "limits", "running"}]
    /\ todo \in [Requests -> Seq(QuotaStatements)]
    /\ changed \in [Requests -> BOOLEAN]
    /\ started \in Nat

\* What a request asks for has the type its operation gives it.
Shaped(r) ==
    /\ r \in RequestType
    /\ r.op \in SendOps \cup Raises \cup Edits => r.receiver \in Receivers
    /\ r.op \in SendOps \cup {"update_receiver"} => r.value \in Nat
    /\ r.op = "create_receiver" => r.value \in Nat \cup {Null}
    /\ r.op = "update_tenant" => r.value \in Settings

ShapeInv ==
    \A p \in Requests :
        /\ pc[p] # "running" => locks[p] = {}
        /\ pc[p] = "limits" => request[p].op \in SendOps
        /\ pc[p] # "idle" => Shaped(request[p])

QuotaTypes == DataInv /\ TxInv /\ ShapeInv

\* Row locks exclude one another.
LocksExclude ==
    \A p, q \in Requests : p # q =>
        \A l \in locks[p], m \in locks[q] : l[1] = m[1] => ~Q!Conflict(l[2], m[2])

-----------------------------------------------------------------------------
(* Sequences of few statements. *)

\* What is left of sequences of few statements once the first is done.
LEMMA Tails ==
    /\ \A a : Tail(<<a>>) = <<>>
    /\ \A a, b : Tail(<<a, b>>) = <<b>>
    /\ \A a, b, c : Tail(<<a, b, c>>) = <<b, c>>
    /\ \A a, b, c, d : Tail(<<a, b, c, d>>) = <<b, c, d>>
    /\ \A a, b, c, d, e : Tail(<<a, b, c, d, e>>) = <<b, c, d, e>>
    /\ \A a, b, c, d, e, f : Tail(<<a, b, c, d, e, f>>) = <<b, c, d, e, f>>
  OBVIOUS

\* QuotaStatements put together.
LEMMA Appended ==
    ASSUME NEW S, NEW s \in Seq(S), NEW t \in Seq(S), NEW u \in Seq(S),
           Len(u) = Len(s) + Len(t),
           \A i \in 1 .. Len(u) : u[i] = IF i <= Len(s) THEN s[i] ELSE t[i - Len(s)]
    PROVE  s \o t = u
  <1>1. /\ s \o t \in Seq(S) /\ Len(s \o t) = Len(u)
        /\ \A i \in 1 .. Len(u) : (s \o t)[i] = u[i]
    BY ConcatProperties
  <1> QED BY <1>1, SeqEqual

\* The concatenations that the statements of a send are made of.
LEMMA OneAndTwo == \A a, b, c : <<a>> \o <<b, c>> = <<a, b, c>>
  <1> SUFFICES ASSUME NEW a, NEW b, NEW c
               PROVE  <<a>> \o <<b, c>> = <<a, b, c>>
    OBVIOUS
  <1> DEFINE S == {a, b, c}
             s == <<a>>  t == <<b, c>>  u == <<a, b, c>>
  <1>1. s \in Seq(S) /\ t \in Seq(S) /\ u \in Seq(S) OBVIOUS
  <1>2. /\ Len(u) = Len(s) + Len(t)
        /\ \A i \in 1 .. Len(u) : u[i] = IF i <= Len(s) THEN s[i] ELSE t[i - Len(s)]
    OBVIOUS
  <1> HIDE DEF S, s, t, u
  <1>3. s \o t = u BY <1>1, <1>2, Appended
  <1> QED BY <1>3 DEF s, t, u

LEMMA OneAndThree == \A a, b, c, d : <<a>> \o <<b, c, d>> = <<a, b, c, d>>
  <1> SUFFICES ASSUME NEW a, NEW b, NEW c, NEW d
               PROVE  <<a>> \o <<b, c, d>> = <<a, b, c, d>>
    OBVIOUS
  <1> DEFINE S == {a, b, c, d}
             s == <<a>>  t == <<b, c, d>>  u == <<a, b, c, d>>
  <1>1. s \in Seq(S) /\ t \in Seq(S) /\ u \in Seq(S) OBVIOUS
  <1>2. /\ Len(u) = Len(s) + Len(t)
        /\ \A i \in 1 .. Len(u) : u[i] = IF i <= Len(s) THEN s[i] ELSE t[i - Len(s)]
    OBVIOUS
  <1> HIDE DEF S, s, t, u
  <1>3. s \o t = u BY <1>1, <1>2, Appended
  <1> QED BY <1>3 DEF s, t, u

LEMMA TwoAndOne == \A a, b, c : <<a, b>> \o <<c>> = <<a, b, c>>
  <1> SUFFICES ASSUME NEW a, NEW b, NEW c
               PROVE  <<a, b>> \o <<c>> = <<a, b, c>>
    OBVIOUS
  <1> DEFINE S == {a, b, c}
             s == <<a, b>>  t == <<c>>  u == <<a, b, c>>
  <1>1. s \in Seq(S) /\ t \in Seq(S) /\ u \in Seq(S) OBVIOUS
  <1>2. /\ Len(u) = Len(s) + Len(t)
        /\ \A i \in 1 .. Len(u) : u[i] = IF i <= Len(s) THEN s[i] ELSE t[i - Len(s)]
    OBVIOUS
  <1> HIDE DEF S, s, t, u
  <1>3. s \o t = u BY <1>1, <1>2, Appended
  <1> QED BY <1>3 DEF s, t, u

LEMMA ThreeAndThree == \A a, b, c, d, e, f : <<a, b, c>> \o <<d, e, f>> = <<a, b, c, d, e, f>>
  <1> SUFFICES ASSUME NEW a, NEW b, NEW c, NEW d, NEW e, NEW f
               PROVE  <<a, b, c>> \o <<d, e, f>> = <<a, b, c, d, e, f>>
    OBVIOUS
  <1> DEFINE S == {a, b, c, d, e, f}
             s == <<a, b, c>>  t == <<d, e, f>>  u == <<a, b, c, d, e, f>>
  <1>1. s \in Seq(S) /\ t \in Seq(S) /\ u \in Seq(S) OBVIOUS
  <1>2. /\ Len(u) = Len(s) + Len(t)
        /\ \A i \in 1 .. Len(u) : u[i] = IF i <= Len(s) THEN s[i] ELSE t[i - Len(s)]
    OBVIOUS
  <1> HIDE DEF S, s, t, u
  <1>3. s \o t = u BY <1>1, <1>2, Appended
  <1> QED BY <1>3 DEF s, t, u

LEMMA NoneAndAny == \A s : s \in Seq(QuotaStatements) => <<>> \o s = s /\ s \o <<>> = s
  BY ConcatEmptySeq

-----------------------------------------------------------------------------
(* Types. *)

\* Sequences of few statements are sequences of statements.
LEMMA Statements1 ==
    /\ \A row \in LockRows, mode \in Modes : Q!Lock(row, mode) \in QuotaStatements
    /\ \A kind \in Checks \cup {"skip_locked"} : Q!Do(kind) \in QuotaStatements
  BY DEF Q!Lock, Q!Do, QuotaStatements

\* A request that arrives.
LEMMA BeginTypes ==
    ASSUME QuotaTypes, NEW p \in Requests, NEW new, NEW place \in {"limits", "running"},
           NEW statements \in Seq(QuotaStatements),
           Shaped(new), place = "limits" => new.op \in SendOps,
           Q!Begin(p, new, place, statements)
    PROVE  QuotaTypes'
  <1>1. DataInv' BY DEF QuotaTypes, DataInv, Q!Begin
  <1>2. TxInv'
    BY DEF QuotaTypes, TxInv, Q!Begin, Q!Go, Shaped
  <1>3. ShapeInv'
    BY DEF QuotaTypes, TxInv, ShapeInv, Q!Begin, Q!Go
  <1> QED BY <1>1, <1>2, <1>3 DEF QuotaTypes

\* A request that ends.
LEMMA FinishTypes ==
    ASSUME TxInv, ShapeInv, NEW p \in Requests, Q!Finish(p),
           changed' \in [Requests -> BOOLEAN], UNCHANGED started
    PROVE  TxInv' /\ ShapeInv'
  <1>1. <<>> \in Seq(QuotaStatements) OBVIOUS
  <1>2. TxInv' BY <1>1 DEF TxInv, Q!Finish, Q!Go
  <1>3. ShapeInv' BY DEF TxInv, ShapeInv, Q!Finish, Q!Go
  <1> QED BY <1>2, <1>3

\* A request that goes on, with more locks.
LEMMA GoTypes ==
    ASSUME TxInv, ShapeInv, NEW p \in Requests, NEW statements \in Seq(QuotaStatements),
           Q!Go(p, "running", statements), pc[p] # "idle",
           NEW more \in SUBSET (LockRows \X Modes), locks' = [locks EXCEPT ![p] = @ \cup more],
           NEW new, Shaped(new), request' = [request EXCEPT ![p] = new],
           UNCHANGED <<changed, started>>
    PROVE  TxInv' /\ ShapeInv'
  <1>1. TxInv' BY DEF TxInv, Q!Go, Shaped
  <1>2. ShapeInv' BY DEF TxInv, ShapeInv, Q!Go
  <1> QED BY <1>1, <1>2

\* A request that arrives has its type, and so have the statements it is to execute.
LEMMA ArrivalTypes ==
    ASSUME QuotaGiven, QuotaTypes, NEW p \in Requests, Q!Arrival(p)
    PROVE  QuotaTypes'
  <1> USE Statements1 DEF Shaped, RequestType, Q!Request, QuotaOps, SendOps, Raises, Edits, QuotaGiven
  <1>1. started + 1 \in Nat BY DEF QuotaTypes, TxInv
  <1>2. CASE \E r \in Receivers, size \in Sizes, object \in BOOLEAN : Q!ingest(p, r, size, object)
    <2>1. PICK r \in Receivers, size \in Sizes, object \in BOOLEAN : Q!ingest(p, r, size, object)
      BY <1>2
    <2> DEFINE new == Q!Request(IF object THEN "precheck" ELSE "ingest", r, size)
    <2>2. Shaped(new) /\ new.op \in SendOps BY <1>1
    <2>3. Q!Begin(p, new, "limits", <<>>) BY <2>1 DEF Q!ingest
    <2>4. <<>> \in Seq(QuotaStatements) OBVIOUS
    <2> HIDE DEF new
    <2> QED BY <2>2, <2>3, <2>4, BeginTypes
  <1>3. CASE \E settings \in Settings : Q!update_tenant(p, settings)
    <2>1. PICK settings \in Settings : Q!update_tenant(p, settings) BY <1>3
    <2> DEFINE new == Q!Request("update_tenant", Null, settings)
               statements == Q!lock_tenant_settings(p) \o <<Q!Do("compare"), Q!Audited>>
    <2>2. Shaped(new) BY <1>1
    <2>3. statements \in Seq(QuotaStatements)
      BY DEF Q!lock_tenant_settings, Q!Audited, LockRows, Modes, Checks
    <2>4. Q!Begin(p, new, "running", statements) BY <2>1 DEF Q!update_tenant
    <2> HIDE DEF new, statements
    <2> QED BY <2>2, <2>3, <2>4, BeginTypes
  <1>4. CASE \E r \in Receivers, cap \in Caps \cup {Null} : Q!create_receiver(p, r, cap)
    <2>1. PICK r \in Receivers, cap \in Caps \cup {Null} : Q!create_receiver(p, r, cap) BY <1>4
    <2> DEFINE new == Q!Request("create_receiver", r, cap)
               statements == Q!lock_tenant_settings(p) \o <<Q!Do("validate"), Q!Audited>>
    <2>2. Shaped(new) BY <1>1
    <2>3. statements \in Seq(QuotaStatements)
      BY DEF Q!lock_tenant_settings, Q!Audited, LockRows, Modes, Checks
    <2>4. Q!Begin(p, new, "running", statements) BY <2>1 DEF Q!create_receiver
    <2> HIDE DEF new, statements
    <2> QED BY <2>2, <2>3, <2>4, BeginTypes
  <1>5. CASE \E r \in Receivers, cap \in Caps : Q!update_receiver_cap(p, r, cap)
    <2>1. PICK r \in Receivers, cap \in Caps : Q!update_receiver_cap(p, r, cap) BY <1>5
    <2> DEFINE new == Q!Request("update_receiver", r, cap)
               statements == Q!lock_tenant_settings(p) \o
                             <<Q!Do("validate"), Q!Lock(r, "no_key_update"), Q!Audited>>
    <2>2. Shaped(new) BY <1>1
    <2>3. statements \in Seq(QuotaStatements)
      BY DEF Q!lock_tenant_settings, Q!Audited, LockRows, Modes, Checks
    <2>4. Q!Begin(p, new, "running", statements) BY <2>1 DEF Q!update_receiver_cap
    <2> HIDE DEF new, statements
    <2> QED BY <2>2, <2>3, <2>4, BeginTypes
  <1>6. ASSUME NEW r \in Receivers, NEW op \in Edits, NEW mode \in Modes,
               Q!Unordered(p, op, r, mode)
        PROVE  QuotaTypes'
    <2>1. PICK statements \in {<<Q!Lock(r, mode), Q!Audited>>, <<Q!Audited, Q!Lock(r, mode)>>} :
              Q!Begin(p, Q!Request(op, r, Null), "running", statements)
      BY <1>6 DEF Q!Unordered
    <2>2. Shaped(Q!Request(op, r, Null)) BY <1>1
    <2>3. Q!Lock(r, mode) \in QuotaStatements /\ Q!Audited \in QuotaStatements
      BY DEF Q!Audited, LockRows, Modes
    <2> DEFINE s == <<Q!Lock(r, mode), Q!Audited>>  t == <<Q!Audited, Q!Lock(r, mode)>>
    <2>4. s \in Seq(QuotaStatements) /\ t \in Seq(QuotaStatements) BY <2>3
    <2>5. statements = s \/ statements = t BY <2>1
    <2> HIDE DEF s, t
    <2>6. statements \in Seq(QuotaStatements) BY <2>4, <2>5
    <2> HIDE DEF Shaped, Q!Request
    <2> QED BY <2>1, <2>2, <2>6, BeginTypes
  <1>7. CASE Q!check_expected_schedules(p)
    <2> DEFINE new == Q!Request("job", Null, Null)
               statements == Q!job_locks \o <<Q!Lock(Q!Tenant, "key_share")>>
    <2>1. Shaped(new) BY <1>1
    <2>2. statements \in Seq(QuotaStatements) BY DEF Q!job_locks, LockRows, Modes
    <2>3. Q!Begin(p, new, "running", statements) BY <1>7 DEF Q!check_expected_schedules
    <2> HIDE DEF new, statements
    <2> QED BY <2>1, <2>2, <2>3, BeginTypes
  <1> QED
    BY <1>2, <1>3, <1>4, <1>5, <1>6, <1>7
    DEF Q!Arrival, Q!update_receiver, Q!rotate_slug, Q!delete_receiver, Modes

\* The limits a send reads and the object it stores keep the types.
LEMMA SendTypes ==
    ASSUME QuotaGiven, QuotaTypes, NEW p \in Requests,
           Q!enforce_tenant_quotas(p) \/ Q!upload_object(p)
    PROVE  QuotaTypes'
  <1>1. CASE Q!enforce_tenant_quotas(p)
    <2> DEFINE checks == IF tenant.max_per_day = Null /\ tenant.max_storage = Null THEN <<>>
                         ELSE <<Q!quota_lock(p), Q!Do("count"), Q!Do("sum")>>
               rest == IF request[p].op = "ingest" THEN Q!persist_notification(request[p].receiver)
                       ELSE <<>>
    <2>1. pc[p] = "limits" /\ Q!Go(p, "running", checks \o rest)
      BY <1>1 DEF Q!enforce_tenant_quotas
    <2>2. Shaped(request[p]) /\ request[p].op \in SendOps BY <2>1 DEF QuotaTypes, ShapeInv
    <2>3. checks \in Seq(QuotaStatements)
      BY Statements1 DEF Q!quota_lock, LockRows, Modes, Checks
    <2>4. rest \in Seq(QuotaStatements)
      BY <2>2, Statements1 DEF Q!persist_notification, Shaped, LockRows, Modes
    <2>5. checks \o rest \in Seq(QuotaStatements)
      <3> HIDE DEF checks, rest
      <3> QED BY <2>3, <2>4, ConcatProperties
    <2> DEFINE more == {}
    <2>6. /\ locks' = [locks EXCEPT ![p] = @ \cup more] /\ more \in SUBSET (LockRows \X Modes)
          /\ request' = [request EXCEPT ![p] = request[p]]
          /\ UNCHANGED <<tenant, caps, stored, changed, started>>
      BY <1>1 DEF Q!enforce_tenant_quotas, QuotaTypes, TxInv
    <2> HIDE DEF checks, rest, more
    <2>7. TxInv' /\ ShapeInv' BY <2>1, <2>2, <2>5, <2>6, GoTypes DEF QuotaTypes
    <2>8. DataInv' BY <2>6 DEF QuotaTypes, DataInv
    <2> QED BY <2>7, <2>8 DEF QuotaTypes
  <1>2. CASE Q!upload_object(p)
    <2> USE DEF Q!upload_object
    <2>1. request[p].op = "precheck" /\ Shaped(request[p])
      BY <1>2 DEF QuotaTypes, ShapeInv
    <2>2. Shaped([request[p] EXCEPT !.op = "ingest"])
      BY <2>1 DEF Shaped, RequestType, QuotaOps, SendOps, Raises, Edits
    <2>3. <<>> \in Seq(QuotaStatements) OBVIOUS
    <2>4. TxInv'
      BY <1>2, <2>2, <2>3 DEF QuotaTypes, TxInv, Q!Go, Shaped
    <2>5. ShapeInv'
      BY <1>2, <2>2 DEF QuotaTypes, TxInv, ShapeInv, Q!Go, SendOps
    <2>6. DataInv' BY <1>2 DEF QuotaTypes, DataInv
    <2> QED BY <2>4, <2>5, <2>6 DEF QuotaTypes
  <1> QED BY <1>1, <1>2

\* A lock, one that is skipped and a comparison keep the types.
LEMMA StatementTypes ==
    ASSUME QuotaGiven, QuotaTypes, NEW p \in Requests, Q!lock(p) \/ Q!skip_locked(p) \/ Q!check(p)
    PROVE  QuotaTypes'
  <1>1. pc[p] = "running" /\ todo[p] # <<>> /\ UNCHANGED <<tenant, caps, stored, changed, started>>
    BY DEF Q!lock, Q!skip_locked, Q!check
  <1>2. Head(todo[p]) \in QuotaStatements /\ Tail(todo[p]) \in Seq(QuotaStatements)
    BY <1>1 DEF QuotaTypes, TxInv
  <1>3. Shaped(request[p]) BY <1>1 DEF QuotaTypes, ShapeInv
  <1>4. DataInv' BY <1>1 DEF QuotaTypes, DataInv
  <1>5. CASE Q!Finish(p) BY <1>1, <1>4, <1>5, FinishTypes DEF QuotaTypes, TxInv
  <1>6. CASE Q!lock(p) /\ ~Q!Finish(p)
    <2> DEFINE l == <<Head(todo[p]).row, Head(todo[p]).mode>>
    <2>1. /\ locks' = [locks EXCEPT ![p] = @ \cup {l}] /\ Q!Go(p, "running", Tail(todo[p]))
          /\ UNCHANGED request /\ Head(todo[p]).kind = "lock"
      BY <1>6 DEF Q!lock
    <2>2. {l} \in SUBSET (LockRows \X Modes) BY <1>2, <2>1 DEF QuotaStatements, Checks
    <2>3. request' = [request EXCEPT ![p] = request[p]] BY <2>1 DEF QuotaTypes, TxInv
    <2> HIDE DEF l
    <2> QED BY <1>1, <1>2, <1>3, <1>4, <2>1, <2>2, <2>3, GoTypes DEF QuotaTypes
  <1>7. CASE Q!skip_locked(p)
    <2> DEFINE more == {<<r, "update">> : r \in Q!Unlocked(p)}
               new == [request[p] EXCEPT !.locked = Q!Unlocked(p)]
    <2>1. /\ locks' = [locks EXCEPT ![p] = @ \cup more] /\ Q!Go(p, "running", Tail(todo[p]))
          /\ request' = [request EXCEPT ![p] = new]
      BY <1>7 DEF Q!skip_locked, QuotaTypes, TxInv
    <2>2. Q!Unlocked(p) \subseteq Receivers BY DEF Q!Unlocked
    <2>3. more \in SUBSET (LockRows \X Modes) BY <2>2 DEF LockRows, Modes
    <2>4. Shaped(new) BY <1>3, <2>2 DEF Shaped, RequestType
    <2> HIDE DEF more, new
    <2> QED BY <1>1, <1>2, <1>4, <2>1, <2>3, <2>4, GoTypes DEF QuotaTypes
  <1>8. CASE Q!check(p) /\ ~Q!Finish(p)
    <2> DEFINE value == IF Head(todo[p]).kind = "validate" /\ request[p].value = Null
                        THEN tenant.cap ELSE request[p].value
               new == [request[p] EXCEPT !.value = value]
    <2>1. /\ UNCHANGED locks /\ Q!Go(p, "running", Tail(todo[p]))
          /\ request' = [request EXCEPT ![p] = new]
      BY <1>8 DEF Q!check, QuotaTypes, TxInv
    <2>2. tenant.cap \in Nat BY DEF QuotaTypes, DataInv, TenantType
    <2>3. Shaped(new)
      <3>1. CASE value = request[p].value BY <1>3, <3>1 DEF Shaped, RequestType
      <3>2. CASE value = tenant.cap /\ request[p].value = Null
        BY <1>3, <2>2, <3>2 DEF Shaped, RequestType, QuotaGiven
      <3> QED BY <3>1, <3>2
    <2> DEFINE more == {}
    <2>4. locks' = [locks EXCEPT ![p] = @ \cup more] /\ more \in SUBSET (LockRows \X Modes)
      BY <2>1 DEF QuotaTypes, TxInv
    <2> HIDE DEF new, more
    <2> QED BY <1>1, <1>2, <1>4, <2>1, <2>3, <2>4, GoTypes DEF QuotaTypes
  <1> QED BY <1>5, <1>6, <1>7, <1>8

\* A notification has its type.
LEMMA NewTypes ==
    ASSUME NEW r \in Receivers, NEW size \in Nat, NEW id \in Nat
    PROVE  Q!New(r, size, id) \in [receiver : Receivers, size : Nat, id : Nat, recent : BOOLEAN]
  BY DEF Q!New

\* What a commit leaves in the tables.
LEMMA CommitData ==
    ASSUME QuotaGiven, QuotaTypes, NEW p \in Requests, Q!commit(p)
    PROVE  DataInv'
  <1> DEFINE r == request[p]
             Row == [receiver : Receivers, size : Nat, id : Nat, recent : BOOLEAN]
  <1>1. Shaped(r) BY DEF Q!commit, QuotaTypes, ShapeInv
  <1>2. stored \subseteq Row /\ IsFiniteSet(stored) BY DEF QuotaTypes, DataInv
  <1>3. tenant' \in TenantType
    <2>1. CASE r.op = "update_tenant"
      <3> DEFINE field(f) == IF f \in DOMAIN r.value THEN r.value[f] ELSE tenant[f]
      <3>1. tenant \in TenantType BY DEF QuotaTypes, DataInv
      <3>2. DOMAIN tenant = {"max_per_day", "max_storage", "cap"} BY <3>1 DEF TenantType
      <3>3. tenant' = [f \in {"max_per_day", "max_storage", "cap"} |-> field(f)]
        BY <2>1, <3>2 DEF Q!commit
      <3>4. r.value \in Settings BY <1>1, <2>1 DEF Shaped
      <3>5. /\ field("max_per_day") \in Nat \cup {Null}
            /\ field("max_storage") \in Nat \cup {Null} /\ field("cap") \in Nat
        BY <3>1, <3>4 DEF QuotaGiven, TenantType
      <3> HIDE DEF field
      <3> QED BY <3>3, <3>5 DEF TenantType
    <2>2. CASE r.op # "update_tenant" BY <2>2 DEF Q!commit, QuotaTypes, DataInv
    <2> QED BY <2>1, <2>2
  <1>4. caps' \in [Receivers -> Nat \cup {NoRow, Null}]
    BY <1>1 DEF Q!commit, Shaped, Raises, QuotaTypes, DataInv
  <1>5. stored' \subseteq Row /\ IsFiniteSet(stored')
    <2>1. CASE r.op = "ingest"
      <3>1. stored' = stored \cup {Q!New(r.receiver, r.value, r.id)} BY <2>1 DEF Q!commit
      <3>2. Q!New(r.receiver, r.value, r.id) \in Row
        BY <1>1, <2>1, NewTypes DEF Shaped, RequestType, SendOps
      <3> QED BY <1>2, <3>1, <3>2, FS_AddElement
    <2>2. CASE r.op = "job"
      <3>1. PICK late \in SUBSET r.locked : stored' = stored \cup {Q!New(x, 1, r.id) : x \in late}
        BY <2>2 DEF Q!commit
      <3>2. late \subseteq Receivers /\ IsFiniteSet(late) /\ r.id \in Nat
        BY <1>1, FS_Subset DEF QuotaGiven, Shaped, RequestType
      <3> DEFINE new == {Q!New(x, 1, r.id) : x \in late}
      <3>3. new \subseteq Row
        <4>1. ASSUME NEW x \in late PROVE Q!New(x, 1, r.id) \in Row BY <3>2, NewTypes
        <4> QED BY <4>1
      <3>4. IsFiniteSet(new)
        <4> DEFINE f == [x \in late |-> Q!New(x, 1, r.id)]
        <4>1. f \in Surjection(late, new) BY DEF Surjection
        <4> HIDE DEF f, new
        <4> QED BY <3>2, <4>1, FS_Surjection
      <3> HIDE DEF new
      <3>5. stored' = stored \cup new BY <3>1 DEF new
      <3> QED BY <1>2, <3>3, <3>4, <3>5, FS_Union
    <2>3. CASE r.op \notin {"ingest", "job"}
      <3>1. stored' \subseteq stored BY <2>3 DEF Q!commit
      <3> QED BY <1>2, <3>1, FS_Subset
    <2> QED BY <2>1, <2>2, <2>3
  <1> QED BY <1>3, <1>4, <1>5 DEF DataInv

\* A commit and a rollback keep the types.
LEMMA EndTypes ==
    ASSUME QuotaGiven, QuotaTypes, NEW p \in Requests, Q!commit(p) \/ Q!rollback(p)
    PROVE  QuotaTypes'
  <1>1. DataInv'
    <2>1. CASE Q!commit(p) BY <2>1, CommitData
    <2>2. CASE Q!rollback(p) BY <2>2 DEF Q!rollback, QuotaTypes, DataInv
    <2> QED BY <2>1, <2>2
  <1>2. Q!Finish(p) /\ UNCHANGED started BY DEF Q!commit, Q!rollback
  <1>3. changed' \in [Requests -> BOOLEAN]
    <2>1. CASE Q!commit(p) BY <2>1 DEF Q!commit, QuotaTypes, TxInv
    <2>2. CASE Q!rollback(p) BY <2>2 DEF Q!rollback, QuotaTypes, TxInv
    <2> QED BY <2>1, <2>2
  <1> QED BY <1>1, <1>2, <1>3, FinishTypes DEF QuotaTypes

\* Time and the retention keep the types.
LEMMA TimeTypes ==
    ASSUME QuotaGiven, QuotaTypes, NEW n \in stored, Q!age(n) \/ Q!purge(n)
    PROVE  QuotaTypes'
  <1>1. TxInv' /\ ShapeInv' BY DEF Q!age, Q!purge, Q!txVars, QuotaTypes, TxInv, ShapeInv
  <1>2. UNCHANGED <<tenant, caps>> BY DEF Q!age, Q!purge
  <1>3. /\ stored' \subseteq [receiver : Receivers, size : Nat, id : Nat, recent : BOOLEAN]
        /\ IsFiniteSet(stored')
    <2>1. CASE Q!age(n)
      <3>1. IsFiniteSet(stored \ {n}) BY FS_RemoveElement DEF QuotaTypes, DataInv
      <3>2. stored' = (stored \ {n}) \cup {[n EXCEPT !.recent = FALSE]} BY <2>1 DEF Q!age
      <3>3. IsFiniteSet(stored') BY <3>1, <3>2, FS_AddElement
      <3> QED BY <3>2, <3>3 DEF QuotaTypes, DataInv
    <2>2. CASE Q!purge(n) BY <2>2, FS_RemoveElement DEF Q!purge, QuotaTypes, DataInv
    <2> QED BY <2>1, <2>2
  <1> QED BY <1>1, <1>2, <1>3 DEF QuotaTypes, DataInv

\* Every step keeps the types.
LEMMA QuotaTypesStay == QuotaGiven /\ QuotaTypes /\ [Q!Next]_Q!vars => QuotaTypes'
  <1> SUFFICES ASSUME QuotaGiven, QuotaTypes, [Q!Next]_Q!vars PROVE QuotaTypes' OBVIOUS
  <1>1. CASE UNCHANGED Q!vars
    BY <1>1 DEF Q!vars, Q!txVars, QuotaTypes, DataInv, TxInv, ShapeInv
  <1>2. ASSUME NEW p \in Requests, Q!Arrival(p) PROVE QuotaTypes' BY <1>2, ArrivalTypes
  <1>3. ASSUME NEW p \in Requests, Q!Step(p) PROVE QuotaTypes'
    BY <1>3, SendTypes, StatementTypes, EndTypes DEF Q!Step
  <1>4. ASSUME NEW n \in stored, Q!age(n) \/ Q!purge(n) PROVE QuotaTypes' BY <1>4, TimeTypes
  <1> QED BY <1>1, <1>2, <1>3, <1>4 DEF Q!Next

\* The types at the start.
LEMMA QuotaTypesStart == QuotaGiven /\ Q!Init => QuotaTypes
  <1> SUFFICES ASSUME QuotaGiven, Q!Init PROVE QuotaTypes OBVIOUS
  <1>1. DataInv BY FS_EmptySet DEF Q!Init, DataInv, QuotaGiven
  <1>2. <<>> \in Seq(QuotaStatements) OBVIOUS
  <1>3. TxInv BY <1>2 DEF Q!Init, TxInv
  <1>4. ShapeInv BY DEF Q!Init, ShapeInv
  <1> QED BY <1>1, <1>3, <1>4 DEF QuotaTypes

-----------------------------------------------------------------------------
(* Locks. *)

\* Two modes conflict in both orders.
LEMMA ConflictIsMutual == \A m, n : Q!Conflict(m, n) <=> Q!Conflict(n, m)
  BY DEF Q!Conflict

\* A release leaves the locks exclusive.
LEMMA LocksReleased ==
    ASSUME TxInv, LocksExclude, NEW p \in Requests, locks' = [locks EXCEPT ![p] = {}]
    PROVE  LocksExclude'
  BY DEF TxInv, LocksExclude

\* A lock that nobody holds against it leaves the locks exclusive.
LEMMA LocksTaken ==
    ASSUME TxInv, LocksExclude, NEW p \in Requests, NEW more,
           locks' = [locks EXCEPT ![p] = @ \cup more],
           \A l \in more : Q!Holders(p, l[1], l[2]) = {}
    PROVE  LocksExclude'
  <1> SUFFICES ASSUME NEW q \in Requests, NEW s \in Requests, q # s,
                      NEW l \in locks'[q], NEW m \in locks'[s], l[1] = m[1]
               PROVE  ~Q!Conflict(l[2], m[2])
    BY DEF LocksExclude
  <1>1. \A n \in more, t \in Requests \ {p} : \A k \in locks[t] :
            k[1] = n[1] => ~Q!Conflict(k[2], n[2])
    BY DEF Q!Holders
  <1>2. CASE q = p
    <2>1. m \in locks[s] /\ l \in locks[p] \cup more BY <1>2 DEF TxInv
    <2>2. CASE l \in locks[p] BY <1>2, <2>1, <2>2 DEF LocksExclude
    <2>3. CASE l \in more BY <1>1, <1>2, <2>1, <2>3, ConflictIsMutual
    <2> QED BY <2>1, <2>2, <2>3
  <1>3. CASE s = p
    <2>1. l \in locks[q] /\ m \in locks[p] \cup more BY <1>3 DEF TxInv
    <2>2. CASE m \in locks[p] BY <1>3, <2>1, <2>2 DEF LocksExclude
    <2>3. CASE m \in more BY <1>1, <1>3, <2>1, <2>3
    <2> QED BY <2>1, <2>2, <2>3
  <1>4. CASE q # p /\ s # p BY <1>4 DEF TxInv, LocksExclude
  <1> QED BY <1>2, <1>3, <1>4

\* Every step keeps the locks exclusive.
LEMMA LocksStay == QuotaTypes /\ LocksExclude /\ [Q!Next]_Q!vars => LocksExclude'
  <1> SUFFICES ASSUME QuotaTypes, LocksExclude, [Q!Next]_Q!vars PROVE LocksExclude' OBVIOUS
  <1>0. TxInv BY DEF QuotaTypes
  <1>1. CASE UNCHANGED locks BY <1>1 DEF LocksExclude
  <1>2. ASSUME NEW p \in Requests, Q!Arrival(p) PROVE UNCHANGED locks
    BY <1>2 DEF Q!Arrival, Q!ingest, Q!update_tenant, Q!create_receiver, Q!update_receiver_cap,
                Q!update_receiver, Q!rotate_slug, Q!delete_receiver, Q!Unordered,
                Q!check_expected_schedules, Q!Begin
  <1>3. ASSUME NEW p \in Requests, Q!Finish(p) \/ Q!upload_object(p) PROVE LocksExclude'
    BY <1>0, <1>3, LocksReleased DEF Q!Finish, Q!upload_object
  <1>4. ASSUME NEW p \in Requests, Q!enforce_tenant_quotas(p) PROVE UNCHANGED locks
    BY <1>4 DEF Q!enforce_tenant_quotas
  <1>5. ASSUME NEW p \in Requests, Q!check(p), ~Q!Finish(p) PROVE UNCHANGED locks
    BY <1>5 DEF Q!check
  <1>6. ASSUME NEW p \in Requests, Q!lock(p), ~Q!Finish(p) PROVE LocksExclude'
    <2> DEFINE s == Head(todo[p])  more == {<<s.row, s.mode>>}
    <2>1. /\ locks' = [locks EXCEPT ![p] = @ \cup more]
          /\ todo[p] # <<>> /\ s.kind = "lock" /\ Q!WaitsFor(p) = {}
      BY <1>6 DEF Q!lock
    <2>2. \A l \in more : Q!Holders(p, l[1], l[2]) = {} BY <2>1 DEF Q!WaitsFor
    <2> HIDE DEF more
    <2> QED BY <1>0, <2>1, <2>2, LocksTaken
  <1>7. ASSUME NEW p \in Requests, Q!skip_locked(p) PROVE LocksExclude'
    <2> DEFINE more == {<<r, "update">> : r \in Q!Unlocked(p)}
    <2>1. locks' = [locks EXCEPT ![p] = @ \cup more] BY <1>7 DEF Q!skip_locked
    <2>2. \A l \in more : Q!Holders(p, l[1], l[2]) = {} BY DEF Q!Unlocked
    <2> HIDE DEF more
    <2> QED BY <1>0, <2>1, <2>2, LocksTaken
  <1>8. ASSUME NEW p \in Requests, Q!commit(p) \/ Q!rollback(p) PROVE Q!Finish(p)
    BY <1>8 DEF Q!commit, Q!rollback
  <1>9. ASSUME NEW n \in stored, Q!age(n) \/ Q!purge(n) PROVE UNCHANGED locks
    BY <1>9 DEF Q!age, Q!purge, Q!txVars
  <1>10. CASE UNCHANGED Q!vars BY <1>10 DEF Q!vars, Q!txVars, LocksExclude
  <1> QED
    BY <1>1, <1>2, <1>3, <1>4, <1>5, <1>6, <1>7, <1>8, <1>9, <1>10 DEF Q!Next, Q!Step

-----------------------------------------------------------------------------
(* What a request has yet to do, and the locks it has meanwhile. *)

Has(p, mode) == <<Q!Tenant, mode>> \in locks[p]

SettingPlan(p) ==
    \/ locks[p] = {} /\ todo[p] = <<Q!Lock(Q!Tenant, "no_key_update"), Q!Do("compare"), Q!Audited>>
    \/ Has(p, "no_key_update") /\ todo[p] \in {<<Q!Do("compare"), Q!Audited>>, <<Q!Audited>>, <<>>}

CreationPlan(p) ==
    \/ locks[p] = {} /\ todo[p] = <<Q!Lock(Q!Tenant, "no_key_update"), Q!Do("validate"), Q!Audited>>
    \/ Has(p, "no_key_update") /\ todo[p] \in {<<Q!Do("validate"), Q!Audited>>, <<Q!Audited>>, <<>>}

CapPlan(p) ==
    LET row == Q!Lock(request[p].receiver, "no_key_update")
    IN  \/ /\ locks[p] = {}
           /\ todo[p] = <<Q!Lock(Q!Tenant, "no_key_update"), Q!Do("validate"), row, Q!Audited>>
        \/ /\ Has(p, "no_key_update")
           /\ todo[p] \in {<<Q!Do("validate"), row, Q!Audited>>, <<row, Q!Audited>>, <<Q!Audited>>, <<>>}

JobPlan(p) ==
    \/ locks[p] = {} /\ todo[p] = <<Q!Lock(Q!Tenant, "no_key_update"), Q!Do("skip_locked"), Q!Audited>>
    \/ Has(p, "no_key_update") /\ todo[p] \in {<<Q!Do("skip_locked"), Q!Audited>>, <<Q!Audited>>, <<>>}

SendPlan(p) ==
    LET first == Q!Lock(Q!Tenant, "key_share")
        second == Q!Lock(request[p].receiver, "key_share")
        third == Q!Lock(request[p].receiver, "no_key_update")
    IN  \/ /\ locks[p] = {}
           /\ todo[p] \in {<<Q!Lock(Q!Tenant, "update"), Q!Do("count"), Q!Do("sum"), first, second, third>>,
                           <<first, second, third>>}
        \/ /\ Has(p, "update")
           /\ todo[p] \in {<<Q!Do("count"), Q!Do("sum"), first, second, third>>,
                           <<Q!Do("sum"), first, second, third>>, <<first, second, third>>}
        \/ Has(p, "key_share") /\ todo[p] \in {<<second, third>>, <<third>>, <<>>}

PrecheckPlan(p) ==
    \/ locks[p] = {} /\ todo[p] = <<Q!Lock(Q!Tenant, "update"), Q!Do("count"), Q!Do("sum")>>
    \/ todo[p] \in {<<Q!Do("count"), Q!Do("sum")>>, <<Q!Do("sum")>>, <<>>}

PlanOf(p) ==
    pc[p] = "running" =>
        /\ request[p].op = "update_tenant" => SettingPlan(p)
        /\ request[p].op = "create_receiver" => CreationPlan(p)
        /\ request[p].op = "update_receiver" => CapPlan(p)
        /\ request[p].op = "job" => JobPlan(p)
        /\ request[p].op = "ingest" => SendPlan(p)
        /\ request[p].op = "precheck" => PrecheckPlan(p)

PlanInv == \A p \in Requests : PlanOf(p)

\* The first statement is done.
LEMMA PlanAdvances ==
    ASSUME PlanInv, NEW p \in Requests, pc[p] = "running", todo[p] # <<>>,
           todo'[p] = Tail(todo[p]), locks[p] \subseteq locks'[p],
           Head(todo[p]).kind = "lock" =>
               <<Head(todo[p]).row, Head(todo[p]).mode>> \in locks'[p],
           request'[p].op = request[p].op, request'[p].receiver = request[p].receiver
    PROVE  PlanOf(p)'
  <1>1. PlanOf(p) BY DEF PlanInv
  <1>2. ASSUME NEW mode \in Modes
        PROVE  /\ Has(p, mode) \in BOOLEAN /\ Has(p, mode)' \in BOOLEAN
               /\ Has(p, mode) => Has(p, mode)'
               /\ Head(todo[p]) = Q!Lock(Q!Tenant, mode) => Has(p, mode)'
    BY DEF Has, Q!Lock
  <1> DEFINE none == "no_key_update"
             t == todo[p]  held == Has(p, none)  now == Has(p, none)'
             settled == Q!Lock(Q!Tenant, none)
             row == Q!Lock(request[p].receiver, none)
  <1>3. /\ none \in Modes /\ "update" \in Modes /\ "key_share" \in Modes
        /\ held \in BOOLEAN /\ now \in BOOLEAN /\ (held => now) /\ (Head(t) = settled => now)
        /\ t # <<>>
    BY <1>2 DEF Modes
  <1>4. ASSUME NEW b,
               t = <<settled, b, Q!Audited>> \/ (held /\ t \in {<<b, Q!Audited>>, <<Q!Audited>>, <<>>})
        PROVE  now /\ Tail(t) \in {<<b, Q!Audited>>, <<Q!Audited>>, <<>>}
    <2> HIDE DEF t, settled, held, now
    <2>1. CASE t = <<settled, b, Q!Audited>> BY <1>3, <2>1, Tails
    <2>2. CASE held /\ t = <<b, Q!Audited>> BY <1>3, <2>2, Tails
    <2>3. CASE held /\ t = <<Q!Audited>> BY <1>3, <2>3, Tails
    <2> QED BY <1>3, <1>4, <2>1, <2>2, <2>3
  <1>5. CASE request[p].op = "update_tenant"
    <2> DEFINE b == Q!Do("compare")
    <2>1. t = <<settled, b, Q!Audited>> \/ (held /\ t \in {<<b, Q!Audited>>, <<Q!Audited>>, <<>>})
      BY <1>1, <1>5 DEF PlanOf, SettingPlan
    <2>2. now /\ Tail(t) \in {<<b, Q!Audited>>, <<Q!Audited>>, <<>>}
      <3> HIDE DEF t, settled, held, now, b
      <3> QED BY <2>1, <1>4
    <2>3. SettingPlan(p)' BY <2>2 DEF SettingPlan, Q!Audited, Q!Lock, Q!Do
    <2> QED BY <1>5, <2>3 DEF PlanOf
  <1>6. CASE request[p].op = "create_receiver"
    <2> DEFINE b == Q!Do("validate")
    <2>1. t = <<settled, b, Q!Audited>> \/ (held /\ t \in {<<b, Q!Audited>>, <<Q!Audited>>, <<>>})
      BY <1>1, <1>6 DEF PlanOf, CreationPlan
    <2>2. now /\ Tail(t) \in {<<b, Q!Audited>>, <<Q!Audited>>, <<>>}
      <3> HIDE DEF t, settled, held, now, b
      <3> QED BY <2>1, <1>4
    <2>3. CreationPlan(p)' BY <2>2 DEF CreationPlan, Q!Audited, Q!Lock, Q!Do
    <2> QED BY <1>6, <2>3 DEF PlanOf
  <1>7. CASE request[p].op = "job"
    <2> DEFINE b == Q!Do("skip_locked")
    <2>1. t = <<settled, b, Q!Audited>> \/ (held /\ t \in {<<b, Q!Audited>>, <<Q!Audited>>, <<>>})
      BY <1>1, <1>7 DEF PlanOf, JobPlan
    <2>2. now /\ Tail(t) \in {<<b, Q!Audited>>, <<Q!Audited>>, <<>>}
      <3> HIDE DEF t, settled, held, now, b
      <3> QED BY <2>1, <1>4
    <2>3. JobPlan(p)' BY <2>2 DEF JobPlan, Q!Audited, Q!Lock, Q!Do
    <2> QED BY <1>7, <2>3 DEF PlanOf
  <1>8. CASE request[p].op = "update_receiver"
    <2> DEFINE b == Q!Do("validate")
    <2>1. \/ t = <<settled, b, row, Q!Audited>>
          \/ held /\ t \in {<<b, row, Q!Audited>>, <<row, Q!Audited>>, <<Q!Audited>>, <<>>}
      BY <1>1, <1>8 DEF PlanOf, CapPlan
    <2>2. now /\ Tail(t) \in {<<b, row, Q!Audited>>, <<row, Q!Audited>>, <<Q!Audited>>, <<>>}
      <3> HIDE DEF t, settled, held, now, b, row
      <3>1. CASE t = <<settled, b, row, Q!Audited>> BY <1>3, <3>1, Tails
      <3>2. CASE held /\ t = <<b, row, Q!Audited>> BY <1>3, <3>2, Tails
      <3>3. CASE held /\ t = <<row, Q!Audited>> BY <1>3, <3>3, Tails
      <3>4. CASE held /\ t = <<Q!Audited>> BY <1>3, <3>4, Tails
      <3> QED BY <1>3, <2>1, <3>1, <3>2, <3>3, <3>4
    <2>3. CapPlan(p)' BY <2>2 DEF CapPlan, Q!Audited, Q!Lock, Q!Do
    <2> QED BY <1>8, <2>3 DEF PlanOf
  <1>9. CASE request[p].op = "ingest"
    <2> DEFINE a == Q!Lock(Q!Tenant, "update")  b == Q!Do("count")  c == Q!Do("sum")
               d == Q!Lock(Q!Tenant, "key_share")
               e == Q!Lock(request[p].receiver, "key_share")
               limited == Has(p, "update")  limits == Has(p, "update")'
               shared == Has(p, "key_share")  share == Has(p, "key_share")'
    <2>1. \/ t = <<a, b, c, d, e, row>>
          \/ limited /\ t \in {<<b, c, d, e, row>>, <<c, d, e, row>>}
          \/ t = <<d, e, row>>
          \/ shared /\ t \in {<<e, row>>, <<row>>, <<>>}
      BY <1>1, <1>9 DEF PlanOf, SendPlan
    <2>2. /\ limited \in BOOLEAN /\ limits \in BOOLEAN /\ (limited => limits)
          /\ shared \in BOOLEAN /\ share \in BOOLEAN /\ (shared => share)
          /\ (Head(t) = a => limits) /\ (Head(t) = d => share)
      BY <1>2, <1>3
    <2>3. \/ limits /\ Tail(t) \in {<<b, c, d, e, row>>, <<c, d, e, row>>, <<d, e, row>>}
          \/ share /\ Tail(t) \in {<<e, row>>, <<row>>, <<>>}
      <3> HIDE DEF t, a, b, c, d, e, row, limited, limits, shared, share
      <3>1. CASE t = <<a, b, c, d, e, row>> BY <2>2, <3>1, Tails
      <3>2. CASE limited /\ t = <<b, c, d, e, row>> BY <2>2, <3>2, Tails
      <3>3. CASE limited /\ t = <<c, d, e, row>> BY <2>2, <3>3, Tails
      <3>4. CASE t = <<d, e, row>> BY <2>2, <3>4, Tails
      <3>5. CASE shared /\ t = <<e, row>> BY <2>2, <3>5, Tails
      <3>6. CASE shared /\ t = <<row>> BY <2>2, <3>6, Tails
      <3> QED BY <1>3, <2>1, <3>1, <3>2, <3>3, <3>4, <3>5, <3>6
    <2>4. SendPlan(p)' BY <2>3 DEF SendPlan, Q!Lock, Q!Do
    <2> QED BY <1>9, <2>4 DEF PlanOf
  <1>10. CASE request[p].op = "precheck"
    <2> DEFINE a == Q!Lock(Q!Tenant, "update")  b == Q!Do("count")  c == Q!Do("sum")
    <2>1. t = <<a, b, c>> \/ t \in {<<b, c>>, <<c>>, <<>>}
      BY <1>1, <1>10 DEF PlanOf, PrecheckPlan
    <2>2. Tail(t) \in {<<b, c>>, <<c>>, <<>>}
      <3> HIDE DEF t, a, b, c
      <3>1. CASE t = <<a, b, c>> BY <3>1, Tails
      <3>2. CASE t = <<b, c>> BY <3>2, Tails
      <3>3. CASE t = <<c>> BY <3>3, Tails
      <3> QED BY <1>3, <2>1, <3>1, <3>2, <3>3
    <2>3. PrecheckPlan(p)' BY <2>2 DEF PrecheckPlan, Q!Lock, Q!Do
    <2> QED BY <1>10, <2>3 DEF PlanOf
  <1> QED BY <1>5, <1>6, <1>7, <1>8, <1>9, <1>10 DEF PlanOf

\* Those that stand where they stood keep their plan.
LEMMA PlanKept ==
    ASSUME PlanInv, TxInv, NEW p \in Requests, NEW q \in Requests \ {p},
           NEW l, locks' = [locks EXCEPT ![p] = l], NEW r, request' = [request EXCEPT ![p] = r],
           NEW place, NEW statements, Q!Go(p, place, statements)
    PROVE  PlanOf(q)'
  <1>1. PlanOf(q) BY DEF PlanInv
  <1>2. /\ locks'[q] = locks[q] /\ request'[q] = request[q]
        /\ pc'[q] = pc[q] /\ todo'[q] = todo[q]
    BY DEF TxInv, Q!Go
  <1> QED
    BY <1>1, <1>2
    DEF PlanOf, SettingPlan, CreationPlan, CapPlan, JobPlan, SendPlan, PrecheckPlan,
        Has, Q!Lock, Q!Do, Q!Audited

\* A request that ends has no plan.
LEMMA PlansFinish ==
    ASSUME PlanInv, TxInv, NEW p \in Requests, Q!Finish(p)
    PROVE  PlanInv'
  <1>1. \A q \in Requests \ {p} : PlanOf(q)' BY PlanKept DEF Q!Finish
  <1>2. PlanOf(p)' BY DEF Q!Finish, Q!Go, TxInv, PlanOf
  <1> QED BY <1>1, <1>2 DEF PlanInv

\* A request begins with the plan of its operation.
LEMMA PlansBegin ==
    ASSUME QuotaTypes, PlanInv, NEW p \in Requests, Q!Arrival(p)
    PROVE  PlanInv'
  <1>0. TxInv BY DEF QuotaTypes
  <1>1. ASSUME NEW new, NEW place, NEW statements, Q!Begin(p, new, place, statements),
               \/ place = "limits"
               \/ new.op \notin Raises \cup SendOps \cup {"update_tenant", "job"}
               \/ /\ new.op = "update_tenant"
                  /\ statements = <<Q!Lock(Q!Tenant, "no_key_update"), Q!Do("compare"), Q!Audited>>
               \/ /\ new.op = "create_receiver"
                  /\ statements = <<Q!Lock(Q!Tenant, "no_key_update"), Q!Do("validate"), Q!Audited>>
               \/ /\ new.op = "update_receiver"
                  /\ statements = <<Q!Lock(Q!Tenant, "no_key_update"), Q!Do("validate"),
                                    Q!Lock(new.receiver, "no_key_update"), Q!Audited>>
               \/ /\ new.op = "job"
                  /\ statements = <<Q!Lock(Q!Tenant, "no_key_update"), Q!Do("skip_locked"), Q!Audited>>
        PROVE  PlanInv'
    <2>1. locks' = [locks EXCEPT ![p] = locks[p]] BY <1>0, <1>1 DEF Q!Begin, TxInv
    <2>2. \A q \in Requests \ {p} : PlanOf(q)' BY <1>0, <1>1, <2>1, PlanKept DEF Q!Begin
    <2>3. request'[p] = new /\ todo'[p] = statements /\ pc'[p] = place /\ locks'[p] = {}
      BY <1>0, <1>1 DEF Q!Begin, Q!Go, TxInv, QuotaTypes, ShapeInv
    <2>4. PlanOf(p)'
      BY <1>1, <2>3
      DEF PlanOf, SettingPlan, CreationPlan, CapPlan, JobPlan, Q!Lock, Q!Do, Q!Audited, Raises,
          SendOps
    <2> QED BY <2>2, <2>4 DEF PlanInv
  <1>2. CASE \E r \in Receivers, size \in Sizes, object \in BOOLEAN : Q!ingest(p, r, size, object)
    BY <1>1, <1>2 DEF Q!ingest
  <1>3. CASE \E settings \in Settings : Q!update_tenant(p, settings)
    <2>1. PICK settings \in Settings : Q!update_tenant(p, settings) BY <1>3
    <2>2. /\ Q!Request("update_tenant", Null, settings).op = "update_tenant"
          /\ Q!lock_tenant_settings(p) \o <<Q!Do("compare"), Q!Audited>> =
                <<Q!Lock(Q!Tenant, "no_key_update"), Q!Do("compare"), Q!Audited>>
      BY OneAndTwo DEF Q!lock_tenant_settings, Q!Request
    <2> QED BY <1>1, <2>1, <2>2 DEF Q!update_tenant
  <1>4. CASE \E r \in Receivers, cap \in Caps \cup {Null} : Q!create_receiver(p, r, cap)
    <2>1. PICK r \in Receivers, cap \in Caps \cup {Null} : Q!create_receiver(p, r, cap) BY <1>4
    <2>2. /\ Q!Request("create_receiver", r, cap).op = "create_receiver"
          /\ Q!lock_tenant_settings(p) \o <<Q!Do("validate"), Q!Audited>> =
                <<Q!Lock(Q!Tenant, "no_key_update"), Q!Do("validate"), Q!Audited>>
      BY OneAndTwo DEF Q!lock_tenant_settings, Q!Request
    <2> QED BY <1>1, <2>1, <2>2 DEF Q!create_receiver
  <1>5. CASE \E r \in Receivers, cap \in Caps : Q!update_receiver_cap(p, r, cap)
    <2>1. PICK r \in Receivers, cap \in Caps : Q!update_receiver_cap(p, r, cap) BY <1>5
    <2>2. /\ Q!Request("update_receiver", r, cap).op = "update_receiver"
          /\ Q!Request("update_receiver", r, cap).receiver = r
          /\ Q!lock_tenant_settings(p) \o <<Q!Do("validate"), Q!Lock(r, "no_key_update"), Q!Audited>> =
                <<Q!Lock(Q!Tenant, "no_key_update"), Q!Do("validate"), Q!Lock(r, "no_key_update"), Q!Audited>>
      BY OneAndThree DEF Q!lock_tenant_settings, Q!Request
    <2> QED BY <1>1, <2>1, <2>2 DEF Q!update_receiver_cap
  <1>6. ASSUME NEW r \in Receivers, NEW op \in Edits, NEW mode, Q!Unordered(p, op, r, mode)
        PROVE  PlanInv'
    BY <1>1, <1>6 DEF Q!Unordered, Q!Request, Edits, Raises, SendOps
  <1>7. CASE Q!check_expected_schedules(p)
    <2>1. /\ Q!Request("job", Null, Null).op = "job"
          /\ Q!job_locks \o <<Q!Lock(Q!Tenant, "key_share")>> =
                <<Q!Lock(Q!Tenant, "no_key_update"), Q!Do("skip_locked"), Q!Audited>>
      BY TwoAndOne DEF Q!job_locks, Q!Request, Q!Audited
    <2> QED BY <1>1, <1>7, <2>1 DEF Q!check_expected_schedules
  <1> QED
    BY <1>2, <1>3, <1>4, <1>5, <1>6, <1>7
    DEF Q!Arrival, Q!update_receiver, Q!rotate_slug, Q!delete_receiver, Edits

\* A send that has read its limits has its plan.
LEMMA PlansSend ==
    ASSUME QuotaTypes, PlanInv, NEW p \in Requests, Q!enforce_tenant_quotas(p) \/ Q!upload_object(p)
    PROVE  PlanInv'
  <1>0. TxInv BY DEF QuotaTypes
  <1>1. CASE Q!enforce_tenant_quotas(p)
    <2> DEFINE sent == Q!persist_notification(request[p].receiver)
               all == <<Q!Lock(Q!Tenant, "update"), Q!Do("count"), Q!Do("sum"),
                        Q!Lock(Q!Tenant, "key_share"), Q!Lock(request[p].receiver, "key_share"),
                        Q!Lock(request[p].receiver, "no_key_update")>>
    <2>1. /\ pc[p] = "limits"
          /\ locks' = [locks EXCEPT ![p] = locks[p]]
          /\ request' = [request EXCEPT ![p] = request[p]]
      BY <1>0, <1>1 DEF Q!enforce_tenant_quotas, TxInv
    <2>2. \A q \in Requests \ {p} : PlanOf(q)'
      BY <1>0, <1>1, <2>1, PlanKept DEF Q!enforce_tenant_quotas
    <2>3. pc'[p] = "running" /\ request'[p] = request[p] /\ locks'[p] = {}
      BY <1>0, <1>1, <2>1 DEF Q!enforce_tenant_quotas, Q!Go, TxInv, QuotaTypes, ShapeInv
    <2>4. request[p].op \in SendOps /\ Shaped(request[p]) BY <2>1 DEF QuotaTypes, ShapeInv
    <2>5. ASSUME request[p].op = "ingest" PROVE todo'[p] \in {all, sent}
      <3>1. <<>> \o sent = sent
        <4>1. sent \in Seq(QuotaStatements)
          BY <2>4, Statements1 DEF Q!persist_notification, Shaped, LockRows, Modes, SendOps
        <4> QED BY <4>1, NoneAndAny
      <3>2. <<Q!quota_lock(p), Q!Do("count"), Q!Do("sum")>> \o sent = all
        BY ThreeAndThree DEF Q!persist_notification, Q!quota_lock
      <3> HIDE DEF sent, all
      <3>3. \/ todo'[p] = <<>> \o sent
            \/ todo'[p] = <<Q!quota_lock(p), Q!Do("count"), Q!Do("sum")>> \o sent
        BY <1>0, <1>1, <2>5 DEF Q!enforce_tenant_quotas, Q!Go, TxInv, sent
      <3> QED BY <3>1, <3>2, <3>3
    <2>6. ASSUME request[p].op = "precheck"
          PROVE  todo'[p] \in {<<Q!Lock(Q!Tenant, "update"), Q!Do("count"), Q!Do("sum")>>, <<>>}
      <3>1. <<Q!Lock(Q!Tenant, "update"), Q!Do("count"), Q!Do("sum")>> \in Seq(QuotaStatements)
        BY Statements1 DEF LockRows, Modes, Checks
      <3>2. <<Q!Lock(Q!Tenant, "update"), Q!Do("count"), Q!Do("sum")>> \o <<>> =
                <<Q!Lock(Q!Tenant, "update"), Q!Do("count"), Q!Do("sum")>>
        BY <3>1, NoneAndAny
      <3> QED
        BY <1>0, <1>1, <2>6, <3>2 DEF Q!enforce_tenant_quotas, Q!quota_lock, Q!Go, TxInv
    <2>7. PlanOf(p)'
      BY <2>3, <2>4, <2>5, <2>6
      DEF PlanOf, SendPlan, PrecheckPlan, Q!persist_notification, SendOps, Q!Lock, Q!Do
    <2> QED BY <2>2, <2>7 DEF PlanInv
  <1>2. CASE Q!upload_object(p)
    <2>1. request' = [request EXCEPT ![p] = [request[p] EXCEPT !.op = "ingest"]]
      BY <1>0, <1>2 DEF Q!upload_object, TxInv
    <2>2. \A q \in Requests \ {p} : PlanOf(q)' BY <1>0, <1>2, <2>1, PlanKept DEF Q!upload_object
    <2>3. PlanOf(p)' BY <1>0, <1>2 DEF Q!upload_object, Q!Go, TxInv, PlanOf
    <2> QED BY <2>2, <2>3 DEF PlanInv
  <1> QED BY <1>1, <1>2

\* A statement that is executed leaves the rest of the plan.
LEMMA PlansRun ==
    ASSUME QuotaTypes, PlanInv, NEW p \in Requests, Q!lock(p) \/ Q!skip_locked(p) \/ Q!check(p)
    PROVE  PlanInv'
  <1>0. TxInv BY DEF QuotaTypes
  <1>1. CASE Q!Finish(p) BY <1>0, <1>1, PlansFinish
  <1>2. CASE ~Q!Finish(p)
    <2>1. /\ pc[p] = "running" /\ todo[p] # <<>> /\ request[p] \in RequestType
          /\ Q!Go(p, "running", Tail(todo[p]))
      BY <1>2 DEF Q!lock, Q!skip_locked, Q!check, QuotaTypes, ShapeInv, Shaped
    <2>2. PICK more : locks' = [locks EXCEPT ![p] = @ \cup more]
      <3>1. CASE Q!lock(p) BY <1>2, <3>1 DEF Q!lock
      <3>2. CASE Q!skip_locked(p) BY <3>2 DEF Q!skip_locked
      <3>3. CASE Q!check(p)
        <4>1. locks' = [locks EXCEPT ![p] = @ \cup {}] BY <1>0, <1>2, <3>3 DEF Q!check, TxInv
        <4> QED BY <4>1
      <3> QED BY <3>1, <3>2, <3>3
    <2>3. PICK r : /\ request' = [request EXCEPT ![p] = r]
                   /\ r.op = request[p].op /\ r.receiver = request[p].receiver
      <3>1. CASE Q!lock(p) BY <1>0, <1>2, <3>1 DEF Q!lock, TxInv
      <3>2. CASE Q!skip_locked(p)
        <4> DEFINE new == [request[p] EXCEPT !.locked = Q!Unlocked(p)]
        <4>1. request' = [request EXCEPT ![p] = new] BY <1>0, <3>2 DEF Q!skip_locked, TxInv
        <4>2. new.op = request[p].op /\ new.receiver = request[p].receiver
          BY <2>1 DEF RequestType
        <4> HIDE DEF new
        <4> QED BY <4>1, <4>2
      <3>3. CASE Q!check(p)
        <4> DEFINE value == IF Head(todo[p]).kind = "validate" /\ request[p].value = Null
                            THEN tenant.cap ELSE request[p].value
                   new == [request[p] EXCEPT !.value = value]
        <4>1. request' = [request EXCEPT ![p] = new]
          BY <1>0, <1>2, <2>1, <3>3 DEF Q!check, TxInv, RequestType
        <4>2. new.op = request[p].op /\ new.receiver = request[p].receiver
          BY <2>1 DEF RequestType
        <4> HIDE DEF new
        <4> QED BY <4>1, <4>2
      <3> QED BY <3>1, <3>2, <3>3
    <2>4. \A q \in Requests \ {p} : PlanOf(q)'
      <3>1. locks' = [locks EXCEPT ![p] = locks[p] \cup more] BY <2>2
      <3> QED BY <1>0, <2>1, <2>3, <3>1, PlanKept
    <2>5. /\ todo'[p] = Tail(todo[p]) /\ locks[p] \subseteq locks'[p]
          /\ request'[p].op = request[p].op /\ request'[p].receiver = request[p].receiver
      BY <1>0, <2>1, <2>2, <2>3 DEF Q!Go, TxInv
    <2>6. Head(todo[p]).kind = "lock" =>
              <<Head(todo[p]).row, Head(todo[p]).mode>> \in locks'[p]
      BY <1>0, <1>2 DEF Q!lock, Q!skip_locked, Q!check, TxInv
    <2>7. PlanOf(p)' BY <2>1, <2>5, <2>6, PlanAdvances
    <2> QED BY <2>4, <2>7 DEF PlanInv
  <1> QED BY <1>1, <1>2

\* Every step keeps the plans.
LEMMA PlansStay == QuotaTypes /\ PlanInv /\ [Q!Next]_Q!vars => PlanInv'
  <1> SUFFICES ASSUME QuotaTypes, PlanInv, [Q!Next]_Q!vars PROVE PlanInv' OBVIOUS
  <1>1. CASE UNCHANGED Q!txVars
    BY <1>1
    DEF Q!txVars, PlanInv, PlanOf, SettingPlan, CreationPlan, CapPlan, JobPlan, SendPlan,
        PrecheckPlan, Has, Q!Lock, Q!Do, Q!Audited
  <1>2. ASSUME NEW p \in Requests, Q!Arrival(p) PROVE PlanInv' BY <1>2, PlansBegin
  <1>3. ASSUME NEW p \in Requests, Q!commit(p) \/ Q!rollback(p) PROVE PlanInv'
    BY <1>3, PlansFinish DEF Q!commit, Q!rollback, QuotaTypes
  <1>4. ASSUME NEW p \in Requests, Q!Step(p), ~Q!commit(p), ~Q!rollback(p) PROVE PlanInv'
    BY <1>4, PlansSend, PlansRun DEF Q!Step
  <1>5. ASSUME NEW n \in stored, Q!age(n) \/ Q!purge(n) PROVE UNCHANGED Q!txVars
    BY <1>5 DEF Q!age, Q!purge
  <1>6. CASE UNCHANGED Q!vars BY <1>1, <1>6 DEF Q!vars
  <1> QED BY <1>1, <1>2, <1>3, <1>4, <1>5, <1>6 DEF Q!Next

-----------------------------------------------------------------------------
(* The cap. *)

Setters == Raises \cup {"update_tenant"}

\* What the request asks for has been compared.
Checked(p) ==
    /\ pc[p] = "running" /\ request[p].op \in Setters
    /\ todo[p] \in {<<Q!Lock(request[p].receiver, "no_key_update"), Q!Audited>>, <<Q!Audited>>, <<>>}

RaiseInv(p) ==
    Checked(p) /\ request[p].op \in Raises =>
        request[p].value \in Nat /\ request[p].value <= tenant.cap

LowerInv(p) ==
    /\ Checked(p) /\ request[p].op = "update_tenant"
    /\ "cap" \in DOMAIN request[p].value /\ request[p].value.cap < tenant.cap
    => \A r \in Receivers : caps[r] # NoRow => caps[r] <= request[p].value.cap

CapInv ==
    /\ \A r \in Receivers : caps[r] # NoRow => caps[r] \in Nat /\ caps[r] <= tenant.cap
    /\ \A p \in Requests : RaiseInv(p) /\ LowerInv(p)

\* Whoever has compared holds the lock of its tenant.
LEMMA CheckedHolds ==
    ASSUME PlanInv, NEW p \in Requests, Checked(p)
    PROVE  Has(p, "no_key_update")
  <1>1. PlanOf(p) BY DEF PlanInv
  <1>2. \/ todo[p] = <<>>
        \/ todo[p] # <<>> /\ Head(todo[p]).kind = "lock" /\ Len(todo[p]) \in {1, 2}
    BY DEF Checked, Q!Lock, Q!Audited
  <1> QED
    BY <1>1, <1>2 DEF Checked, PlanOf, SettingPlan, CreationPlan, CapPlan, Setters, Raises

\* No two requests stand past their comparisons.
LEMMA OnlyOneChecked ==
    ASSUME PlanInv, LocksExclude, NEW p \in Requests, NEW q \in Requests, p # q,
           Checked(p), Checked(q)
    PROVE  FALSE
  <1>1. Has(p, "no_key_update") /\ Has(q, "no_key_update") BY CheckedHolds
  <1> QED BY <1>1 DEF Has, LocksExclude, Q!Conflict

\* Those that stand where they stood.
LEMMA ChecksKept ==
    ASSUME CapInv, NEW q \in Requests, UNCHANGED <<tenant, caps>>,
           request'[q] = request[q], pc'[q] = pc[q], todo'[q] = todo[q]
    PROVE  RaiseInv(q)' /\ LowerInv(q)'
  BY DEF CapInv, RaiseInv, LowerInv, Checked, Q!Lock, Q!Audited

\* Nothing is asked of a request that has not compared.
LEMMA NotChecked ==
    ASSUME NEW q \in Requests, ~Checked(q)'
    PROVE  RaiseInv(q)' /\ LowerInv(q)'
  BY DEF RaiseInv, LowerInv

\* A request that ends leaves the caps in order.
LEMMA CapsFinish ==
    ASSUME TxInv, CapInv, NEW p \in Requests, Q!Finish(p), UNCHANGED <<tenant, caps>>
    PROVE  CapInv'
  <1>1. \A q \in Requests \ {p} : RaiseInv(q)' /\ LowerInv(q)'
    BY ChecksKept DEF Q!Finish, Q!Go, TxInv
  <1>2. ~Checked(p)' BY DEF Q!Finish, Q!Go, TxInv, Checked
  <1>3. RaiseInv(p)' /\ LowerInv(p)' BY <1>2, NotChecked
  <1> QED BY <1>1, <1>3 DEF CapInv

\* A request that arrives has compared nothing.
LEMMA CapsArrival ==
    ASSUME QuotaTypes, PlanInv, PlanInv', CapInv, NEW p \in Requests, Q!Arrival(p)
    PROVE  CapInv'
  <1>1. PICK new, place, statements : Q!Begin(p, new, place, statements)
    BY DEF Q!Arrival, Q!ingest, Q!update_tenant, Q!create_receiver, Q!update_receiver_cap,
           Q!update_receiver, Q!rotate_slug, Q!delete_receiver, Q!Unordered, Q!check_expected_schedules
  <1>2. UNCHANGED <<tenant, caps>> /\ locks'[p] = {} BY <1>1 DEF Q!Begin, QuotaTypes, ShapeInv
  <1>3. \A q \in Requests \ {p} : RaiseInv(q)' /\ LowerInv(q)'
    BY <1>1, <1>2, ChecksKept DEF Q!Begin, Q!Go, QuotaTypes, TxInv
  <1>4. Checked(p)' => Has(p, "no_key_update")' BY CheckedHolds, PTL
  <1>5. ~Checked(p)' BY <1>2, <1>4 DEF Has
  <1>6. RaiseInv(p)' /\ LowerInv(p)' BY <1>5, NotChecked
  <1> QED BY <1>2, <1>3, <1>6 DEF CapInv

\* A send compares no cap.
LEMMA CapsSend ==
    ASSUME QuotaTypes, CapInv, NEW p \in Requests, Q!enforce_tenant_quotas(p) \/ Q!upload_object(p)
    PROVE  CapInv'
  <1>1. UNCHANGED <<tenant, caps>> BY DEF Q!enforce_tenant_quotas, Q!upload_object
  <1>2. \A q \in Requests \ {p} : RaiseInv(q)' /\ LowerInv(q)'
    BY <1>1, ChecksKept DEF Q!enforce_tenant_quotas, Q!upload_object, Q!Go, QuotaTypes, TxInv
  <1>3. ~Checked(p)'
    BY DEF Q!enforce_tenant_quotas, Q!upload_object, Q!Go, QuotaTypes, TxInv, ShapeInv, Checked,
           Setters, Raises, SendOps
  <1>4. RaiseInv(p)' /\ LowerInv(p)' BY <1>3, NotChecked
  <1> QED BY <1>1, <1>2, <1>4 DEF CapInv

\* A comparison that succeeds is what the invariant says, under the lock.
LEMMA CapsRun ==
    ASSUME QuotaGiven, QuotaTypes, QuotaTypes', PlanInv, CapInv, NEW p \in Requests,
           Q!lock(p) \/ Q!skip_locked(p) \/ Q!check(p), ~Q!Finish(p)
    PROVE  CapInv'
  <1>0. /\ UNCHANGED <<tenant, caps>> /\ pc[p] = "running" /\ todo[p] # <<>>
        /\ todo'[p] = Tail(todo[p])
    BY DEF Q!lock, Q!skip_locked, Q!check, Q!Go, QuotaTypes, TxInv
  <1>1. \A q \in Requests \ {p} : RaiseInv(q)' /\ LowerInv(q)'
    BY <1>0, ChecksKept DEF Q!lock, Q!skip_locked, Q!check, Q!Go, QuotaTypes, TxInv
  <1>2. SUFFICES ASSUME Checked(p)' PROVE RaiseInv(p)' /\ LowerInv(p)'
    BY <1>0, <1>1, NotChecked DEF CapInv
  <1>3. /\ request'[p].op = request[p].op /\ request'[p].receiver = request[p].receiver
        /\ Q!check(p) \/ request'[p].value = request[p].value
    <2> DEFINE r == request[p]
               value == IF Head(todo[p]).kind = "validate" /\ r.value = Null
                        THEN tenant.cap ELSE r.value
    <2>1. r \in RequestType BY <1>0 DEF QuotaTypes, ShapeInv, Shaped
    <2>2. \/ request'[p] = r
          \/ request'[p] = [r EXCEPT !.locked = Q!Unlocked(p)]
          \/ Q!check(p) /\ request'[p] = [r EXCEPT !.value = value]
      BY <1>0 DEF Q!lock, Q!skip_locked, Q!check, QuotaTypes, TxInv
    <2> HIDE DEF r, value
    <2>3. /\ request'[p].op = r.op /\ request'[p].receiver = r.receiver
          /\ Q!check(p) \/ request'[p].value = r.value
      BY <2>1, <2>2 DEF RequestType
    <2> QED BY <2>3 DEF r
  <1> DEFINE row == Q!Lock(request[p].receiver, "no_key_update")
  <1>4. request[p].op \in Setters /\ Tail(todo[p]) \in {<<row, Q!Audited>>, <<Q!Audited>>, <<>>}
    BY <1>0, <1>2, <1>3 DEF Checked, Q!Audited, Q!Lock
  <1>5. \/ todo[p] \in {<<Q!Do("compare"), Q!Audited>>} /\ request[p].op = "update_tenant"
        \/ todo[p] \in {<<Q!Do("validate"), Q!Audited>>, <<Q!Do("validate"), row, Q!Audited>>}
           /\ request[p].op \in Raises
        \/ todo[p] \in {<<row, Q!Audited>>, <<Q!Audited>>}
    <2>1. PlanOf(p) BY DEF PlanInv
    <2>2. ASSUME NEW b, NEW k, k # "lock", b = Q!Do(k),
               todo[p] = <<Q!Lock(Q!Tenant, "no_key_update"), b, Q!Audited>>
          PROVE  FALSE
      <3>1. Tail(todo[p]) = <<b, Q!Audited>> BY <2>2, Tails
      <3>2. CASE <<b, Q!Audited>> = <<row, Q!Audited>>
        <4> HIDE DEF row
        <4>1. <<b, Q!Audited>>[1] = <<row, Q!Audited>>[1] BY <3>2
        <4>2. b = row BY <4>1
        <4>3. b.kind = k /\ row.kind = "lock" BY <2>2 DEF Q!Do, Q!Lock, row
        <4> QED BY <2>2, <4>2, <4>3
      <3> HIDE DEF row
      <3>3. <<b, Q!Audited>> # <<Q!Audited>> /\ <<b, Q!Audited>> # <<>> OBVIOUS
      <3> QED BY <1>4, <3>1, <3>2, <3>3
    <2>3. ASSUME NEW b, todo[p] = <<Q!Lock(Q!Tenant, "no_key_update"), b, row, Q!Audited>>
          PROVE  FALSE
      <3>1. Tail(todo[p]) = <<b, row, Q!Audited>> BY <2>3, Tails
      <3> QED BY <1>4, <3>1
    <2> HIDE DEF row
    <2>4. CASE request[p].op = "update_tenant"
      BY <1>0, <2>1, <2>2, <2>4 DEF PlanOf, SettingPlan
    <2>5. CASE request[p].op = "create_receiver"
      BY <1>0, <2>1, <2>2, <2>5 DEF PlanOf, CreationPlan, Raises
    <2>6. CASE request[p].op = "update_receiver"
      BY <1>0, <2>1, <2>3, <2>6 DEF PlanOf, CapPlan, Raises, row
    <2> QED BY <1>4, <2>4, <2>5, <2>6 DEF Setters, Raises
  <1>6. CASE todo[p] \in {<<row, Q!Audited>>, <<Q!Audited>>}
    <2>1. Checked(p) BY <1>0, <1>4, <1>6 DEF Checked
    <2>2. Head(todo[p]).kind = "lock" BY <1>6 DEF Q!Lock, Q!Audited
    <2>3. request'[p].value = request[p].value BY <1>3, <2>2 DEF Q!check
    <2> QED BY <1>0, <1>3, <2>1, <2>3 DEF CapInv, RaiseInv, LowerInv
  <1>7. CASE todo[p] = <<Q!Do("compare"), Q!Audited>> /\ request[p].op = "update_tenant"
    <2>1. Head(todo[p]).kind = "compare" BY <1>7 DEF Q!Do
    <2>2. Q!Within("compare", p) /\ request'[p].value = request[p].value
      BY <1>0, <2>1
      DEF Q!lock, Q!skip_locked, Q!check, QuotaTypes, TxInv, ShapeInv, Shaped, RequestType
    <2>3. LowerInv(p)' BY <1>0, <2>2 DEF Q!Within, LowerInv
    <2>4. RaiseInv(p)' BY <1>3, <1>7 DEF RaiseInv, Raises
    <2> QED BY <2>3, <2>4
  <1>8. CASE /\ todo[p] \in {<<Q!Do("validate"), Q!Audited>>, <<Q!Do("validate"), row, Q!Audited>>}
             /\ request[p].op \in Raises
    <2>1. Head(todo[p]).kind = "validate" BY <1>8 DEF Q!Do
    <2>2. /\ Q!Within("validate", p)
          /\ request'[p].value = IF request[p].value = Null THEN tenant.cap ELSE request[p].value
      <3> DEFINE value == IF request[p].value = Null THEN tenant.cap ELSE request[p].value
      <3>1. request[p] \in RequestType BY <1>0 DEF QuotaTypes, ShapeInv, Shaped
      <3>2. Q!Within("validate", p) /\ request'[p] = [request[p] EXCEPT !.value = value]
        BY <1>0, <2>1 DEF Q!lock, Q!skip_locked, Q!check, QuotaTypes, TxInv
      <3> HIDE DEF value
      <3>3. request'[p].value = value BY <3>1, <3>2 DEF RequestType
      <3> QED BY <3>2, <3>3 DEF value
    <2>3. request[p].value \in Nat \cup {Null} /\ tenant.cap \in Nat
      BY <1>0, <1>8 DEF QuotaTypes, ShapeInv, DataInv, Shaped, Raises, TenantType
    <2>4. request'[p].value \in Nat /\ request'[p].value <= tenant.cap
      BY <2>2, <2>3 DEF Q!Within
    <2>5. RaiseInv(p)' BY <1>0, <2>4 DEF RaiseInv
    <2>6. LowerInv(p)' BY <1>3, <1>8 DEF LowerInv, Raises
    <2> QED BY <2>5, <2>6
  <1> QED BY <1>5, <1>6, <1>7, <1>8

\* Whoever changes the cap of the tenant, or raises a receiver's, is the only one that
\* has compared them.
LEMMA CapsCommit ==
    ASSUME QuotaGiven, QuotaTypes, LocksExclude, PlanInv, CapInv, NEW p \in Requests, Q!commit(p)
    PROVE  CapInv'
  <1>1. /\ pc[p] = "running" /\ todo[p] = <<>> /\ Q!Finish(p) /\ Shaped(request[p])
        /\ tenant \in TenantType /\ caps \in [Receivers -> Nat \cup {NoRow, Null}]
    BY DEF Q!commit, QuotaTypes, DataInv, ShapeInv
  <1>2. ~Checked(p)' BY <1>1 DEF Q!Finish, Q!Go, QuotaTypes, TxInv, Checked
  <1>3. RaiseInv(p)' /\ LowerInv(p)' BY <1>2, NotChecked
  <1>4. \A q \in Requests \ {p} : /\ request'[q] = request[q] /\ pc'[q] = pc[q]
                                  /\ todo'[q] = todo[q]
    BY <1>1 DEF Q!Finish, Q!Go, QuotaTypes, TxInv
  <1>5. request[p].op \in Setters => Checked(p) BY <1>1 DEF Checked
  <1>6. ASSUME request[p].op \in Setters, NEW q \in Requests \ {p}
        PROVE  RaiseInv(q)' /\ LowerInv(q)'
    <2>1. ~Checked(q) BY <1>5, <1>6, OnlyOneChecked
    <2>2. ~Checked(q)' BY <1>4, <2>1 DEF Checked, Q!Lock, Q!Audited
    <2> QED BY <2>2, NotChecked
  <1>7. CASE request[p].op = "update_tenant"
    <2> DEFINE settings == request[p].value
    <2>1. /\ UNCHANGED caps
          /\ tenant' = [f \in DOMAIN tenant |->
                            IF f \in DOMAIN settings THEN settings[f] ELSE tenant[f]]
      BY <1>7 DEF Q!commit
    <2>2. settings \in Settings /\ LowerInv(p) /\ Checked(p)
      BY <1>1, <1>5, <1>7 DEF Shaped, CapInv, Setters
    <2>3. tenant'.cap = IF "cap" \in DOMAIN settings THEN settings.cap ELSE tenant.cap
      BY <1>1, <2>1 DEF TenantType
    <2>4. tenant.cap \in Nat /\ ("cap" \in DOMAIN settings => settings.cap \in Nat)
      BY <1>1, <2>2 DEF QuotaGiven, TenantType
    <2>5. \A r \in Receivers : caps[r] # NoRow =>
              /\ caps[r] \in Nat /\ caps[r] <= tenant.cap
              /\ "cap" \in DOMAIN settings /\ settings.cap < tenant.cap => caps[r] <= settings.cap
      BY <1>7, <2>2 DEF CapInv, LowerInv
    <2> HIDE DEF settings
    <2>6. \A r \in Receivers : caps'[r] # NoRow => caps'[r] \in Nat /\ caps'[r] <= tenant'.cap
      BY <2>1, <2>3, <2>4, <2>5
    <2> QED BY <1>3, <1>6, <1>7, <2>6 DEF CapInv, Setters
  <1>8. CASE request[p].op \in Raises
    <2>1. /\ UNCHANGED tenant /\ caps' = [caps EXCEPT ![request[p].receiver] = request[p].value]
      BY <1>8 DEF Q!commit, Raises
    <2>2. request[p].value \in Nat /\ request[p].value <= tenant.cap
      BY <1>5, <1>8 DEF CapInv, RaiseInv, Setters
    <2>3. \A r \in Receivers : caps'[r] # NoRow => caps'[r] \in Nat /\ caps'[r] <= tenant'.cap
      BY <1>1, <2>1, <2>2 DEF CapInv
    <2> QED BY <1>3, <1>6, <1>8, <2>3 DEF CapInv, Setters
  <1>9. CASE request[p].op \notin Setters
    <2>1. UNCHANGED tenant BY <1>9 DEF Q!commit, Setters
    <2>2. \A r \in Receivers : caps'[r] # NoRow => caps'[r] = caps[r]
      BY <1>1, <1>9 DEF Q!commit, Setters, Raises
    <2>3. ASSUME NEW q \in Requests \ {p} PROVE RaiseInv(q)' /\ LowerInv(q)'
      <3>1. Checked(q)' <=> Checked(q) BY <1>4 DEF Checked, Q!Lock, Q!Audited
      <3>2. RaiseInv(q)' BY <1>4, <2>1, <3>1 DEF CapInv, RaiseInv
      <3>3. LowerInv(q)' BY <1>4, <2>1, <2>2, <3>1 DEF CapInv, LowerInv
      <3> QED BY <3>2, <3>3
    <2> QED BY <1>3, <2>1, <2>2, <2>3 DEF CapInv
  <1> QED BY <1>7, <1>8, <1>9 DEF Setters

\* Every step keeps the caps in order.
LEMMA CapsStay ==
    QuotaGiven /\ QuotaTypes /\ QuotaTypes' /\ LocksExclude /\ PlanInv /\ PlanInv' /\ CapInv /\ [Q!Next]_Q!vars
    => CapInv'
  <1> SUFFICES ASSUME QuotaGiven, QuotaTypes, QuotaTypes', LocksExclude, PlanInv, PlanInv', CapInv,
                      [Q!Next]_Q!vars
               PROVE  CapInv'
    OBVIOUS
  <1>1. CASE UNCHANGED <<tenant, caps, Q!txVars>>
    BY <1>1 DEF Q!txVars, CapInv, RaiseInv, LowerInv, Checked, Q!Lock, Q!Audited
  <1>2. ASSUME NEW p \in Requests, Q!Arrival(p) PROVE CapInv' BY <1>2, CapsArrival
  <1>3. ASSUME NEW p \in Requests, Q!rollback(p) PROVE CapInv'
    BY <1>3, CapsFinish DEF Q!rollback, QuotaTypes
  <1>4. ASSUME NEW p \in Requests, Q!lock(p) \/ Q!skip_locked(p) \/ Q!check(p) PROVE CapInv'
    <2>1. CASE Q!Finish(p) BY <1>4, <2>1, CapsFinish DEF Q!lock, Q!skip_locked, Q!check, QuotaTypes
    <2> QED BY <1>4, <2>1, CapsRun
  <1>5. ASSUME NEW p \in Requests, Q!Step(p) PROVE CapInv'
    BY <1>3, <1>4, <1>5, CapsSend, CapsCommit DEF Q!Step
  <1>6. ASSUME NEW n \in stored, Q!age(n) \/ Q!purge(n) PROVE CapInv'
    BY <1>1, <1>6 DEF Q!age, Q!purge
  <1>7. CASE UNCHANGED Q!vars BY <1>1, <1>7 DEF Q!vars
  <1> QED BY <1>2, <1>5, <1>6, <1>7 DEF Q!Next

-----------------------------------------------------------------------------
(* Transactions that serve no request. *)

IdleInv ==
    /\ \A p \in Requests : pc[p] = "idle" <=> request[p] = NoRequest
    /\ started <= MaxRequests

\* Only the request of p changes, and it still serves one, or it ends.
LEMMA IdleKept ==
    ASSUME TxInv, IdleInv, NEW p \in Requests, NEW r, request' = [request EXCEPT ![p] = r],
           NEW place, NEW statements, Q!Go(p, place, statements), started' <= MaxRequests,
           place = "idle" <=> r = NoRequest
    PROVE  IdleInv'
  BY DEF TxInv, IdleInv, Q!Go

\* Every step keeps a transaction idle exactly while it serves nobody.
LEMMA IdleStay ==
    ASSUME QuotaGiven, QuotaTypes, QuotaTypes', IdleInv, [Q!Next]_Q!vars
    PROVE  IdleInv'
  <1>0. TxInv /\ started <= MaxRequests BY DEF QuotaTypes, IdleInv
  <1>1. CASE UNCHANGED Q!txVars /\ UNCHANGED started BY <1>1 DEF Q!txVars, IdleInv
  <1>2. ASSUME NEW p \in Requests, Q!Arrival(p) PROVE IdleInv'
    <2>1. PICK new, place, statements :
              Q!Begin(p, new, place, statements) /\ place \in {"limits", "running"}
      BY <1>2
      DEF Q!Arrival, Q!ingest, Q!update_tenant, Q!create_receiver, Q!update_receiver_cap,
          Q!update_receiver, Q!rotate_slug, Q!delete_receiver, Q!Unordered, Q!check_expected_schedules
    <2>2. started' <= MaxRequests BY <1>0, <2>1 DEF Q!Begin, TxInv, QuotaGiven
    <2>3. request'[p] = new /\ pc'[p] = place BY <1>0, <2>1 DEF Q!Begin, Q!Go, TxInv
    <2>4. new # NoRequest BY <2>1, <2>3 DEF QuotaTypes, ShapeInv, Shaped, QuotaGiven
    <2> QED BY <1>0, <2>1, <2>2, <2>4, IdleKept DEF Q!Begin
  <1>3. ASSUME NEW p \in Requests, Q!Finish(p), UNCHANGED started PROVE IdleInv'
    BY <1>0, <1>3, IdleKept DEF Q!Finish
  <1>4. ASSUME NEW p \in Requests, Q!Step(p), ~Q!Finish(p) PROVE IdleInv'
    <2>1. pc[p] # "idle" /\ UNCHANGED started
      BY <1>4
      DEF Q!Step, Q!enforce_tenant_quotas, Q!upload_object, Q!lock, Q!skip_locked, Q!check,
          Q!commit, Q!rollback
    <2>2. PICK place, statements : Q!Go(p, place, statements) /\ place \in {"limits", "running"}
      BY <1>4
      DEF Q!Step, Q!enforce_tenant_quotas, Q!upload_object, Q!lock, Q!skip_locked, Q!check,
          Q!commit, Q!rollback
    <2>3. PICK r : request' = [request EXCEPT ![p] = r]
      BY <1>0, <1>4
      DEF Q!Step, Q!enforce_tenant_quotas, Q!upload_object, Q!lock, Q!skip_locked, Q!check,
          Q!commit,
          Q!rollback, TxInv
    <2>4. request'[p] = r /\ pc'[p] = place BY <1>0, <2>2, <2>3 DEF Q!Go, TxInv
    <2>5. r # NoRequest BY <2>2, <2>4 DEF QuotaTypes, ShapeInv, Shaped, QuotaGiven
    <2>6. started' <= MaxRequests BY <1>0, <2>1
    <2> QED BY <1>0, <2>2, <2>3, <2>5, <2>6, IdleKept
  <1>5. ASSUME NEW p \in Requests, Q!Step(p), Q!Finish(p) PROVE UNCHANGED started
    BY <1>5
    DEF Q!Step, Q!enforce_tenant_quotas, Q!upload_object, Q!lock, Q!skip_locked, Q!check, Q!commit,
        Q!rollback
  <1>6. ASSUME NEW n \in stored, Q!age(n) \/ Q!purge(n) PROVE IdleInv'
    BY <1>1, <1>6 DEF Q!age, Q!purge
  <1>7. CASE UNCHANGED Q!vars BY <1>1, <1>7 DEF Q!vars
  <1> QED BY <1>2, <1>3, <1>4, <1>5, <1>6, <1>7 DEF Q!Next

-----------------------------------------------------------------------------
(* The bytes that are stored.  Q!Bytes adds up a set in an order that CHOOSE gives; nothing  *)
(* depends on it. *)

Chosen(s) == CHOOSE n \in s : TRUE

Adds(f, sets) ==
    f = [s \in sets |-> IF s = {} THEN 0 ELSE Chosen(s).size + f[s \ {Chosen(s)}]]

Sums(S) ==
    CHOOSE f : f = [s \in SUBSET S |->
                       IF s = {} THEN 0 ELSE Chosen(s).size + f[s \ {Chosen(s)}]]

Total(S) == Sums(S)[S]

Sized(S) == IsFiniteSet(S) /\ \A n \in S : n.size \in Nat

\* What Bytes computes.
LEMMA BytesAreTotal == Q!Bytes = Total(stored)
  BY DEF Q!Bytes, Q!MapThenSumSet, Q!MapThenFoldSet, Sums, Chosen, Total

\* A set of numbers has a smallest.
LEMMA SmallestExists ==
    ASSUME NEW T \in SUBSET Nat, T # {}
    PROVE  \E t \in T : \A y \in T : t <= y
  <1>1. PICK t \in T : \A y \in T : ~ (<<y, t>> \in OpToRel(<, Nat))
    BY WFMin, NatLessThanWellFounded
  <1>2. \A y \in T : ~ (y < t) BY <1>1 DEF OpToRel
  <1> QED BY <1>2

\* What is left of a set without one element.
LEMMA OneLess ==
    ASSUME NEW s, IsFiniteSet(s), NEW x \in s
    PROVE  /\ Cardinality(s) \in Nat /\ Cardinality(s) > 0
           /\ IsFiniteSet(s \ {x}) /\ Cardinality(s \ {x}) = Cardinality(s) - 1
  <1>1. Cardinality(s) \in Nat BY FS_CardinalityType
  <1>2. IsFiniteSet(s \ {x}) /\ Cardinality(s \ {x}) = Cardinality(s) - 1
    BY FS_RemoveElement
  <1>3. Cardinality(s \ {x}) \in Nat BY <1>2, FS_CardinalityType
  <1> QED BY <1>1, <1>2, <1>3

\* The sum is defined: first of the empty set, then of the sets with one element more.
LEMMA SumsExist ==
    ASSUME NEW S, IsFiniteSet(S)
    PROVE  Adds(Sums(S), SUBSET S)
  <1> DEFINE Up(n) == {s \in SUBSET S : Cardinality(s) <= n}
             Bad == {n \in Nat : ~ \E f : Adds(f, Up(n))}
  <1>1. \A s \in SUBSET S : IsFiniteSet(s) /\ Cardinality(s) \in Nat
    BY FS_Subset, FS_CardinalityType
  <1>2. Bad = {}
    <2> SUFFICES ASSUME Bad # {} PROVE FALSE OBVIOUS
    <2>1. PICK n \in Bad : \A m \in Bad : n <= m
      <3> HIDE DEF Bad
      <3>1. Bad \in SUBSET Nat BY DEF Bad
      <3> QED BY <3>1, SmallestExists
    <2>2. n # 0
      <3> SUFFICES ASSUME n = 0 PROVE FALSE OBVIOUS
      <3>1. \A s \in Up(0) : s = {}
        <4> TAKE s \in Up(0)
        <4>1. IsFiniteSet(s) /\ Cardinality(s) = 0 BY <1>1
        <4> QED BY <4>1, FS_EmptySet
      <3>2. Adds([s \in Up(0) |-> 0], Up(0)) BY <3>1 DEF Adds
      <3> QED BY <3>2
    <2>3. PICK f : Adds(f, Up(n - 1))
      <3>1. n - 1 \in Nat /\ ~ (n <= n - 1) BY <2>2
      <3> QED BY <2>1, <3>1
    <2> DEFINE g == [s \in Up(n) |-> IF s = {} THEN 0 ELSE Chosen(s).size + f[s \ {Chosen(s)}]]
    <2>4. \A s \in Up(n) : s # {} => s \ {Chosen(s)} \in Up(n - 1)
      <3> TAKE s \in Up(n)
      <3> HAVE s # {}
      <3>1. Chosen(s) \in s BY DEF Chosen
      <3>2. PICK x \in s : x = Chosen(s) BY <3>1
      <3>3. Cardinality(s \ {x}) = Cardinality(s) - 1 BY <1>1, OneLess
      <3>4. Cardinality(s) \in Nat /\ n \in Nat /\ Cardinality(s) <= n BY <1>1
      <3> QED BY <3>2, <3>3, <3>4
    <2>5. \A s \in Up(n - 1) : s \in Up(n) /\ g[s] = f[s]
      <3> TAKE s \in Up(n - 1)
      <3>1. s \in Up(n) BY <1>1
      <3>2. f[s] = IF s = {} THEN 0 ELSE Chosen(s).size + f[s \ {Chosen(s)}] BY <2>3 DEF Adds
      <3> QED BY <3>1, <3>2
    <2>6. Adds(g, Up(n))
      <3>1. \A s \in Up(n) : g[s] = IF s = {} THEN 0 ELSE Chosen(s).size + g[s \ {Chosen(s)}]
        BY <2>4, <2>5
      <3>2. g = [s \in Up(n) |-> g[s]] OBVIOUS
      <3> HIDE DEF g, Up
      <3> QED BY <3>1, <3>2 DEF Adds
    <2> QED BY <2>6
  <1>3. PICK f : Adds(f, Up(Cardinality(S)))
    <2>1. Cardinality(S) \in Nat BY <1>1
    <2> QED BY <1>2, <2>1
  <1>4. Up(Cardinality(S)) = SUBSET S
    <2>1. \A s \in SUBSET S : Cardinality(s) <= Cardinality(S) BY FS_Subset
    <2> QED BY <2>1
  <1>5. Adds(f, SUBSET S) BY <1>3, <1>4
  <1> HIDE DEF Up, Bad
  <1> QED BY <1>5 DEF Adds, Sums

\* Two sums of one set are the same, whatever larger sets they are defined on.
LEMMA SumsAgree ==
    ASSUME NEW S, NEW T \in SUBSET S, IsFiniteSet(S), NEW f, Adds(f, SUBSET S),
           NEW g, Adds(g, SUBSET T)
    PROVE  f[T] = g[T]
  <1> DEFINE Bad == {n \in Nat : \E s \in SUBSET T : Cardinality(s) = n /\ f[s] # g[s]}
  <1>1. SUFFICES ASSUME f[T] # g[T] PROVE FALSE OBVIOUS
  <1>2. \A s \in SUBSET T : IsFiniteSet(s) /\ Cardinality(s) \in Nat
    BY FS_Subset, FS_CardinalityType
  <1>3. Bad \in SUBSET Nat /\ Bad # {} BY <1>1, <1>2
  <1>4. PICK n \in Bad : \A m \in Bad : n <= m
    <2> HIDE DEF Bad
    <2> QED BY <1>3, SmallestExists
  <1>5. PICK s \in SUBSET T : Cardinality(s) = n /\ f[s] # g[s] BY <1>4
  <1>6. /\ f[s] = IF s = {} THEN 0 ELSE Chosen(s).size + f[s \ {Chosen(s)}]
        /\ g[s] = IF s = {} THEN 0 ELSE Chosen(s).size + g[s \ {Chosen(s)}]
    <2>1. s \in SUBSET S /\ s \in SUBSET T OBVIOUS
    <2> QED BY <2>1 DEF Adds
  <1>7. s # {} BY <1>5, <1>6
  <1>8. PICK x \in s : x = Chosen(s) BY <1>7 DEF Chosen
  <1>9. Cardinality(s \ {x}) \in Nat /\ ~ (n <= Cardinality(s \ {x}))
    <2>1. Cardinality(s \ {x}) = n - 1 /\ n > 0 BY <1>2, <1>5, OneLess
    <2>2. n \in Nat BY <1>3
    <2> QED BY <2>1, <2>2
  <1>10. f[s \ {x}] = g[s \ {x}] BY <1>4, <1>9
  <1> QED BY <1>5, <1>6, <1>7, <1>8, <1>10

\* Whichever element comes first, the sum is the same.
LEMMA SumsSplit ==
    ASSUME NEW S, Sized(S), NEW f, Adds(f, SUBSET S)
    PROVE  \A s \in SUBSET S : f[s] \in Nat /\ \A x \in s : f[s] = x.size + f[s \ {x}]
  <1> DEFINE Fine(s) == f[s] \in Nat /\ \A x \in s : f[s] = x.size + f[s \ {x}]
             Bad == {n \in Nat : \E s \in SUBSET S : Cardinality(s) = n /\ ~Fine(s)}
  <1>1. \A s \in SUBSET S : IsFiniteSet(s) /\ Cardinality(s) \in Nat
    BY FS_Subset, FS_CardinalityType DEF Sized
  <1>2. SUFFICES ASSUME Bad # {} PROVE FALSE BY <1>1
  <1>3. PICK n \in Bad : \A m \in Bad : n <= m
    <2> HIDE DEF Bad
    <2>1. Bad \in SUBSET Nat BY DEF Bad
    <2> QED BY <1>2, <2>1, SmallestExists
  <1>4. PICK s \in SUBSET S : Cardinality(s) = n /\ ~Fine(s) BY <1>3
  <1>5. f[s] = IF s = {} THEN 0 ELSE Chosen(s).size + f[s \ {Chosen(s)}] BY DEF Adds
  <1>6. s # {} BY <1>4, <1>5
  <1>7. PICK y \in s : y = Chosen(s) BY <1>6 DEF Chosen
  <1>8. \A x \in s : Fine(s \ {x})
    <2> TAKE x \in s
    <2>1. Cardinality(s \ {x}) = n - 1 /\ n > 0 BY <1>1, <1>4, OneLess
    <2>2. Cardinality(s \ {x}) \in Nat /\ ~ (n <= Cardinality(s \ {x})) BY <1>1, <2>1
    <2> HIDE DEF Fine
    <2> QED BY <1>3, <2>2
  <1>9. \A x \in s : x.size \in Nat BY DEF Sized
  <1>10. f[s] = y.size + f[s \ {y}] BY <1>5, <1>6, <1>7
  <1>11. f[s] \in Nat
    <2>1. PICK size : size = y.size OBVIOUS
    <2>2. PICK rest : rest = f[s \ {y}] OBVIOUS
    <2>3. size \in Nat /\ rest \in Nat BY <1>8, <1>9, <2>1, <2>2
    <2>4. f[s] = size + rest BY <1>10, <2>1, <2>2
    <2> QED BY <2>3, <2>4
  <1>12. ASSUME NEW x \in s PROVE f[s] = x.size + f[s \ {x}]
    <2>1. CASE x = y BY <1>10, <2>1
    <2>2. CASE x # y
      <3>1. f[s \ {y}] = x.size + f[(s \ {y}) \ {x}] BY <1>8, <2>2
      <3>2. f[s \ {x}] = y.size + f[(s \ {x}) \ {y}] BY <1>8, <2>2
      <3>3. (s \ {y}) \ {x} = (s \ {x}) \ {y} OBVIOUS
      <3>4. PICK rest : rest = f[(s \ {x}) \ {y}] OBVIOUS
      <3>5. rest \in Nat
        <4>1. f[s \ {x}] \in Nat /\ f[s \ {y}] \in Nat BY <1>8
        <4>2. (s \ {x}) \ {y} \in SUBSET S OBVIOUS
        <4>3. Fine((s \ {x}) \ {y})
          <5>1. y \in s \ {x} BY <2>2
          <5>2. Cardinality((s \ {x}) \ {y}) < n /\ Cardinality((s \ {x}) \ {y}) \in Nat
            <6>1. /\ Cardinality(s \ {x}) = n - 1
                  /\ Cardinality((s \ {x}) \ {y}) = Cardinality(s \ {x}) - 1
              BY <1>1, <1>4, <5>1, OneLess
            <6>2. Cardinality((s \ {x}) \ {y}) \in Nat /\ n \in Nat BY <1>1, <4>2
            <6> QED BY <6>1, <6>2
          <5>3. ~ (n <= Cardinality((s \ {x}) \ {y})) BY <5>2
          <5> HIDE DEF Fine
          <5> QED BY <1>3, <4>2, <5>2, <5>3
        <4> QED BY <3>4, <4>3
      <3>6. PICK a, b : a = x.size /\ b = y.size OBVIOUS
      <3>7. a \in Nat /\ b \in Nat BY <1>9, <3>6
      <3>8. f[s \ {y}] = a + rest /\ f[s \ {x}] = b + rest BY <3>1, <3>2, <3>3, <3>4, <3>6
      <3>9. f[s] = b + (a + rest) BY <1>10, <3>6, <3>8
      <3>10. b + (a + rest) = a + (b + rest) BY <3>5, <3>7
      <3> QED BY <3>6, <3>8, <3>9, <3>10
    <2> QED BY <2>1, <2>2
  <1> QED BY <1>4, <1>11, <1>12

\* A row adds its size.
LEMMA TotalSplits ==
    ASSUME NEW S, Sized(S)
    PROVE  Total(S) \in Nat /\ \A x \in S : Total(S) = x.size + Total(S \ {x})
  <1>1. Adds(Sums(S), SUBSET S) BY SumsExist DEF Sized
  <1>2. Total(S) \in Nat /\ \A x \in S : Total(S) = x.size + Sums(S)[S \ {x}]
    BY <1>1, SumsSplit DEF Total
  <1>3. ASSUME NEW x \in S PROVE Sums(S)[S \ {x}] = Total(S \ {x})
    <2>1. IsFiniteSet(S) /\ IsFiniteSet(S \ {x}) BY FS_Subset DEF Sized
    <2>2. Adds(Sums(S \ {x}), SUBSET (S \ {x})) BY <2>1, SumsExist
    <2> QED BY <1>1, <2>1, <2>2, SumsAgree DEF Total
  <1> QED BY <1>2, <1>3

\* Fewer rows, fewer bytes: the smallest larger set that refutes it has one element to spare.
LEMMA TotalFalls ==
    ASSUME NEW S, Sized(S), NEW T \in SUBSET S
    PROVE  Total(T) <= Total(S)
  <1> DEFINE Bad == {n \in Nat : \E s \in SUBSET S :
                        T \subseteq s /\ Cardinality(s) = n /\ ~ (Total(T) <= Total(s))}
  <1>1. SUFFICES ASSUME ~ (Total(T) <= Total(S)) PROVE FALSE OBVIOUS
  <1>2. \A s \in SUBSET S : Sized(s) /\ Cardinality(s) \in Nat
    BY FS_Subset, FS_CardinalityType DEF Sized
  <1>3. Bad \in SUBSET Nat /\ Bad # {} BY <1>1, <1>2
  <1>4. PICK n \in Bad : \A m \in Bad : n <= m
    <2> HIDE DEF Bad
    <2> QED BY <1>3, SmallestExists
  <1>5. PICK s \in SUBSET S : T \subseteq s /\ Cardinality(s) = n /\ ~ (Total(T) <= Total(s))
    BY <1>4
  <1>6. Total(T) \in Nat /\ Total(s) \in Nat BY <1>2, TotalSplits
  <1>7. PICK x \in s : x \notin T BY <1>5, <1>6
  <1>8. Cardinality(s \ {x}) \in Nat /\ ~ (n <= Cardinality(s \ {x}))
    <2>1. Cardinality(s \ {x}) = n - 1 /\ n > 0 BY <1>2, <1>5, OneLess DEF Sized
    <2> QED BY <1>2, <1>3, <2>1
  <1>9. Total(T) <= Total(s \ {x})
    <2>1. T \subseteq s \ {x} /\ s \ {x} \in SUBSET S BY <1>5, <1>7
    <2> QED BY <1>4, <1>8, <2>1
  <1>10. Total(s) = x.size + Total(s \ {x}) /\ x.size \in Nat /\ Total(s \ {x}) \in Nat
    <2>1. Sized(s) /\ Sized(s \ {x}) BY <1>2
    <2> QED BY <2>1, TotalSplits DEF Sized
  <1> QED BY <1>5, <1>6, <1>9, <1>10

\* One more row adds its size at most: nothing when it was there.
LEMMA TotalGrows ==
    ASSUME NEW S, Sized(S), NEW x, x.size \in Nat
    PROVE  Sized(S \cup {x}) /\ Total(S \cup {x}) <= Total(S) + x.size
  <1>1. Sized(S \cup {x}) BY FS_AddElement DEF Sized
  <1>2. Total(S) \in Nat BY TotalSplits
  <1>3. CASE x \in S
    <2>1. S \cup {x} = S BY <1>3
    <2>2. PICK a, b : a = Total(S) /\ b = x.size OBVIOUS
    <2>3. a <= a + b BY <1>2, <2>2
    <2> QED BY <1>1, <2>1, <2>2, <2>3
  <1>4. CASE x \notin S
    <2>1. (S \cup {x}) \ {x} = S BY <1>4
    <2>2. Total(S \cup {x}) = x.size + Total((S \cup {x}) \ {x}) BY <1>1, TotalSplits
    <2>3. PICK a, b : a = Total(S) /\ b = x.size OBVIOUS
    <2>4. b + a <= a + b BY <1>2, <2>3
    <2> QED BY <1>1, <2>1, <2>2, <2>3, <2>4
  <1> QED BY <1>3, <1>4

-----------------------------------------------------------------------------
(* The notifications of a day, and the bytes of all. *)

\* The send stands past the count: it has made it under its lock, or found no limit; and past
\* the sum.
Counted(p) ==
    /\ pc[p] = "running" /\ request[p].op = "ingest"
    /\ LET first == Q!Lock(Q!Tenant, "key_share")
           second == Q!Lock(request[p].receiver, "key_share")
           third == Q!Lock(request[p].receiver, "no_key_update")
       IN  todo[p] \in {<<Q!Do("sum"), first, second, third>>, <<first, second, third>>,
                        <<second, third>>, <<third>>, <<>>}

Summed(p) == todo[p] = <<>> \/ Head(todo[p]).kind # "sum"

CountInv(p) ==
    Counted(p) =>
        /\ Q!Limited(p) /\ tenant.max_per_day # Null => Q!Count < tenant.max_per_day
        /\ Q!Limited(p) /\ tenant.max_storage # Null /\ Summed(p) =>
              Q!Bytes + request[p].value <= tenant.max_storage
        /\ ~Q!Limited(p) /\ ~changed[p] => tenant.max_per_day = Null /\ tenant.max_storage = Null

LimitInv == \A p \in Requests : CountInv(p)

\* The count is a number, the rows being finitely many.
LEMMA CountIsNat == DataInv => Q!Count \in Nat
  <1> SUFFICES ASSUME DataInv PROVE Q!Count \in Nat OBVIOUS
  <1>1. IsFiniteSet({n \in stored : n.recent}) BY FS_Subset DEF DataInv
  <1> QED BY <1>1, FS_CardinalityType, SameCardinality DEF Q!Count

\* Whatever is not an insertion leaves the count or lowers it, and so the sum.
LEMMA CountFalls ==
    ASSUME DataInv, DataInv', {n \in stored : n.recent}' \subseteq {n \in stored : n.recent}
    PROVE  Q!Count' <= Q!Count
  <1>1. IsFiniteSet({n \in stored : n.recent}) BY FS_Subset DEF DataInv
  <1> QED BY <1>1, FS_Subset, SameCardinality DEF Q!Count

\* One more notification is one more of the day at most.
LEMMA CountGrowsByOne ==
    ASSUME DataInv, NEW row, stored' = stored \cup {row}
    PROVE  Q!Count' <= Q!Count + 1
  <1> DEFINE old == {n \in stored : n.recent}
  <1>1. IsFiniteSet(old) BY FS_Subset DEF DataInv
  <1>2. IsFiniteSet(old \cup {row}) /\ Cardinality(old \cup {row}) <= Cardinality(old) + 1
    BY <1>1, FS_AddElement, FS_CardinalityType
  <1>3. {n \in stored' : n.recent} \subseteq old \cup {row} OBVIOUS
  <1>4. Cardinality({n \in stored' : n.recent}) <= Cardinality(old \cup {row})
    BY <1>2, <1>3, FS_Subset
  <1>5. /\ Cardinality(old) \in Nat /\ Cardinality(old \cup {row}) \in Nat
        /\ Cardinality({n \in stored' : n.recent}) \in Nat
    BY <1>1, <1>2, <1>3, FS_Subset, FS_CardinalityType
  <1> QED BY <1>2, <1>4, <1>5, SameCardinality DEF Q!Count

\* Before and after a step, the bytes are the sum of the rows.
LEMMA TotalIsBytes ==
    ASSUME DataInv, DataInv'
    PROVE  /\ Sized(stored) /\ Sized(stored') /\ Q!Bytes = Total(stored) /\ Q!Bytes' = Total(stored')
           /\ Q!Bytes \in Nat /\ Q!Bytes' \in Nat
  <1>1. Q!Bytes = Total(stored) /\ (Q!Bytes = Total(stored))' BY BytesAreTotal, PTL
  <1>2. Sized(stored) /\ Sized(stored') BY DEF DataInv, Sized
  <1>3. PICK new : new = stored' OBVIOUS
  <1>4. Total(stored) \in Nat /\ Total(new) \in Nat BY <1>2, <1>3, TotalSplits
  <1>5. Q!Bytes' = Total(stored') BY <1>1 DEF Total, Sums, Chosen
  <1> QED BY <1>1, <1>2, <1>3, <1>4, <1>5

\* Whatever deletes rows, or lets one grow old, adds no byte.
LEMMA BytesFall ==
    ASSUME DataInv, DataInv',
           stored' \subseteq stored \/ \E n \in stored : Q!age(n)
    PROVE  Q!Bytes' <= Q!Bytes
  <1>1. /\ Sized(stored) /\ Sized(stored') /\ Q!Bytes = Total(stored) /\ Q!Bytes' = Total(stored')
        /\ Q!Bytes \in Nat /\ Q!Bytes' \in Nat
    BY TotalIsBytes
  <1>2. PICK new : new = stored' OBVIOUS
  <1>3. CASE stored' \subseteq stored BY <1>1, <1>2, <1>3, TotalFalls
  <1>4. ASSUME NEW n \in stored, Q!age(n) PROVE Q!Bytes' <= Q!Bytes
    <2> DEFINE old == [n EXCEPT !.recent = FALSE]
    <2>1. stored' = (stored \ {n}) \cup {old} BY <1>4 DEF Q!age
    <2>2. old.size = n.size /\ n.size \in Nat BY DEF DataInv
    <2> HIDE DEF old
    <2>3. Sized(stored \ {n}) BY <1>1, FS_Subset DEF Sized
    <2>4. Total(stored) = n.size + Total(stored \ {n}) /\ Total(stored \ {n}) \in Nat
      BY <1>1, <2>3, TotalSplits
    <2>5. Total((stored \ {n}) \cup {old}) <= Total(stored \ {n}) + old.size
      BY <2>2, <2>3, TotalGrows
    <2> QED BY <1>1, <2>1, <2>2, <2>4, <2>5
  <1> QED BY <1>3, <1>4

\* A notification adds its size at most.
LEMMA BytesGrow ==
    ASSUME DataInv, DataInv', NEW row, row.size \in Nat, stored' = stored \cup {row}
    PROVE  Q!Bytes' <= Q!Bytes + row.size
  BY TotalIsBytes, TotalGrows

\* Those that stand where they stood.
LEMMA CountKept ==
    ASSUME QuotaTypes, DataInv', LimitInv, NEW q \in Requests,
           request'[q] = request[q], pc'[q] = pc[q], todo'[q] = todo[q], locks'[q] = locks[q],
           changed[q] => changed'[q], UNCHANGED tenant,
           Q!Limited(q) => Q!Count' <= Q!Count /\ Q!Bytes' <= Q!Bytes
    PROVE  CountInv(q)'
  <1>1. CountInv(q) BY DEF LimitInv
  <1>2. /\ Counted(q)' <=> Counted(q)
        /\ Q!Limited(q)' <=> Q!Limited(q)
        /\ Summed(q)' <=> Summed(q)
    BY DEF Counted, Q!Limited, Summed, Q!Lock, Q!Do
  <1>3. Q!Count \in Nat /\ Q!Count' \in Nat
    <2>1. Q!Count \in Nat BY CountIsNat DEF QuotaTypes
    <2>2. DataInv' => (Q!Count \in Nat)' BY CountIsNat, PTL
    <2>3. (Q!Count \in Nat)' BY <2>2
    <2> QED BY <2>1, <2>3
  <1>4. Q!Bytes \in Nat /\ Q!Bytes' \in Nat BY TotalIsBytes DEF QuotaTypes
  <1>5. tenant.max_per_day \in Nat \cup {Null} /\ tenant.max_storage \in Nat \cup {Null}
    BY DEF QuotaTypes, DataInv, TenantType
  <1>6. Counted(q) => request[q].value \in Nat
    BY DEF Counted, QuotaTypes, ShapeInv, Shaped, SendOps
  <1>7. SUFFICES ASSUME Counted(q)' PROVE CountInv(q)' BY DEF CountInv
  <1>8. Q!Limited(q)' /\ tenant'.max_per_day # Null => Q!Count' < tenant'.max_per_day
    BY <1>1, <1>2, <1>3, <1>5, <1>7 DEF CountInv
  <1>9. ASSUME Q!Limited(q)', tenant'.max_storage # Null, Summed(q)'
        PROVE  Q!Bytes' + request'[q].value <= tenant'.max_storage
    <2>1. Q!Bytes + request[q].value <= tenant.max_storage BY <1>1, <1>2, <1>7, <1>9 DEF CountInv
    <2>2. PICK a, b, v, m : /\ a = Q!Bytes /\ b = Q!Bytes' /\ v = request[q].value
                            /\ m = tenant.max_storage
      OBVIOUS
    <2>3. a \in Nat /\ b \in Nat /\ v \in Nat /\ m \in Nat /\ b <= a /\ a + v <= m
      BY <1>2, <1>4, <1>5, <1>6, <1>7, <1>9, <2>1, <2>2
    <2>4. b + v <= m BY <2>3
    <2> QED BY <2>2, <2>4
  <1>10. ~Q!Limited(q)' /\ ~changed'[q] => tenant'.max_per_day = Null /\ tenant'.max_storage = Null
    BY <1>1, <1>2, <1>7 DEF CountInv
  <1> QED BY <1>8, <1>9, <1>10 DEF CountInv

\* A request that ends is counted no more.
LEMMA CountsFinish ==
    ASSUME QuotaTypes, DataInv', LimitInv, NEW p \in Requests, Q!Finish(p),
           UNCHANGED <<tenant, stored, changed>>
    PROVE  LimitInv'
  <1>1. Q!Count' <= Q!Count /\ Q!Bytes' <= Q!Bytes BY CountFalls, BytesFall DEF QuotaTypes
  <1>2. \A q \in Requests \ {p} : CountInv(q)'
    BY <1>1, CountKept DEF Q!Finish, Q!Go, QuotaTypes, TxInv
  <1>3. CountInv(p)' BY DEF Q!Finish, Q!Go, QuotaTypes, TxInv, CountInv, Counted
  <1> QED BY <1>2, <1>3 DEF LimitInv

\* A request that arrives has counted nothing.
LEMMA CountsArrival ==
    ASSUME QuotaTypes, QuotaTypes', LimitInv, NEW p \in Requests, Q!Arrival(p)
    PROVE  LimitInv'
  <1>1. PICK new, place, statements :
            /\ Q!Begin(p, new, place, statements)
            /\ place = "limits" \/ new.op # "ingest"
    <2>1. CASE \E r \in Receivers, size \in Sizes, object \in BOOLEAN : Q!ingest(p, r, size, object)
      BY <2>1 DEF Q!ingest
    <2>2. ASSUME NEW op, NEW r, NEW value, NEW statements, op # "ingest",
                 Q!Begin(p, Q!Request(op, r, value), "running", statements)
          PROVE  \E new, place, some : Q!Begin(p, new, place, some) /\ new.op # "ingest"
      <3>1. Q!Request(op, r, value).op = op BY DEF Q!Request
      <3> HIDE DEF Q!Request
      <3> QED BY <2>2, <3>1
    <2>3. ~ (\E r \in Receivers, size \in Sizes, object \in BOOLEAN : Q!ingest(p, r, size, object)) =>
              \E op, r, value, statements :
                  /\ op # "ingest"
                  /\ Q!Begin(p, Q!Request(op, r, value), "running", statements)
      BY DEF Q!Arrival, Q!update_tenant, Q!create_receiver, Q!update_receiver_cap,
          Q!update_receiver,
             Q!rotate_slug, Q!delete_receiver, Q!Unordered, Q!check_expected_schedules
    <2> QED BY <2>1, <2>2, <2>3
  <1>2. Q!Count' <= Q!Count /\ Q!Bytes' <= Q!Bytes
    BY <1>1, CountFalls, BytesFall DEF Q!Begin, QuotaTypes
  <1>3. \A q \in Requests \ {p} : CountInv(q)'
    BY <1>1, <1>2, CountKept DEF Q!Begin, Q!Go, QuotaTypes, TxInv
  <1>4. CountInv(p)' BY <1>1 DEF Q!Begin, Q!Go, QuotaTypes, TxInv, CountInv, Counted
  <1> QED BY <1>3, <1>4 DEF LimitInv

\* A send that reads its limits and finds none is past the count.
LEMMA CountsSend ==
    ASSUME QuotaTypes, QuotaTypes', LimitInv, NEW p \in Requests,
           Q!enforce_tenant_quotas(p) \/ Q!upload_object(p)
    PROVE  LimitInv'
  <1>1. UNCHANGED <<tenant, stored, changed>> BY DEF Q!enforce_tenant_quotas, Q!upload_object
  <1>2. Q!Count' <= Q!Count /\ Q!Bytes' <= Q!Bytes BY <1>1, CountFalls, BytesFall DEF QuotaTypes
  <1>3. \A q \in Requests \ {p} : CountInv(q)'
    BY <1>1, <1>2, CountKept DEF Q!enforce_tenant_quotas, Q!upload_object, Q!Go, QuotaTypes, TxInv
  <1>4. CASE Q!upload_object(p)
    <2>1. CountInv(p)' BY <1>4 DEF Q!upload_object, Q!Go, QuotaTypes, TxInv, CountInv, Counted
    <2> QED BY <1>3, <2>1 DEF LimitInv
  <1>5. CASE /\ Q!enforce_tenant_quotas(p)
             /\ tenant.max_per_day = Null /\ tenant.max_storage = Null
    <2>1. CountInv(p)' BY <1>1, <1>5 DEF CountInv
    <2> QED BY <1>3, <2>1 DEF LimitInv
  <1>6. CASE /\ Q!enforce_tenant_quotas(p)
             /\ ~ (tenant.max_per_day = Null /\ tenant.max_storage = Null)
    <2> DEFINE a == Q!Lock(Q!Tenant, "update")  b == Q!Do("count")  c == Q!Do("sum")
               d == Q!Lock(Q!Tenant, "key_share")
               e == Q!Lock(request[p].receiver, "key_share")
               f == Q!Lock(request[p].receiver, "no_key_update")
    <2>1. SUFFICES ASSUME Counted(p)' PROVE FALSE BY <1>3 DEF LimitInv, CountInv
    <2>2. request'[p] = request[p] /\ request[p].op = "ingest"
      BY <1>6, <2>1 DEF Q!enforce_tenant_quotas, Counted
    <2>3. todo'[p] = <<a, b, c>> \o <<d, e, f>>
      BY <1>6, <2>2
      DEF Q!enforce_tenant_quotas, Q!Go, QuotaTypes, TxInv, Q!persist_notification, Q!quota_lock
    <2>4. todo'[p] \in {<<c, d, e, f>>, <<d, e, f>>, <<e, f>>, <<f>>, <<>>}
      BY <2>1, <2>2 DEF Counted, Q!Lock, Q!Do
    <2> HIDE DEF a, b, c, d, e, f
    <2>5. todo'[p] = <<a, b, c, d, e, f>> BY <2>3, ThreeAndThree
    <2> QED BY <2>4, <2>5
  <1> QED BY <1>4, <1>5, <1>6

\* The count is made under the lock.
LEMMA CountsRun ==
    ASSUME QuotaTypes, QuotaTypes', PlanInv, LimitInv, Q!Tenant \notin Receivers, NEW p \in Requests,
           Q!lock(p) \/ Q!skip_locked(p) \/ Q!check(p), ~Q!Finish(p)
    PROVE  LimitInv'
  <1>0. /\ UNCHANGED <<tenant, stored, changed>> /\ pc[p] = "running" /\ todo[p] # <<>>
        /\ todo'[p] = Tail(todo[p])
    BY DEF Q!lock, Q!skip_locked, Q!check, Q!Go, QuotaTypes, TxInv
  <1>1. Q!Count' = Q!Count /\ Q!Bytes' = Q!Bytes
    <2>1. PICK new : new = stored' OBVIOUS
    <2>2. Total(new) = Total(stored) BY <1>0, <2>1
    <2> QED BY <1>0, <2>1, <2>2, TotalIsBytes DEF Q!Count, QuotaTypes
  <1>2. Q!Count' <= Q!Count /\ Q!Bytes' <= Q!Bytes BY <1>0, CountFalls, BytesFall DEF QuotaTypes
  <1>3. \A q \in Requests \ {p} : CountInv(q)'
    BY <1>0, <1>2, CountKept DEF Q!lock, Q!skip_locked, Q!check, Q!Go, QuotaTypes, TxInv
  <1>4. SUFFICES ASSUME Counted(p)' PROVE CountInv(p)' BY <1>3 DEF LimitInv, CountInv
  <1>5. /\ request'[p].op = request[p].op /\ request'[p].receiver = request[p].receiver
        /\ Head(todo[p]).kind # "validate" => request'[p].value = request[p].value
    <2> DEFINE r == request[p]
               value == IF Head(todo[p]).kind = "validate" /\ r.value = Null
                        THEN tenant.cap ELSE r.value
    <2>1. r \in RequestType BY <1>0 DEF QuotaTypes, ShapeInv, Shaped
    <2>2. \/ request'[p] = r
          \/ request'[p] = [r EXCEPT !.locked = Q!Unlocked(p)]
          \/ request'[p] = [r EXCEPT !.value = value]
      BY <1>0 DEF Q!lock, Q!skip_locked, Q!check, QuotaTypes, TxInv
    <2>4. Head(todo[p]).kind # "validate" => value = r.value OBVIOUS
    <2> HIDE DEF r, value
    <2>3. /\ request'[p].op = r.op /\ request'[p].receiver = r.receiver
          /\ request'[p].value = r.value \/ request'[p].value = value
      BY <2>1, <2>2 DEF RequestType
    <2> QED BY <2>3, <2>4 DEF r
  <1> DEFINE a == Q!Lock(Q!Tenant, "update")  b == Q!Do("count")  c == Q!Do("sum")
             d == Q!Lock(Q!Tenant, "key_share")
             e == Q!Lock(request[p].receiver, "key_share")
             f == Q!Lock(request[p].receiver, "no_key_update")
  <1>6. request[p].op = "ingest" /\ request[p].receiver \in Receivers
    BY <1>0, <1>4, <1>5 DEF Counted, QuotaTypes, ShapeInv, Shaped, SendOps
  <1>7. Tail(todo[p]) \in {<<c, d, e, f>>, <<d, e, f>>, <<e, f>>, <<f>>, <<>>}
    BY <1>0, <1>4, <1>5 DEF Counted, Q!Lock, Q!Do
  <1>8. \/ todo[p] = <<a, b, c, d, e, f>>
        \/ Has(p, "update") /\ todo[p] = <<b, c, d, e, f>>
        \/ Has(p, "update") /\ todo[p] = <<c, d, e, f>>
        \/ todo[p] \in {<<d, e, f>>, <<e, f>>, <<f>>}
    <2>1. PlanOf(p) BY DEF PlanInv
    <2> QED BY <1>0, <1>6, <2>1 DEF PlanOf, SendPlan
  <1>9. todo[p] # <<a, b, c, d, e, f>>
    <2> HIDE DEF a, b, c, d, e, f
    <2> SUFFICES ASSUME todo[p] = <<a, b, c, d, e, f>> PROVE FALSE OBVIOUS
    <2>1. Tail(todo[p]) = <<b, c, d, e, f>> BY Tails
    <2> QED BY <1>7, <2>1
  <1>10. CASE Has(p, "update") /\ todo[p] = <<b, c, d, e, f>>
    <2>1. Head(todo[p]).kind = "count" BY <1>10 DEF Q!Do
    <2>2. Q!Within("count", p) /\ locks' = locks BY <1>0, <2>1 DEF Q!lock, Q!skip_locked, Q!check
    <2>3. Q!Limited(p)' BY <1>10, <2>2 DEF Has, Q!Limited
    <2>4. tenant.max_per_day # Null => Q!Count < tenant.max_per_day BY <2>2 DEF Q!Within
    <2>5. tenant'.max_per_day # Null => Q!Count' < tenant'.max_per_day BY <1>0, <1>1, <2>4
    <2>6. ~Summed(p)'
      <3>1. todo'[p] = <<c, d, e, f>> BY <1>0, <1>10
      <3> QED BY <3>1 DEF Summed, Q!Do
    <2> QED BY <2>3, <2>5, <2>6 DEF CountInv
  <1>11. CASE \/ todo[p] \in {<<d, e, f>>, <<e, f>>, <<f>>}
              \/ Has(p, "update") /\ todo[p] = <<c, d, e, f>>
    <2>1. Counted(p) BY <1>0, <1>6, <1>11 DEF Counted
    <2>2. CountInv(p) BY DEF LimitInv
    <2>3. Head(todo[p]) \in {c, d, e, f} BY <1>11
    <2>6. request'[p].value = request[p].value BY <1>5, <2>3 DEF Q!Lock, Q!Do
    <2>7. Q!Limited(p) /\ tenant.max_storage # Null => Q!Bytes + request[p].value <= tenant.max_storage
      <3>1. CASE Summed(p) BY <2>1, <2>2, <3>1 DEF CountInv
      <3>2. CASE ~Summed(p)
        <4>1. Head(todo[p]).kind = "sum" BY <3>2 DEF Summed
        <4>2. Q!Within("sum", p) BY <1>0, <4>1 DEF Q!lock, Q!skip_locked, Q!check
        <4> QED BY <4>2 DEF Q!Within
      <3> QED BY <3>1, <3>2
    <2>4. Head(todo[p]).kind # "skip_locked" /\ a \notin {c, d, e, f} /\ Head(todo[p]) # a
      BY <1>6, <2>3 DEF Q!Lock, Q!Do
    <2>5. Q!Limited(p)' <=> Q!Limited(p)
      <3>1. CASE locks' = locks BY <3>1 DEF Q!Limited
      <3>2. CASE locks' # locks
        <4>1. /\ locks'[p] = locks[p] \cup {<<Head(todo[p]).row, Head(todo[p]).mode>>}
              /\ Head(todo[p]).kind = "lock"
          BY <1>0, <2>4, <3>2 DEF Q!lock, Q!skip_locked, Q!check, QuotaTypes, TxInv
        <4>2. <<Head(todo[p]).row, Head(todo[p]).mode>> # <<Q!Tenant, "update">>
          BY <2>3, <4>1 DEF Q!Lock, Q!Do
        <4> QED BY <4>1, <4>2 DEF Q!Limited
      <3> QED BY <3>1, <3>2
    <2>8. Q!Limited(p)' /\ tenant'.max_storage # Null =>
              Q!Bytes' + request'[p].value <= tenant'.max_storage
      BY <1>0, <1>1, <2>5, <2>6, <2>7
    <2>9. /\ Q!Limited(p)' /\ tenant'.max_per_day # Null => Q!Count' < tenant'.max_per_day
          /\ ~Q!Limited(p)' /\ ~changed'[p] => tenant'.max_per_day = Null /\ tenant'.max_storage = Null
      BY <1>0, <1>1, <2>1, <2>2, <2>5 DEF CountInv
    <2> QED BY <2>8, <2>9 DEF CountInv
  <1> HIDE DEF a, b, c, d, e, f
  <1> QED BY <1>8, <1>9, <1>10, <1>11

\* Whoever inserts a notification or changes the limits holds a lock on the row of the
\* tenant when it commits.
LEMMA CountsCommit ==
    ASSUME QuotaTypes, QuotaTypes', LocksExclude, PlanInv, LimitInv, NEW p \in Requests, Q!commit(p)
    PROVE  LimitInv'
  <1>1. pc[p] = "running" /\ todo[p] = <<>> /\ Q!Finish(p) BY DEF Q!commit
  <1>2. ASSUME NEW q \in Requests \ {p}
        PROVE  /\ request'[q] = request[q] /\ pc'[q] = pc[q] /\ todo'[q] = todo[q]
               /\ locks'[q] = locks[q]
               /\ changed'[q] = (changed[q] \/ (request[p].op = "update_tenant" /\ pc[q] # "idle"))
    BY <1>1 DEF Q!commit, Q!Finish, Q!Go, QuotaTypes, TxInv
  <1>3. CountInv(p)' BY <1>1 DEF Q!Finish, Q!Go, QuotaTypes, TxInv, CountInv, Counted
  <1>4. SUFFICES ASSUME NEW q \in Requests \ {p} PROVE CountInv(q)'
    BY <1>3 DEF LimitInv
  <1>5. changed[q] => changed'[q] BY <1>2
  <1>6. request[p].op \in {"update_tenant", "ingest", "job"} => ~Q!Limited(q)
    <2>1. PlanOf(p) BY DEF PlanInv
    <2>2. request[p].op \in {"update_tenant", "ingest", "job"} =>
              Has(p, "no_key_update") \/ Has(p, "key_share")
      BY <1>1, <2>1 DEF PlanOf, SettingPlan, SendPlan, JobPlan
    <2> QED BY <2>2 DEF Has, Q!Limited, LocksExclude, Q!Conflict
  <1>7. CASE request[p].op = "update_tenant"
    <2>1. ~Q!Limited(q)' BY <1>2, <1>6, <1>7 DEF Q!Limited
    <2>2. Counted(q)' => changed'[q] BY <1>2, <1>7 DEF Counted
    <2> QED BY <2>1, <2>2 DEF CountInv
  <1>8. CASE request[p].op \in {"ingest", "job"}
    <2>1. UNCHANGED tenant BY <1>8 DEF Q!commit
    <2> QED BY <1>2, <1>5, <1>6, <1>8, <2>1, CountKept DEF QuotaTypes
  <1>9. CASE request[p].op \notin {"update_tenant", "ingest", "job"}
    <2>1. UNCHANGED tenant /\ stored' \subseteq stored BY <1>9 DEF Q!commit
    <2>2. Q!Count' <= Q!Count /\ Q!Bytes' <= Q!Bytes BY <2>1, CountFalls, BytesFall DEF QuotaTypes
    <2> QED BY <1>2, <1>5, <2>1, <2>2, CountKept DEF QuotaTypes
  <1> QED BY <1>7, <1>8, <1>9

\* Every step keeps the limits of the sends that have counted.
LEMMA CountsStay ==
    QuotaGiven /\ QuotaTypes /\ QuotaTypes' /\ LocksExclude /\ PlanInv /\ LimitInv /\ [Q!Next]_Q!vars
    => LimitInv'
  <1> SUFFICES ASSUME QuotaGiven, QuotaTypes, QuotaTypes', LocksExclude, PlanInv, LimitInv, [Q!Next]_Q!vars
               PROVE  LimitInv'
    OBVIOUS
  <1>1. ASSUME UNCHANGED <<tenant, Q!txVars, changed>>, Q!Count' <= Q!Count, Q!Bytes' <= Q!Bytes
        PROVE  LimitInv'
    BY <1>1, CountKept DEF Q!txVars, QuotaTypes, LimitInv
  <1>2. ASSUME NEW p \in Requests, Q!Arrival(p) PROVE LimitInv' BY <1>2, CountsArrival
  <1>3. ASSUME NEW p \in Requests, Q!rollback(p) PROVE LimitInv'
    BY <1>3, CountsFinish DEF Q!rollback, QuotaTypes
  <1>4. ASSUME NEW p \in Requests, Q!lock(p) \/ Q!skip_locked(p) \/ Q!check(p) PROVE LimitInv'
    <2>1. CASE Q!Finish(p)
      BY <1>4, <2>1, CountsFinish DEF Q!lock, Q!skip_locked, Q!check, QuotaTypes
    <2> QED BY <1>4, <2>1, CountsRun DEF QuotaGiven
  <1>5. ASSUME NEW p \in Requests, Q!Step(p) PROVE LimitInv'
    BY <1>3, <1>4, <1>5, CountsSend, CountsCommit DEF Q!Step
  <1>6. ASSUME NEW n \in stored, Q!age(n) \/ Q!purge(n) PROVE LimitInv'
    <2>1. {m \in stored : m.recent}' \subseteq {m \in stored : m.recent}
      <3>1. CASE Q!age(n)
        <4>1. stored' = (stored \ {n}) \cup {[n EXCEPT !.recent = FALSE]} BY <3>1 DEF Q!age
        <4>2. ~[n EXCEPT !.recent = FALSE].recent BY DEF QuotaTypes, DataInv
        <4> QED BY <4>1, <4>2
      <3>2. CASE Q!purge(n) BY <3>2 DEF Q!purge
      <3> QED BY <1>6, <3>1, <3>2
    <2>2. Q!Count' <= Q!Count BY <2>1, CountFalls DEF QuotaTypes
    <2>3. Q!Bytes' <= Q!Bytes
      <3>1. CASE Q!age(n) BY <3>1, BytesFall DEF QuotaTypes
      <3>2. CASE Q!purge(n) BY <3>2, BytesFall DEF Q!purge, QuotaTypes
      <3> QED BY <1>6, <3>1, <3>2
    <2> QED BY <1>1, <1>6, <2>2, <2>3 DEF Q!age, Q!purge
  <1>7. CASE UNCHANGED Q!vars
    <2>1. Q!Count' <= Q!Count /\ Q!Bytes' <= Q!Bytes
      BY <1>7, CountFalls, BytesFall DEF Q!vars, QuotaTypes
    <2> QED BY <1>1, <1>7, <2>1 DEF Q!vars
  <1> QED BY <1>2, <1>5, <1>6, <1>7 DEF Q!Next

-----------------------------------------------------------------------------
(* The order of the locks.  Who has locked a receiver against others has at most the event *)
(* of its audit yet to write. *)

Grip(p) == \E l \in locks[p] : l[1] # Q!Tenant /\ l[2] # "key_share"

GripOf(p) ==
    /\ pc[p] # "running" => todo[p] = <<>>
    /\ pc[p] = "running" /\ request[p].op \notin Edits /\ Grip(p) =>
           todo[p] \in {<<>>, <<Q!Audited>>}

GripInv == \A p \in Requests : GripOf(p)

\* The first statement of a request that has not ended, and what comes after it.
Heads(p) ==
    LET first == Head(todo[p])
        rest == Tail(todo[p])
        r == request[p].receiver
    IN  \/ first \in {Q!Do(kind) : kind \in Checks}
        \/ first = Q!Do("skip_locked") /\ rest = <<Q!Audited>>
        \/ locks[p] = {} /\ first \in {Q!Lock(Q!Tenant, mode) : mode \in Modes}
        \/ (Has(p, "no_key_update") \/ Has(p, "update")) /\ first = Q!Audited
        \/ r \in Receivers /\ first = Q!Lock(r, "key_share")
        \/ r \in Receivers /\ first = Q!Lock(r, "no_key_update") /\ rest \in {<<>>, <<Q!Audited>>}

\* The statement a request comes to is one of its plan.
LEMMA HeadsArePlanned ==
    ASSUME PlanInv, NEW p \in Requests, pc[p] = "running", todo[p] # <<>>,
           Shaped(request[p]), request[p].op \notin Edits
    PROVE  Heads(p)
  <1> DEFINE t == todo[p]
             r == request[p].receiver
             settled == Q!Lock(Q!Tenant, "no_key_update")
             row == Q!Lock(r, "no_key_update")
  <1>1. PlanOf(p) BY DEF PlanInv
  <1>2. request[p].op \in SendOps \cup Raises \cup {"update_tenant", "job"}
    BY DEF Shaped, RequestType, QuotaOps
  <1>3. Heads(p) <=>
            \/ Head(t) \in {Q!Do(kind) : kind \in Checks}
            \/ Head(t) = Q!Do("skip_locked") /\ Tail(t) = <<Q!Audited>>
            \/ locks[p] = {} /\ Head(t) \in {Q!Lock(Q!Tenant, mode) : mode \in Modes}
            \/ (Has(p, "no_key_update") \/ Has(p, "update")) /\ Head(t) = Q!Audited
            \/ r \in Receivers /\ Head(t) = Q!Lock(r, "key_share")
            \/ r \in Receivers /\ Head(t) = row /\ Tail(t) \in {<<>>, <<Q!Audited>>}
    BY DEF Heads
  <1>4. /\ Q!Do("compare") \in {Q!Do(kind) : kind \in Checks}
        /\ Q!Do("validate") \in {Q!Do(kind) : kind \in Checks}
        /\ Q!Do("count") \in {Q!Do(kind) : kind \in Checks}
        /\ Q!Do("sum") \in {Q!Do(kind) : kind \in Checks}
        /\ settled \in {Q!Lock(Q!Tenant, mode) : mode \in Modes}
        /\ Q!Lock(Q!Tenant, "update") \in {Q!Lock(Q!Tenant, mode) : mode \in Modes}
        /\ Q!Audited \in {Q!Lock(Q!Tenant, mode) : mode \in Modes}
    BY DEF Checks, Modes, Q!Audited
  <1>5. ASSUME NEW b, b \in {Q!Do(kind) : kind \in Checks} \/ b = Q!Do("skip_locked"),
               \/ locks[p] = {} /\ t = <<settled, b, Q!Audited>>
               \/ Has(p, "no_key_update") /\ t \in {<<b, Q!Audited>>, <<Q!Audited>>, <<>>}
        PROVE  Heads(p)
    <2> HIDE DEF settled, row, t
    <2>1. CASE locks[p] = {} /\ t = <<settled, b, Q!Audited>> BY <1>3, <1>4, <2>1
    <2>2. CASE t = <<b, Q!Audited>> BY <1>3, <1>5, <2>2, Tails
    <2>3. CASE Has(p, "no_key_update") /\ t = <<Q!Audited>> BY <1>3, <2>3
    <2> QED BY <1>5, <2>1, <2>2, <2>3 DEF t
  <1>6. CASE request[p].op = "update_tenant"
    BY <1>1, <1>4, <1>5, <1>6 DEF PlanOf, SettingPlan
  <1>7. CASE request[p].op = "create_receiver"
    BY <1>1, <1>4, <1>5, <1>7 DEF PlanOf, CreationPlan
  <1>8. CASE request[p].op = "job"
    BY <1>1, <1>5, <1>8 DEF PlanOf, JobPlan
  <1>9. CASE request[p].op = "update_receiver"
    <2> DEFINE b == Q!Do("validate")
    <2>1. \/ locks[p] = {} /\ t = <<settled, b, row, Q!Audited>>
          \/ /\ Has(p, "no_key_update")
             /\ t \in {<<b, row, Q!Audited>>, <<row, Q!Audited>>, <<Q!Audited>>, <<>>}
      BY <1>1, <1>9 DEF PlanOf, CapPlan
    <2>2. b \in {Q!Do(kind) : kind \in Checks} /\ r \in Receivers BY <1>4, <1>9 DEF Shaped, Raises
    <2> HIDE DEF settled, row, t, b
    <2>3. CASE locks[p] = {} /\ t = <<settled, b, row, Q!Audited>> BY <1>3, <1>4, <2>3
    <2>4. CASE t = <<b, row, Q!Audited>> BY <1>3, <2>2, <2>4
    <2>5. CASE t = <<row, Q!Audited>> BY <1>3, <2>2, <2>5, Tails
    <2>6. CASE Has(p, "no_key_update") /\ t = <<Q!Audited>> BY <1>3, <2>6
    <2> QED BY <2>1, <2>3, <2>4, <2>5, <2>6 DEF t
  <1>10. CASE request[p].op \in SendOps
    <2> DEFINE a == Q!Lock(Q!Tenant, "update")  b == Q!Do("count")  c == Q!Do("sum")
               e == Q!Lock(r, "key_share")
    <2>1. \/ locks[p] = {} /\ t = <<a, b, c, Q!Audited, e, row>>
          \/ locks[p] = {} /\ t = <<Q!Audited, e, row>>
          \/ locks[p] = {} /\ t = <<a, b, c>>
          \/ t \in {<<b, c, Q!Audited, e, row>>, <<c, Q!Audited, e, row>>, <<b, c>>, <<c>>}
          \/ Has(p, "update") /\ t = <<Q!Audited, e, row>>
          \/ t \in {<<e, row>>, <<row>>}
      BY <1>1, <1>10 DEF PlanOf, SendPlan, PrecheckPlan, SendOps, Q!Audited
    <2>2. /\ b \in {Q!Do(kind) : kind \in Checks} /\ c \in {Q!Do(kind) : kind \in Checks}
          /\ a \in {Q!Lock(Q!Tenant, mode) : mode \in Modes}
      BY <1>4
    <2>3. e = Q!Lock(r, "key_share") /\ r \in Receivers BY <1>10 DEF Shaped
    <2> HIDE DEF settled, row, t, a, b, c, e, r
    <2>4. CASE locks[p] = {} /\ t = <<a, b, c, Q!Audited, e, row>> BY <1>3, <2>2, <2>4
    <2>5. CASE locks[p] = {} /\ t = <<Q!Audited, e, row>> BY <1>3, <1>4, <2>5
    <2>6. CASE locks[p] = {} /\ t = <<a, b, c>> BY <1>3, <2>2, <2>6
    <2>7. CASE t \in {<<b, c, Q!Audited, e, row>>, <<c, Q!Audited, e, row>>, <<b, c>>, <<c>>}
      <3>1. Head(t) \in {b, c} BY <2>7
      <3> QED BY <1>3, <2>2, <3>1
    <2>8. CASE Has(p, "update") /\ t = <<Q!Audited, e, row>> BY <1>3, <2>8
    <2>9. CASE t = <<e, row>> BY <1>3, <2>3, <2>9
    <2>10. CASE t = <<row>> BY <1>3, <2>3, <2>10, Tails
    <2> QED BY <2>1, <2>4, <2>5, <2>6, <2>7, <2>8, <2>9, <2>10
  <1> QED BY <1>2, <1>6, <1>7, <1>8, <1>9, <1>10 DEF Raises

\* Who comes to the lock of the tenant holds nothing, or comes to the event of its audit with
\* the tenant locked.
LEMMA NextLock ==
    ASSUME PlanInv, NEW p \in Requests, pc[p] = "running", todo[p] # <<>>,
           Shaped(request[p]), request[p].op \notin Edits, Q!Tenant \notin Receivers
    PROVE  /\ Head(todo[p]).kind = "lock" /\ Head(todo[p]).row = Q!Tenant
              =>  \/ locks[p] = {}
                  \/ /\ Head(todo[p]) = Q!Audited
                     /\ Has(p, "no_key_update") \/ Has(p, "update")
           /\ Head(todo[p]).kind = "lock" /\ Head(todo[p]).row # Q!Tenant =>
                  /\ Head(todo[p]).mode \in {"key_share", "no_key_update"}
                  /\ Head(todo[p]).mode = "no_key_update" => Tail(todo[p]) \in {<<>>, <<Q!Audited>>}
           /\ Head(todo[p]).kind = "skip_locked" => Tail(todo[p]) = <<Q!Audited>>
  <1>1. Heads(p) BY HeadsArePlanned
  <1> DEFINE first == Head(todo[p])
             rest == Tail(todo[p])
             r == request[p].receiver
             held == Has(p, "no_key_update") \/ Has(p, "update")
             free == locks[p] = {}
  <1>2. \/ \E kind \in Checks : first = [kind |-> kind, row |-> Null, mode |-> Null]
        \/ first = [kind |-> "skip_locked", row |-> Null, mode |-> Null] /\ rest = <<Q!Audited>>
        \/ free /\ \E mode \in Modes : first = [kind |-> "lock", row |-> Q!Tenant, mode |-> mode]
        \/ held /\ first = Q!Audited
        \/ r # Q!Tenant /\ first = [kind |-> "lock", row |-> r, mode |-> "key_share"]
        \/ /\ r # Q!Tenant /\ first = [kind |-> "lock", row |-> r, mode |-> "no_key_update"]
           /\ rest \in {<<>>, <<Q!Audited>>}
    BY <1>1 DEF Heads, Q!Do, Q!Lock
  <1>3. Q!Audited.row = Q!Tenant /\ Q!Audited.kind = "lock" BY DEF Q!Audited, Q!Lock
  <1> HIDE DEF first, rest, r, held, free
  <1>4. /\ first.kind = "lock" /\ first.row = Q!Tenant => free \/ (first = Q!Audited /\ held)
        /\ first.kind = "lock" /\ first.row # Q!Tenant =>
               /\ first.mode \in {"key_share", "no_key_update"}
               /\ first.mode = "no_key_update" => rest \in {<<>>, <<Q!Audited>>}
        /\ first.kind = "skip_locked" => rest = <<Q!Audited>>
    BY <1>2, <1>3 DEF Checks
  <1> QED BY <1>4 DEF first, rest, r, held, free

\* Every step keeps that whoever has locked a row has only the event of its audit to write.
LEMMA GripsStay ==
    ASSUME QuotaGiven, QuotaTypes, QuotaTypes', PlanInv, GripInv, [Q!Next]_Q!vars
    PROVE  GripInv'
  <1>0. TxInv BY DEF QuotaTypes
  <1>1. ASSUME NEW p \in Requests, NEW q \in Requests \ {p}, NEW l, NEW r, NEW place,
               NEW statements, locks' = [locks EXCEPT ![p] = l],
               request' = [request EXCEPT ![p] = r], Q!Go(p, place, statements)
        PROVE  GripOf(q)'
    <2>1. /\ locks'[q] = locks[q] /\ request'[q] = request[q]
          /\ pc'[q] = pc[q] /\ todo'[q] = todo[q]
      BY <1>0, <1>1 DEF TxInv, Q!Go
    <2> QED BY <2>1 DEF GripInv, GripOf, Grip, Q!Audited, Q!Lock
  <1>2. ASSUME NEW p \in Requests, NEW r, NEW place, NEW statements, pc[p] # "running",
               place = "running" \/ statements = <<>>, locks' = locks,
               request' = [request EXCEPT ![p] = r], Q!Go(p, place, statements)
        PROVE  GripInv'
    <2>1. locks' = [locks EXCEPT ![p] = locks[p]] BY <1>0, <1>2 DEF TxInv
    <2>2. locks'[p] = {} BY <1>2 DEF QuotaTypes, ShapeInv
    <2>3. pc'[p] = place /\ todo'[p] = statements BY <1>0, <1>2 DEF TxInv, Q!Go
    <2> QED BY <1>1, <1>2, <2>1, <2>2, <2>3 DEF GripInv, GripOf, Grip
  <1>3. ASSUME NEW p \in Requests, NEW place, NEW r, Q!Go(p, place, <<>>),
               locks' = [locks EXCEPT ![p] = {}], request' = [request EXCEPT ![p] = r]
        PROVE  GripInv'
    <2>1. todo'[p] = <<>> BY <1>0, <1>3 DEF TxInv, Q!Go
    <2> QED BY <1>1, <1>3, <2>1 DEF GripInv, GripOf
  <1>4. CASE UNCHANGED Q!txVars
    BY <1>4 DEF Q!txVars, GripInv, GripOf, Grip, Q!Audited, Q!Lock
  <1>5. ASSUME NEW p \in Requests, Q!Arrival(p) PROVE GripInv'
    <2>1. PICK new, place, statements :
              Q!Begin(p, new, place, statements) /\ (place = "running" \/ statements = <<>>)
      BY <1>5
      DEF Q!Arrival, Q!ingest, Q!update_tenant, Q!create_receiver, Q!update_receiver_cap,
          Q!Unordered,
          Q!update_receiver, Q!rotate_slug, Q!delete_receiver, Q!check_expected_schedules
    <2> QED BY <1>2, <2>1 DEF Q!Begin
  <1>6. ASSUME NEW p \in Requests, Q!Finish(p) PROVE GripInv'
    BY <1>3, <1>6 DEF Q!Finish
  <1>7. ASSUME NEW p \in Requests, Q!upload_object(p) PROVE GripInv'
    BY <1>3, <1>7 DEF Q!upload_object
  <1>8. ASSUME NEW p \in Requests, Q!enforce_tenant_quotas(p) PROVE GripInv'
    <2>1. request' = [request EXCEPT ![p] = request[p]]
      BY <1>0, <1>8 DEF Q!enforce_tenant_quotas, TxInv
    <2>2. pc[p] # "running" BY <1>8 DEF Q!enforce_tenant_quotas
    <2>3. PICK statements : Q!Go(p, "running", statements) BY <1>8 DEF Q!enforce_tenant_quotas
    <2> QED BY <1>2, <1>8, <2>1, <2>2, <2>3 DEF Q!enforce_tenant_quotas
  <1>9. ASSUME NEW p \in Requests, Q!lock(p) \/ Q!skip_locked(p) \/ Q!check(p), ~Q!Finish(p)
        PROVE  GripInv'
    <2>1. /\ pc[p] = "running" /\ todo[p] # <<>> /\ request[p] \in RequestType
          /\ Q!Go(p, "running", Tail(todo[p])) /\ Shaped(request[p])
      BY <1>9 DEF Q!lock, Q!skip_locked, Q!check, QuotaTypes, ShapeInv, Shaped
    <2>2. todo'[p] = Tail(todo[p]) /\ pc'[p] = "running" /\ Q!Tenant \notin Receivers
      BY <1>0, <2>1 DEF Q!Go, TxInv, QuotaGiven
    <2>3. CASE Q!lock(p)
      <3> DEFINE s == Head(todo[p])
      <3>1. /\ s.kind = "lock" /\ locks' = [locks EXCEPT ![p] = @ \cup {<<s.row, s.mode>>}]
            /\ request' = [request EXCEPT ![p] = request[p]]
        BY <1>0, <1>9, <2>3 DEF Q!lock, TxInv
      <3>2. locks'[p] = locks[p] \cup {<<s.row, s.mode>>} /\ request'[p] = request[p]
        BY <1>0, <3>1 DEF TxInv
      <3> HIDE DEF s
      <3>3. Grip(p)' => Grip(p) \/ (s.row # Q!Tenant /\ s.mode # "key_share")
        BY <3>2 DEF Grip
      <3>4. GripOf(p)'
        <4> SUFFICES ASSUME request[p].op \notin Edits, Grip(p)'
                     PROVE  todo'[p] \in {<<>>, <<Q!Audited>>}
          BY <2>2, <3>2 DEF GripOf, Q!Audited, Q!Lock
        <4>1. CASE Grip(p)
          BY <2>1, <2>2, <4>1, Tails DEF GripInv, GripOf
        <4>2. CASE s.row # Q!Tenant /\ s.mode # "key_share"
          BY <2>1, <2>2, <3>1, <4>2, NextLock DEF s
        <4> QED BY <3>3, <4>1, <4>2
      <3> QED BY <1>1, <2>1, <3>1, <3>4 DEF GripInv
    <2>4. CASE Q!skip_locked(p)
      <3>1. request'[p].op = request[p].op
        BY <1>0, <2>1, <2>4 DEF Q!skip_locked, TxInv, RequestType
      <3>2. GripOf(p)'
        BY <2>1, <2>2, <2>4, <3>1, NextLock DEF GripOf, Q!skip_locked, Q!Audited, Q!Lock
      <3> QED BY <1>1, <2>1, <2>4, <3>2 DEF GripInv, Q!skip_locked
    <2>5. CASE Q!check(p)
      <3>1. request'[p].op = request[p].op /\ locks' = locks
        BY <1>0, <1>9, <2>1, <2>5 DEF Q!check, TxInv, RequestType
      <3>2. GripOf(p)'
        BY <2>1, <2>2, <2>5, <3>1, Tails DEF GripInv, GripOf, Grip, Q!Audited, Q!Lock
      <3>3. locks' = [locks EXCEPT ![p] = locks[p]] BY <1>0, <3>1 DEF TxInv
      <3>4. PICK r : request' = [request EXCEPT ![p] = r]
        BY <1>9, <2>5 DEF Q!check
      <3> QED BY <1>1, <2>1, <3>2, <3>3, <3>4 DEF GripInv
    <2> QED BY <1>9, <2>3, <2>4, <2>5
  <1>10. ASSUME NEW n \in stored, Q!age(n) \/ Q!purge(n) PROVE UNCHANGED Q!txVars
    BY <1>10 DEF Q!age, Q!purge
  <1> QED
    BY <1>4, <1>5, <1>6, <1>7, <1>8, <1>9, <1>10 DEF Q!Next, Q!Step, Q!commit, Q!rollback, Q!vars

-----------------------------------------------------------------------------
(* The theorems. *)

QuotaInv == QuotaTypes /\ IdleInv /\ LocksExclude /\ PlanInv /\ CapInv /\ LimitInv /\ GripInv

\* The invariant at the start.
LEMMA QuotaStart == QuotaGiven /\ Q!Init => QuotaInv
  <1> SUFFICES ASSUME QuotaGiven, Q!Init PROVE QuotaInv OBVIOUS
  <1>1. QuotaTypes BY QuotaTypesStart
  <1>2. LocksExclude BY DEF Q!Init, LocksExclude
  <1>3. PlanInv BY DEF Q!Init, PlanInv, PlanOf
  <1>4. CapInv BY DEF Q!Init, CapInv, RaiseInv, LowerInv, Checked, QuotaGiven
  <1>5. IdleInv BY DEF Q!Init, IdleInv, QuotaGiven
  <1>6. LimitInv BY DEF Q!Init, LimitInv, CountInv, Counted
  <1>7. GripInv BY DEF Q!Init, GripInv, GripOf
  <1> QED BY <1>1, <1>2, <1>3, <1>4, <1>5, <1>6, <1>7 DEF QuotaInv

\* Every step keeps the invariant.
LEMMA QuotaStay == QuotaGiven /\ QuotaInv /\ [Q!Next]_Q!vars => QuotaInv'
  BY QuotaTypesStay, IdleStay, LocksStay, PlansStay, CapsStay, CountsStay, GripsStay DEF QuotaInv

\* The inductive invariant.
LEMMA QuotaInvariant == ASSUME QuotaGiven PROVE Spec => [](scope = "quota" => QuotaInv)
  <1>1. ASSUME Init PROVE scope = "quota" => QuotaInv
    BY <1>1, QuotaStart DEF Init
  <1>2. ASSUME scope = "quota" => QuotaInv, [Next]_vars PROVE (scope = "quota" => QuotaInv)'
    <2>1. scope' = scope BY <1>2 DEF Next, vars
    <2>2. scope = "quota" => [Q!Next]_Q!vars
      BY <1>2 DEF Next, vars, ofQuota, Q!vars, Q!txVars
    <2> QED BY <1>2, <2>1, <2>2, QuotaStay
  <1> QED BY <1>1, <1>2, PTL DEF Spec

\* The invariant is stronger than the types.
LEMMA QuotaMeans == ASSUME QuotaGiven, QuotaInv PROVE Q!TypeOK
  BY DEF QuotaInv, QuotaTypes, DataInv, TxInv, IdleInv, LocksExclude, Q!TypeOK, QuotaGiven

\* The variables have their types, a transaction serves a request exactly while it is
\* not idle, and row locks exclude one another.
THEOREM TypesHold == ASSUME QuotaGiven PROVE Spec => [](scope = "quota" => Q!TypeOK)
  <1>1. (scope = "quota" => QuotaInv) => (scope = "quota" => Q!TypeOK) BY QuotaMeans
  <1> QED BY <1>1, QuotaInvariant, PTL

\* No receiver accepts a body larger than the cap of its tenant: PATCHes of the tenant,
\* creations and updates of receivers compare under the lock of lock_tenant_settings and
\* hold it until they commit.
THEOREM CapsHold == ASSUME QuotaGiven PROVE Spec => []CapHolds
  <1>1. (scope = "quota" => QuotaInv) => CapHolds
    BY DEF QuotaInv, CapInv, Q!CapHolds, CapHolds
  <1> QED BY <1>1, QuotaInvariant, PTL

\* Of the requests that change a cap, the tenant's or a receiver's, at most one stands
\* between its comparison and its commit.
THEOREM OneSetterCompares ==
    ASSUME QuotaGiven
    PROVE  Spec => [](scope = "quota" => \A p, q \in Requests : Checked(p) /\ Checked(q) => p = q)
  <1>1. (scope = "quota" => QuotaInv)
        => (scope = "quota" => \A p, q \in Requests : Checked(p) /\ Checked(q) => p = q)
    BY OnlyOneChecked DEF QuotaInv
  <1> QED BY <1>1, QuotaInvariant, PTL

\* A send is stored under the limits it was compared with, or found none and none was set.
LEMMA StoresWithin == ASSUME QuotaGiven, QuotaInv, [Q!Next]_Q!vars PROVE Q!StoredWithin
  <1> SUFFICES ASSUME NEW p \in Requests, request[p].op = "ingest", Q!commit(p),
                      Q!Limited(p) \/ ~changed[p]
               PROVE  /\ tenant.max_per_day # Null => Q!Count' <= tenant.max_per_day
                      /\ tenant.max_storage # Null => Q!Bytes' <= tenant.max_storage
    BY DEF Q!StoredWithin
  <1>1. CountInv(p) /\ Counted(p) /\ Summed(p)
    BY DEF QuotaInv, LimitInv, Q!commit, Counted, Summed
  <1>2. QuotaTypes /\ DataInv /\ DataInv' BY QuotaStay DEF QuotaInv, QuotaTypes
  <1>3. request[p].value \in Nat BY <1>2 DEF QuotaTypes, ShapeInv, Shaped, SendOps, Q!commit
  <1>4. PICK row : row.size = request[p].value /\ stored' = stored \cup {row}
    <2> DEFINE row == Q!New(request[p].receiver, request[p].value, request[p].id)
    <2>1. row.size = request[p].value /\ stored' = stored \cup {row} BY DEF Q!commit, Q!New
    <2> QED BY <2>1
  <1>5. ASSUME tenant.max_per_day # Null PROVE Q!Count' <= tenant.max_per_day
    <2>1. Q!Count < tenant.max_per_day BY <1>1, <1>5 DEF CountInv
    <2>2. Q!Count' <= Q!Count + 1 BY <1>2, <1>4, CountGrowsByOne
    <2>3. tenant.max_per_day \in Nat /\ Q!Count \in Nat
      BY <1>2, <1>5, CountIsNat DEF DataInv, TenantType
    <2>4. (Q!Count \in Nat)'
      <3>1. DataInv' => (Q!Count \in Nat)' BY CountIsNat, PTL
      <3> QED BY <1>2, <3>1
    <2> QED BY <2>1, <2>2, <2>3, <2>4
  <1>6. ASSUME tenant.max_storage # Null PROVE Q!Bytes' <= tenant.max_storage
    <2>1. Q!Bytes + request[p].value <= tenant.max_storage BY <1>1, <1>6 DEF CountInv
    <2>2. Q!Bytes' <= Q!Bytes + request[p].value BY <1>2, <1>3, <1>4, BytesGrow
    <2>3. Q!Bytes \in Nat /\ Q!Bytes' \in Nat BY <1>2, TotalIsBytes
    <2>4. tenant.max_storage \in Nat BY <1>2, <1>6 DEF DataInv, TenantType
    <2>5. PICK a, b, v, m : /\ a = Q!Bytes /\ b = Q!Bytes' /\ v = request[p].value
                            /\ m = tenant.max_storage
      OBVIOUS
    <2>6. /\ a \in Nat /\ b \in Nat /\ v \in Nat /\ m \in Nat
          /\ a + v <= m /\ b <= a + v
      BY <1>3, <2>1, <2>2, <2>3, <2>4, <2>5
    <2>7. b <= m BY <2>6
    <2> QED BY <2>5, <2>7
  <1> QED BY <1>5, <1>6

\* A send that is stored leaves its tenant within the notifications of a day and the bytes of
\* its storage: enforce_tenant_quotas counts and sums under the lock of the tenant, and whoever
\* inserts a notification needs a lock against it.
THEOREM QuotaIsKept == ASSUME QuotaGiven PROVE Spec => QuotaHolds
  <1>1. (scope = "quota" => QuotaInv) /\ [Next]_vars => [scope = "quota" => Q!StoredWithin]_vars
    <2> SUFFICES ASSUME scope = "quota", QuotaInv, [Next]_vars PROVE Q!StoredWithin OBVIOUS
    <2>1. [Q!Next]_Q!vars BY DEF Next, vars, ofQuota, Q!vars, Q!txVars
    <2> QED BY <2>1, StoresWithin
  <1>2. Spec => [][Next]_vars BY DEF Spec
  <1> QED BY <1>1, <1>2, QuotaInvariant, PTL DEF QuotaHolds

\* What a request that waits holds, and what it waits for, leave no circle.
LEMMA NoCircle == ASSUME QuotaGiven, QuotaInv PROVE Q!SendsNeverDeadlock
  <1>1. ASSUME QuotaInv, NEW p \in Requests, request[p] # NoRequest, Q!WaitsFor(p) # {},
               request[p].op \notin Edits
        PROVE  /\ pc[p] = "running" /\ todo[p] # <<>> /\ Shaped(request[p])
               /\ Head(todo[p]).kind = "lock" /\ ~Grip(p) /\ Q!Tenant \notin Receivers
               /\ Head(todo[p]).row = Q!Tenant => locks[p] = {}
    <2>1. /\ pc[p] = "running" /\ todo[p] # <<>> /\ Shaped(request[p])
          /\ Head(todo[p]).kind = "lock"
      <3>1. todo[p] # <<>> /\ Head(todo[p]).kind = "lock" BY <1>1 DEF Q!WaitsFor
      <3>2. pc[p] # "idle" /\ pc[p] \in {"idle", "limits", "running"} /\ Shaped(request[p])
        BY <1>1 DEF QuotaInv, QuotaTypes, ShapeInv, IdleInv, TxInv
      <3> QED BY <1>1, <3>1, <3>2 DEF QuotaInv, GripInv, GripOf
    <2>2. ASSUME Head(todo[p]) = Q!Audited, Has(p, "no_key_update") \/ Has(p, "update")
          PROVE  Q!WaitsFor(p) = {}
      <3>1. PICK mode \in {"no_key_update", "update"} : <<Q!Tenant, mode>> \in locks[p]
        BY <2>2 DEF Has
      <3>2. \A q \in Requests \ {p} : \A l \in locks[q] : l[1] = Q!Tenant => ~Q!Conflict(mode, l[2])
        BY <1>1, <3>1 DEF QuotaInv, LocksExclude
      <3> QED BY <2>2, <3>1, <3>2 DEF Q!WaitsFor, Q!Holders, Q!Audited, Q!Lock, Q!Conflict
    <2>3. Head(todo[p]).row = Q!Tenant => locks[p] = {}
      BY <1>1, <2>1, <2>2, NextLock DEF QuotaInv, QuotaGiven
    <2>4. ~Grip(p)
      <3> SUFFICES ASSUME Grip(p) PROVE FALSE OBVIOUS
      <3>1. todo[p] = <<Q!Audited>> BY <1>1, <2>1 DEF QuotaInv, GripInv, GripOf
      <3>2. Head(todo[p]).row = Q!Tenant BY <3>1 DEF Q!Audited, Q!Lock
      <3> QED BY <2>3, <3>2 DEF Grip
    <2>5. Q!Tenant \notin Receivers BY DEF QuotaGiven
    <2> QED BY <2>1, <2>3, <2>4, <2>5
  <1>2. ASSUME QuotaInv, NEW p \in Requests, NEW q \in Q!WaitsFor(p), q \in Requests,
               request[p] # NoRequest, request[p].op \notin Edits,
               request[q] # NoRequest, request[q].op \notin Edits, Q!WaitsFor(q) # {}
        PROVE  Head(todo[p]).row = Q!Tenant /\ Head(todo[q]).row # Q!Tenant
    <2>1. PICK l \in locks[q] : l[1] = Head(todo[p]).row /\ Q!Conflict(l[2], Head(todo[p]).mode)
      BY <1>2 DEF Q!WaitsFor, Q!Holders
    <2>2. ~Grip(q) /\ (Head(todo[q]).row = Q!Tenant => locks[q] = {}) BY <1>1, <1>2
    <2>3. Head(todo[p]).row # Q!Tenant => Head(todo[p]).mode \in {"key_share", "no_key_update"}
      BY <1>1, <1>2, NextLock DEF QuotaInv
    <2>4. l[1] # Q!Tenant => l[2] = "key_share" BY <2>2 DEF Grip
    <2> QED BY <2>1, <2>2, <2>3, <2>4 DEF Q!Conflict
  <1> SUFFICES ASSUME NEW circle \in SUBSET {p \in Requests : request[p] # NoRequest},
                      circle # {}, \A p \in circle : Q!WaitsFor(p) \cap circle # {},
                      \A p \in circle : request[p].op \notin Edits
               PROVE  FALSE
    BY DEF Q!SendsNeverDeadlock, Edits
  <1>3. PICK p \in circle : TRUE OBVIOUS
  <1>4. PICK q \in circle : q \in Q!WaitsFor(p) OBVIOUS
  <1>5. PICK r \in circle : r \in Q!WaitsFor(q) OBVIOUS
  <1>6. Head(todo[q]).row # Q!Tenant BY <1>2, <1>3, <1>4
  <1>7. Head(todo[q]).row = Q!Tenant BY <1>2, <1>4, <1>5
  <1> QED BY <1>6, <1>7

\* SendOps, the job of the surveillance and the requests that change a limit never wait for
\* one another in a circle, however many: the job and they lock the tenant against one
\* another before they lock a receiver, and a send locks its receiver against others last.
THEOREM SendsAreFreeOfDeadlock == ASSUME QuotaGiven PROVE Spec => []SendsNeverDeadlock
  <1>1. (scope = "quota" => QuotaInv) => SendsNeverDeadlock
    BY NoCircle DEF SendsNeverDeadlock
  <1> QED BY <1>1, QuotaInvariant, PTL

-----------------------------------------------------------------------------
(* Routing.  The invariant says what each request may rely on while others *)
(* commit: what it has written and has yet to write, whom it holds off,    *)
(* and, for an ingestion, that what it has read in three statements is the *)
(* configuration before the commit that overtook it, or the one after.     *)

\* The rows of each table, and what a committed cell may hold.
ChannelRow == [id : Nat, enabled : BOOLEAN]
BindingRow == [id : Nat, min : Severities, enabled : BOOLEAN]
OverrideRow == [id : Nat, mode : {"mute", "override"}, min : Severities \cup {Null}]
RowsOf(t) ==
    IF t = "channel" THEN ChannelRow ELSE IF t = "binding" THEN BindingRow ELSE OverrideRow
Cells(t) == RowsOf(t) \cup (IF t = "channel" THEN {NoRow, Unborn} ELSE {NoRow})

\* Some columns of a row of the table, without its id.
ColumnsOf(t) ==
    IF t = "channel" THEN {"enabled"}
    ELSE IF t = "binding" THEN {"min", "enabled"} ELSE {"mode", "min"}
Fits(t, columns) ==
    /\ DOMAIN columns \subseteq ColumnsOf(t)
    /\ "enabled" \in DOMAIN columns => columns.enabled \in BOOLEAN
    /\ "mode" \in DOMAIN columns => columns.mode \in {"mute", "override"}
    /\ "min" \in DOMAIN columns =>
          columns.min \in (IF t = "binding" THEN Severities ELSE Severities \cup {Null})

\* The operations, and the table that each changes; the deletion of a channel changes all.
Pairing == {"bind_group_channel", "create_receiver_override"}
Storing == Pairing \cup {"create_channel"}
Changing == {"update_channel", "update_group_channel_binding", "update_receiver_override"}
OnTable(op) ==
    IF op \in {"create_channel", "update_channel"} THEN "channel"
    ELSE IF op \in {"bind_group_channel", "update_group_channel_binding", "unbind_group_channel"}
         THEN "binding" ELSE "override"

RoutingOps == Storing \cup Changing \cup R!Deletions \cup {"ingest"}

\* What a request carries.
RoutingRequest(r) ==
    /\ r.op \in RoutingOps
    /\ r.id \in Nat
    /\ r.op # "ingest" => r.channel \in Channels
    /\ r.op = "ingest" => r.channel = Null
    /\ r.op \in Pairing => DOMAIN r.ask = ColumnsOf(OnTable(r.op)) /\ Fits(OnTable(r.op), r.ask)

\* What is committed refers to channels that exist.
Refer(cells, sent) ==
    \A c \in Channels : ~R!Exists(cells.channel[c]) =>
        cells.binding[c] = NoRow /\ cells.override[c] = NoRow /\ \A d \in sent : d[1] # c

\* What the theorems assume of the constants: finitely many channels, tables of the right
\* types whose rows refer to channels that exist, and marks that are none of the rows.
RoutingGiven ==
    /\ Severities \subseteq Nat /\ IsFiniteSet(Channels) /\ MaxRequests \in Nat
    /\ Null \notin Severities /\ Null \notin Channels
    /\ NoRow # Unborn /\ NoRow # Same /\ Unborn # Same
    /\ \A t \in R!Tables : NoRow \notin RowsOf(t) /\ Unborn \notin RowsOf(t) /\ Same \notin RowsOf(t)
    /\ \A op, c, ask, id : NoRequest # [op |-> op, channel |-> c, ask |-> ask, id |-> id]
    /\ \A t \in R!Tables : InitialTables[t] \in [Channels -> Cells(t)]
    /\ Refer(InitialTables, {})

IsSequence(s) == \E S : s \in Seq(S)

\* The types of the variables.
RoutingTypes ==
    /\ \A t \in R!Tables : rows[t] \in [Channels -> Cells(t)]
    /\ written \in [Requests -> [R!Tables -> [Channels ->
          {Same, NoRow} \cup ChannelRow \cup BindingRow \cup OverrideRow]]]
    /\ inserted \in [Requests -> SUBSET Channels]
    /\ DOMAIN purged = Requests /\ DOMAIN request = Requests /\ DOMAIN pc = Requests
    /\ DOMAIN todo = Requests /\ DOMAIN read = Requests
    /\ overtaken \in [Requests -> Seq(RoutingOps)]
    /\ started \in 0 .. MaxRequests

\* One of these operations has committed since the request of p has begun.
OvertakenBy(p, ops) == R!Range(overtaken[p]) \cap ops # {}

\* Where a request can stand.
PhaseOf(p) ==
    LET r == request[p]
    IN  /\ pc[p] = "idle" <=> r = NoRequest
        /\ r # NoRequest => RoutingRequest(r)
        /\ pc[p] \in {"idle", "reading", "rereading", "writing", "overrides", "channels", "refused"}
        /\ pc[p] \in {"reading", "rereading"} => r.op \in Pairing
        /\ pc[p] \in {"overrides", "channels"} => r.op = "ingest"
        /\ pc[p] # "writing" => todo[p] = <<>>
        /\ pc[p] = "idle" => inserted[p] = {}
        /\ inserted[p] # {} => r.op = "ingest"
        /\ IsSequence(todo[p])

\* A statement that the request may have planned.
Meant(r, s) ==
    /\ s.kind \in {"insert", "update", "delete", "purge"}
    /\ r.op = "ingest" => s.kind = "insert" /\ s.table = "delivery" /\ s.channel \in Channels
    /\ r.op # "ingest" => s.channel = r.channel
    /\ r.op \notin {"ingest", "delete_channel"} => s.table = OnTable(r.op) /\ s.kind # "purge"
    /\ s.kind = "insert" => r.op \in Storing \cup {"ingest"}
    /\ s.kind = "insert" /\ r.op # "ingest" => s.row \in RowsOf(s.table)
    /\ s.kind = "update" => r.op \in Pairing \cup Changing /\ Fits(s.table, s.row)
    /\ s.kind = "delete" => r.op \in R!Deletions /\ s.table \in R!Tables
    /\ s.kind = "purge" => r.op = "delete_channel" /\ s.table \in R!Pairs \cup {"delivery"}

RoutingStatements(p) == \A n \in DOMAIN todo[p] : Meant(request[p], todo[p][n])

\* What a transaction has written, each on a row of its own.
Wrote(p, t, c, w) ==
    LET r == request[p]
    IN  /\ r # NoRequest /\ r.op # "ingest" /\ c = r.channel
        /\ r.op # "delete_channel" => t = OnTable(r.op)
        /\ w = NoRow => r.op \in R!Deletions
        /\ w # NoRow =>
              /\ r.op \notin R!Deletions /\ w \in RowsOf(t)
              /\ R!Exists(rows[t][c]) => w.id = rows[t][c].id
              /\ t \in R!Pairs /\ rows[t][c] = NoRow => r.op \in Pairing
              /\ t = "channel" => rows[t][c] # NoRow

RoutingWrites(p) ==
    \A t \in R!Tables, c \in Channels :
        written[p][t][c] # Same => Wrote(p, t, c, written[p][t][c])

\* A row has one writer at a time.
RoutingOneWriter ==
    \A p, q \in Requests : p # q =>
        \A t \in R!Tables, c \in Channels : written[p][t][c] # Same => written[q][t][c] = Same

\* A channel to be created is its request's alone; any other has existed since the request
\* has begun, unless another has deleted it.
Lasts(p, c) ==
    /\ rows.channel[c] # Unborn
    /\ rows.channel[c] = NoRow => OvertakenBy(p, {"delete_channel"})

Bound(p) ==
    LET r == request[p]
    IN  r # NoRequest =>
          /\ r.op = "create_channel" =>
                /\ rows.channel[r.channel] = Unborn
                /\ \A q \in Requests \ {p} : request[q] # NoRequest => request[q].channel # r.channel
          /\ r.op \notin {"create_channel", "ingest"} => Lasts(p, r.channel)
          /\ r.op = "ingest" => \A n \in DOMAIN todo[p] : Lasts(p, todo[p][n].channel)

\* What a transaction has stored refers to a channel that is there.
Reaches(p) ==
    \A c \in Channels :
        \/ c \in inserted[p]
        \/ \E t \in R!Pairs : written[p][t][c] \notin {Same, NoRow}
        => R!Exists(rows.channel[c])

\* Nothing refers to a channel that is being deleted, and nothing will.
ChannelGoes(p) ==
    \A c \in Channels : written[p].channel[c] = NoRow =>
        /\ \A t \in R!Pairs : R!View(p, t, c) = NoRow
        /\ \A d \in deliveries \ purged[p] : d[1] # c
        /\ \A q \in Requests \ {p} :
              c \notin inserted[q] /\ \A t \in R!Pairs : written[q][t][c] = Same

\* The row that a statement names by its id.
Finds(s) == R!Exists(rows[s.table][s.channel]) /\ rows[s.table][s.channel].id = s.id

\* The deletion of a channel: its own row comes last, and before, unless another stores
\* something in between, all that refers to it.
Empties(p) ==
    LET r == request[p]
        c == r.channel
        plan == todo[p]
    IN  r # NoRequest /\ r.op = "delete_channel" /\ pc[p] = "writing" =>
          /\ \A n \in DOMAIN plan : plan[n].table = "channel" => n = Len(plan) /\ plan[n].kind = "delete"
          /\ \/ R!View(p, "channel", c) = NoRow
             \/ \E n \in DOMAIN plan : plan[n].table = "channel" /\ Finds(plan[n])
          /\ OvertakenBy(p, R!Insertions)
             \/ /\ \A t \in R!Pairs :
                      \/ R!View(p, t, c) = NoRow
                      \/ \E n \in DOMAIN plan :
                            /\ plan[n].table = t
                            /\ plan[n].kind = "purge" \/ (plan[n].kind = "delete" /\ Finds(plan[n]))
                /\ \/ \A d \in deliveries \ purged[p] : d[1] # c
                   \/ \E n \in DOMAIN plan : plan[n].table = "delivery"

\* A request that does not find its row has been overtaken by a deletion.
Justified(p) ==
    LET r == request[p]
        gone == OvertakenBy(p, R!Deletions)
    IN  /\ \A n \in DOMAIN todo[p] : todo[p][n].kind = "update" => Finds(todo[p][n]) \/ gone
        /\ pc[p] = "rereading" => rows[OnTable(r.op)][r.channel] # NoRow \/ gone
        /\ pc[p] = "refused" =>
              \/ IF r.op = "delete_channel" THEN OvertakenBy(p, R!Insertions) ELSE gone
              \/ r.op = "ingest" /\ R!Unusable(read[p].bindings, read[p].overrides)

\* What an ingestion has read, and the channels that it would choose.
Chooses(p) ==
    LET s == read[p]
        overrides == IF pc[p] = "channels" THEN s.overrides ELSE rows.override
    IN  pc[p] \in {"overrides", "channels"} =>
          /\ DOMAIN s = {"bindings", "overrides", "targets", "before"}
          /\ DOMAIN s.bindings \subseteq Channels
          /\ overtaken[p] = <<>> =>
                /\ s.bindings = R!EnabledBindings /\ s.before = R!Configured(request[p].ask)
                /\ overrides = rows.override
          /\ Len(overtaken[p]) = 1 /\ ~R!Unusable(s.bindings, overrides) =>
                R!select_target_channels(s.bindings, overrides, rows.channel, request[p].ask)
                    \in {s.before, R!Configured(request[p].ask)}

Routes(p) ==
    /\ PhaseOf(p) /\ RoutingStatements(p) /\ RoutingWrites(p) /\ Bound(p) /\ Reaches(p)
    /\ ChannelGoes(p) /\ Empties(p) /\ Justified(p) /\ Chooses(p)

RoutingInv ==
    /\ RoutingTypes /\ RoutingOneWriter /\ Refer(rows, deliveries)
    /\ \A p \in Requests : Routes(p)

-----------------------------------------------------------------------------
\* A plan without its first statement, and one with a statement in front.
LEMMA PlanRest ==
    ASSUME NEW s, IsSequence(s), s # <<>>
    PROVE  /\ IsSequence(Tail(s)) /\ Len(s) \in Nat /\ DOMAIN s = 1 .. Len(s) /\ 1 \in DOMAIN s
           /\ Len(Tail(s)) = Len(s) - 1 /\ Head(s) = s[1]
           /\ DOMAIN Tail(s) = 1 .. (Len(s) - 1)
           /\ \A n \in DOMAIN Tail(s) : n + 1 \in DOMAIN s /\ Tail(s)[n] = s[n + 1]
           /\ \A n \in DOMAIN s : n # 1 => n - 1 \in DOMAIN Tail(s) /\ Tail(s)[n - 1] = s[n]
  <1>1. PICK S : s \in Seq(S) BY DEF IsSequence
  <1>2. Tail(s) \in Seq(S) BY <1>1
  <1> QED BY <1>1, <1>2 DEF IsSequence

LEMMA PlanBefore ==
    ASSUME NEW s, IsSequence(s), s # <<>>, NEW e
    PROVE  LET plan == <<e>> \o Tail(s)
           IN  /\ IsSequence(plan) /\ DOMAIN plan = 1 .. Len(s) /\ Len(plan) = Len(s)
               /\ 1 \in DOMAIN plan /\ plan[1] = e
               /\ \A n \in DOMAIN plan : n # 1 => n \in DOMAIN s /\ plan[n] = s[n]
               /\ \A n \in DOMAIN s : n # 1 => n \in DOMAIN plan /\ plan[n] = s[n]
  <1>1. PICK S : s \in Seq(S) BY DEF IsSequence
  <1>2. PICK T : T = S \cup {e} OBVIOUS
  <1>3. s \in Seq(T) BY <1>1, <1>2
  <1>4. Tail(s) \in Seq(T) /\ <<e>> \in Seq(T) BY <1>1, <1>2, <1>3
  <1>5. <<e>> \o Tail(s) \in Seq(T) BY <1>4
  <1> QED BY <1>1, <1>3, <1>4, <1>5 DEF IsSequence

\* A row with some of its columns set is still one, with the same id.
LEMMA UpdatedRow ==
    ASSUME NEW t \in R!Tables, NEW row \in RowsOf(t), NEW columns, Fits(t, columns)
    PROVE  R!Updated(row, columns) \in RowsOf(t) /\ R!Updated(row, columns).id = row.id
  <1>1. CASE t = "channel"
    BY <1>1 DEF RowsOf, ChannelRow, R!Updated, Fits, ColumnsOf
  <1>2. CASE t = "binding"
    BY <1>2 DEF RowsOf, BindingRow, R!Updated, Fits, ColumnsOf
  <1>3. CASE t = "override"
    BY <1>3 DEF RowsOf, OverrideRow, R!Updated, Fits, ColumnsOf
  <1> QED BY <1>1, <1>2, <1>3 DEF R!Tables

LEMMA RowWithId ==
    ASSUME NEW t \in R!Tables, NEW columns, Fits(t, columns), DOMAIN columns = ColumnsOf(t),
           NEW id \in Nat
    PROVE  R!WithId(id, columns) \in RowsOf(t) /\ R!WithId(id, columns).id = id
  <1>1. CASE t = "channel"
    BY <1>1 DEF RowsOf, ChannelRow, R!WithId, Fits, ColumnsOf
  <1>2. CASE t = "binding"
    BY <1>2 DEF RowsOf, BindingRow, R!WithId, Fits, ColumnsOf
  <1>3. CASE t = "override"
    BY <1>3 DEF RowsOf, OverrideRow, R!WithId, Fits, ColumnsOf
  <1> QED BY <1>1, <1>2, <1>3 DEF R!Tables

\* A flush is an update of the row that was read, or nothing.
LEMMA Flushed ==
    ASSUME NEW t \in R!Tables, NEW c, NEW row, NEW ask, Fits(t, ask)
    PROVE  LET plan == R!Flush(t, c, row, ask)
           IN  /\ IsSequence(plan)
               /\ \A n \in DOMAIN plan :
                     /\ plan[n].kind = "update" /\ plan[n].table = t /\ plan[n].channel = c
                     /\ plan[n].id = row.id /\ Fits(t, plan[n].row)
  <1> DEFINE touched == {f \in DOMAIN ask : ask[f] # row[f]}
             columns == [f \in touched |-> ask[f]]
             s == R!Update(t, c, row.id, columns)
  <1>1. Fits(t, columns) BY DEF Fits
  <1>2. CASE touched = {}
    <2>1. R!Flush(t, c, row, ask) = <<>> BY <1>2 DEF R!Flush
    <2> QED BY <2>1 DEF IsSequence
  <1>3. CASE touched # {}
    <2>1. R!Flush(t, c, row, ask) = <<s>> BY <1>3 DEF R!Flush
    <2>2. <<s>> \in Seq({s}) /\ DOMAIN <<s>> = {1} /\ <<s>>[1] = s OBVIOUS
    <2>3. s.kind = "update" /\ s.table = t /\ s.channel = c /\ s.id = row.id /\ s.row = columns
      BY DEF R!Update
    <2> QED BY <1>1, <2>1, <2>2, <2>3 DEF IsSequence
  <1> QED BY <1>2, <1>3

-----------------------------------------------------------------------------
\* The step of a request leaves the others alone...
Others(p) ==
    \A q \in Requests \ {p} :
        /\ written'[q] = written[q] /\ inserted'[q] = inserted[q] /\ purged'[q] = purged[q]
        /\ request'[q] = request[q] /\ pc'[q] = pc[q] /\ todo'[q] = todo[q] /\ read'[q] = read[q]
        /\ overtaken'[q] = overtaken[q]

\* ... and keeps away from a channel that another deletes or creates.
KeepsAway(p) ==
    \A q \in Requests \ {p} :
        /\ \A c \in Channels : written[q].channel[c] = NoRow =>
              c \notin inserted'[p] /\ \A t \in R!Pairs : written'[p][t][c] = Same
        /\ request[q] # NoRequest /\ request[q].op = "create_channel" /\ request'[p] # NoRequest =>
              request'[p].channel # request[q].channel

LEMMA SameConfiguration ==
    ASSUME rows' = rows
    PROVE  /\ R!EnabledBindings' = R!EnabledBindings
           /\ \A severity : R!Configured(severity)' = R!Configured(severity)
  BY DEF R!EnabledBindings, R!Configured, R!Wanted

LEMMA RoutesOfOthers ==
    ASSUME RoutingInv, NEW p \in Requests, NEW q \in Requests, q # p,
           rows' = rows, deliveries' = deliveries, Others(p), KeepsAway(p)
    PROVE  Routes(q)'
  <1> Routes(q) BY DEF RoutingInv
  <1>1. /\ written'[q] = written[q] /\ inserted'[q] = inserted[q] /\ purged'[q] = purged[q]
        /\ request'[q] = request[q] /\ pc'[q] = pc[q] /\ todo'[q] = todo[q] /\ read'[q] = read[q]
        /\ overtaken'[q] = overtaken[q]
    BY DEF Others
  <1>2. PhaseOf(q)' BY <1>1 DEF Routes, PhaseOf
  <1>3. RoutingStatements(q)' BY <1>1 DEF Routes, RoutingStatements
  <1>4. RoutingWrites(q)' BY <1>1 DEF Routes, RoutingWrites, Wrote
  <1>5. Bound(q)'
    <2>1. \A c : Lasts(q, c)' <=> Lasts(q, c) BY <1>1 DEF Lasts, OvertakenBy, R!Range
    <2>2. Bound(q) BY DEF Routes
    <2>3. \A o \in Requests \ {q, p} : request'[o] = request[o] BY DEF Others
    <2> QED BY <1>1, <2>1, <2>2, <2>3 DEF Bound, KeepsAway
  <1>6. Reaches(q)' BY <1>1 DEF Routes, Reaches
  <1>7. ChannelGoes(q)'
    <2>1. \A t, c : R!View(q, t, c)' = R!View(q, t, c) BY <1>1 DEF R!View
    <2>2. \A o \in Requests \ {q, p} : written'[o] = written[o] /\ inserted'[o] = inserted[o]
      BY DEF Others
    <2> QED BY <1>1, <2>1, <2>2 DEF Routes, ChannelGoes, KeepsAway
  <1>8. Empties(q)'
    <2>1. \A t, c : R!View(q, t, c)' = R!View(q, t, c) BY <1>1 DEF R!View
    <2>2. \A s : Finds(s)' <=> Finds(s) BY DEF Finds
    <2>3. \A ops : OvertakenBy(q, ops)' <=> OvertakenBy(q, ops) BY <1>1 DEF OvertakenBy, R!Range
    <2>4. Empties(q) BY DEF Routes
    <2> QED BY <1>1, <2>1, <2>2, <2>3, <2>4 DEF Empties
  <1>9. Justified(q)'
    <2>2. \A s : Finds(s)' <=> Finds(s) BY DEF Finds
    <2>3. \A ops : OvertakenBy(q, ops)' <=> OvertakenBy(q, ops) BY <1>1 DEF OvertakenBy, R!Range
    <2>4. Justified(q) BY DEF Routes
    <2> QED BY <1>1, <2>2, <2>3, <2>4 DEF Justified
  <1>10. Chooses(q)'
    <2>4. Chooses(q) BY DEF Routes
    <2> QED BY <1>1, <2>4, SameConfiguration DEF Chooses
  <1> QED BY <1>2, <1>3, <1>4, <1>5, <1>6, <1>7, <1>8, <1>9, <1>10 DEF Routes

\* A step that commits nothing.
LEMMA RoutingStep ==
    ASSUME RoutingInv, NEW p \in Requests, rows' = rows, deliveries' = deliveries,
           Others(p), KeepsAway(p), RoutingTypes', Routes(p)',
           \A q \in Requests \ {p}, t \in R!Tables, c \in Channels :
               written'[p][t][c] # Same => written[q][t][c] = Same
    PROVE  RoutingInv'
  <1>1. Refer(rows, deliveries)' BY DEF RoutingInv, Refer
  <1>2. RoutingOneWriter'
    <2> SUFFICES ASSUME NEW a \in Requests, NEW b \in Requests, a # b, NEW t \in R!Tables,
                        NEW c \in Channels, written'[a][t][c] # Same
                 PROVE  written'[b][t][c] = Same
      BY DEF RoutingOneWriter
    <2>1. \A q \in Requests \ {p} : written'[q] = written[q] BY DEF Others
    <2>2. \A u, v \in Requests : u # v /\ written[u][t][c] # Same => written[v][t][c] = Same
      BY DEF RoutingInv, RoutingOneWriter
    <2> QED BY <2>1, <2>2
  <1>3. \A q \in Requests : Routes(q)'
    <2> SUFFICES ASSUME NEW q \in Requests, q # p PROVE Routes(q)' OBVIOUS
    <2> QED BY RoutesOfOthers
  <1> QED BY <1>1, <1>2, <1>3 DEF RoutingInv

\* A step that changes only where the request stands and what it has read.
LEMMA RoutingMove ==
    ASSUME RoutingInv, NEW p \in Requests,
           UNCHANGED <<rows, deliveries, written, inserted, purged, request, overtaken, started>>,
           \A q \in Requests \ {p} : pc'[q] = pc[q] /\ todo'[q] = todo[q] /\ read'[q] = read[q],
           DOMAIN pc' = Requests, DOMAIN todo' = Requests, DOMAIN read' = Requests,
           PhaseOf(p)', RoutingStatements(p)', Empties(p)', Justified(p)', Chooses(p)',
           request[p].op = "ingest" => \A n \in DOMAIN todo'[p] : Lasts(p, todo'[p][n].channel)
    PROVE  RoutingInv'
  <1> Routes(p) BY DEF RoutingInv
  <1>1. Others(p) BY DEF Others
  <1>2. KeepsAway(p)
    <2> SUFFICES ASSUME NEW q \in Requests \ {p} 
                 PROVE  /\ \A c \in Channels : written[q].channel[c] = NoRow =>
                            c \notin inserted[p] /\ \A t \in R!Pairs : written[p][t][c] = Same
                        /\ request[q] # NoRequest /\ request[q].op = "create_channel" /\ request[p] # NoRequest =>
                            request[p].channel # request[q].channel
      BY DEF KeepsAway
    <2>1. ChannelGoes(q) /\ Bound(q) BY DEF RoutingInv, Routes
    <2> QED BY <2>1 DEF ChannelGoes, Bound
  <1>3. RoutingTypes' BY DEF RoutingInv, RoutingTypes
  <1>4. RoutingWrites(p)' BY DEF Routes, RoutingWrites, Wrote
  <1>5. Bound(p)'
    <2>1. \A c : Lasts(p, c)' <=> Lasts(p, c) BY DEF Lasts, OvertakenBy, R!Range
    <2>2. Bound(p) BY DEF Routes
    <2> QED BY <2>1, <2>2 DEF Bound
  <1>6. Reaches(p)' BY DEF Routes, Reaches
  <1>7. ChannelGoes(p)' BY DEF Routes, ChannelGoes, R!View
  <1>8. Routes(p)' BY <1>4, <1>5, <1>6, <1>7 DEF Routes
  <1>9. \A q \in Requests \ {p}, t \in R!Tables, c \in Channels :
            written'[p][t][c] # Same => written[q][t][c] = Same
    BY DEF RoutingInv, RoutingOneWriter
  <1> QED BY <1>1, <1>2, <1>3, <1>8, <1>9, RoutingStep

-----------------------------------------------------------------------------
\* A request that arrives.
LEMMA RoutingBegin ==
    ASSUME RoutingGiven, RoutingInv, NEW p \in Requests, NEW op, NEW c, NEW ask, NEW place, NEW plan,
           R!Begin(p, op, c, ask, place, plan),
           NEW r, r = [op |-> op, channel |-> c, ask |-> ask, id |-> started + 1],
           DOMAIN read' = Requests, \A q \in Requests \ {p} : read'[q] = read[q],
           RoutingRequest(r),
           op = "create_channel" =>
               /\ rows.channel[c] = Unborn
               /\ \A q \in Requests : request[q] # NoRequest => request[q].channel # c,
           op \notin {"create_channel", "ingest"} => R!Exists(rows.channel[c]),
           op = "ingest" => plan = <<>>,
           place \in {"reading", "writing", "overrides"},
           place = "reading" => op \in Pairing, place = "overrides" => op = "ingest",
           place # "writing" => plan = <<>>, IsSequence(plan),
           \A n \in DOMAIN plan : Meant(r, plan[n]) /\ (plan[n].kind = "update" => Finds(plan[n])),
           Empties(p)', Chooses(p)'
    PROVE  RoutingInv'
  <1> Routes(p) BY DEF RoutingInv
  <1>1. /\ pc[p] = "idle" /\ started < MaxRequests /\ started' = started + 1
        /\ rows' = rows /\ deliveries' = deliveries /\ written' = written
        /\ inserted' = inserted /\ purged' = purged
        /\ DOMAIN request' = Requests /\ DOMAIN overtaken' = Requests
        /\ DOMAIN pc' = Requests /\ DOMAIN todo' = Requests
        /\ request'[p] = r /\ overtaken'[p] = <<>> /\ pc'[p] = place /\ todo'[p] = plan
        /\ \A q \in Requests \ {p} :
              /\ request'[q] = request[q] /\ overtaken'[q] = overtaken[q]
              /\ pc'[q] = pc[q] /\ todo'[q] = todo[q]
    BY DEF R!Begin, R!Go, RoutingInv, RoutingTypes
  <1>2. Others(p) BY <1>1 DEF Others
  <1>3. /\ r # NoRequest /\ request[p] = NoRequest /\ inserted[p] = {}
        /\ \A t \in R!Tables, d \in Channels : written[p][t][d] = Same
    BY <1>1 DEF RoutingGiven, Routes, PhaseOf, RoutingWrites, Wrote
  <1>4. KeepsAway(p)
    <2> SUFFICES ASSUME NEW q \in Requests \ {p}, request[q] # NoRequest,
                        request[q].op = "create_channel"
                 PROVE  c # request[q].channel
      BY <1>1, <1>3 DEF KeepsAway, R!Tables, R!Pairs
    <2>1. Bound(q) /\ PhaseOf(q) BY DEF RoutingInv, Routes
    <2>2. rows.channel[request[q].channel] = Unborn /\ request[q].channel \in Channels
      BY <2>1 DEF Bound, PhaseOf, RoutingRequest
    <2>3. CASE op = "ingest" BY <2>2, <2>3 DEF RoutingGiven, RoutingRequest
    <2>4. CASE op = "create_channel" BY <2>4
    <2>5. CASE op \notin {"create_channel", "ingest"} BY <2>2, <2>5 DEF R!Exists
    <2> QED BY <2>3, <2>4, <2>5
  <1>5. RoutingTypes'
    <2>1. overtaken' \in [Requests -> Seq(RoutingOps)]
      <3>2. overtaken' = [overtaken EXCEPT ![p] = <<>>] BY DEF R!Begin
      <3>3. <<>> \in Seq(RoutingOps) OBVIOUS
      <3> QED BY <3>2, <3>3 DEF RoutingInv, RoutingTypes
    <2>2. started' \in 0 .. MaxRequests BY <1>1 DEF RoutingInv, RoutingTypes, RoutingGiven
    <2> QED BY <1>1, <2>1, <2>2 DEF RoutingInv, RoutingTypes
  <1>6. PhaseOf(p)'
    BY <1>1, <1>3 DEF PhaseOf
  <1>7. RoutingStatements(p)' BY <1>1 DEF RoutingStatements
  <1>8. RoutingWrites(p)' BY <1>1, <1>3 DEF RoutingWrites
  <1>9. Bound(p)'
    <2>1. op \notin {"create_channel", "ingest"} => Lasts(p, c)' BY <1>1 DEF Lasts, R!Exists
    <2>2. r.op = op /\ r.channel = c OBVIOUS
    <2>3. op = "ingest" => DOMAIN todo'[p] = {} BY <1>1
    <2> QED BY <1>1, <2>1, <2>2, <2>3 DEF Bound
  <1>10. Reaches(p)' BY <1>1, <1>3 DEF Reaches, R!Pairs, R!Tables
  <1>11. ChannelGoes(p)'
    <2>1. \A d \in Channels : written'[p].channel[d] = Same BY <1>1, <1>3 DEF R!Tables
    <2> QED BY <2>1 DEF ChannelGoes, RoutingGiven
  <1>12. Justified(p)'
    <2>1. \A s : Finds(s)' <=> Finds(s) BY <1>1 DEF Finds
    <2> QED BY <1>1, <2>1 DEF Justified
  <1>13. Routes(p)' BY <1>6, <1>7, <1>8, <1>9, <1>10, <1>11, <1>12 DEF Routes
  <1>14. \A q \in Requests \ {p}, t \in R!Tables, d \in Channels :
             written'[p][t][d] # Same => written[q][t][d] = Same
    BY <1>1, <1>3
  <1> QED BY <1>1, <1>2, <1>4, <1>5, <1>13, <1>14, RoutingStep

LEMMA PlanOne ==
    ASSUME NEW e
    PROVE  IsSequence(<<e>>) /\ DOMAIN <<e>> = {1} /\ <<e>>[1] = e /\ Len(<<e>>) = 1
  <1>1. <<e>> \in Seq({e}) /\ DOMAIN <<e>> = {1} /\ <<e>>[1] = e /\ Len(<<e>>) = 1 OBVIOUS
  <1>2. IsSequence(<<e>>) BY <1>1 DEF IsSequence
  <1> QED BY <1>1, <1>2

LEMMA PlanNone == IsSequence(<<>>) /\ DOMAIN <<>> = {} /\ Len(<<>>) = 0
  <1>1. <<>> \in Seq({1}) /\ DOMAIN <<>> = {} /\ Len(<<>>) = 0 OBVIOUS
  <1>2. IsSequence(<<>>) BY <1>1 DEF IsSequence
  <1> QED BY <1>1, <1>2

\* The arrival of a request that is neither an ingestion nor the deletion of a channel.
LEMMA RoutingArrives ==
    ASSUME RoutingGiven, RoutingInv, NEW p \in Requests, NEW op, NEW c \in Channels, NEW ask,
           NEW place, NEW plan,
           R!Begin(p, op, c, ask, place, plan), read' = read,
           NEW r, r = [op |-> op, channel |-> c, ask |-> ask, id |-> started + 1],
           op \in Storing \cup Changing \cup {"unbind_group_channel", "delete_receiver_override"},
           op \in Pairing => DOMAIN ask = ColumnsOf(OnTable(op)) /\ Fits(OnTable(op), ask),
           op = "create_channel" =>
               /\ rows.channel[c] = Unborn
               /\ \A q \in Requests : request[q] # NoRequest => request[q].channel # c,
           op # "create_channel" => R!Exists(rows.channel[c]),
           place = IF op \in Pairing THEN "reading" ELSE "writing",
           place = "reading" => plan = <<>>, IsSequence(plan),
           \A n \in DOMAIN plan : Meant(r, plan[n]) /\ (plan[n].kind = "update" => Finds(plan[n]))
    PROVE  RoutingInv'
  <1>1. started + 1 \in Nat BY DEF RoutingInv, RoutingTypes, RoutingGiven
  <1>2. RoutingRequest(r)
    BY <1>1 DEF RoutingRequest, RoutingOps, Storing, Changing, Pairing, R!Deletions
  <1>3. /\ request'[p] = r /\ pc'[p] = place
    BY DEF R!Begin, R!Go, RoutingInv, RoutingTypes
  <1>4. Empties(p)' BY <1>3 DEF Empties, Storing, Changing, Pairing
  <1>5. Chooses(p)' BY <1>3 DEF Chooses
  <1>6. DOMAIN read' = Requests BY DEF RoutingInv, RoutingTypes
  <1>7. op # "ingest" BY DEF Storing, Changing, Pairing
  <1> QED BY <1>2, <1>4, <1>5, <1>6, <1>7, RoutingBegin

\* Rows that exist, and to what they refer.
LEMMA RowsThere ==
    ASSUME RoutingGiven, RoutingInv, NEW c \in Channels
    PROVE  /\ R!Exists(rows.channel[c]) => rows.channel[c] \in ChannelRow
           /\ rows.binding[c] # NoRow =>
                 rows.binding[c] \in BindingRow /\ R!Exists(rows.binding[c]) /\ R!Exists(rows.channel[c])
           /\ rows.override[c] # NoRow =>
                 rows.override[c] \in OverrideRow /\ R!Exists(rows.override[c]) /\ R!Exists(rows.channel[c])
  <1>1. rows.channel[c] \in Cells("channel") /\ rows.binding[c] \in Cells("binding")
        /\ rows.override[c] \in Cells("override")
    BY DEF RoutingInv, RoutingTypes, R!Tables
  <1>2. Unborn \notin RowsOf("binding") /\ Unborn \notin RowsOf("override") /\ NoRow # Unborn
    BY DEF RoutingGiven, R!Tables
  <1> QED BY <1>1, <1>2 DEF Cells, RowsOf, R!Exists, RoutingInv, Refer

LEMMA RoutingOnChannels ==
    ASSUME RoutingGiven, RoutingInv, NEW p \in Requests, NEW c \in Channels,
           NEW enabled \in BOOLEAN,
           R!create_channel(p, c, enabled) \/ R!update_channel(p, c, enabled)
    PROVE  RoutingInv'
  <1>0. started + 1 \in Nat BY DEF RoutingInv, RoutingTypes, RoutingGiven
  <1>1. CASE R!create_channel(p, c, enabled)
    <2> DEFINE row == [id |-> started + 1, enabled |-> enabled]
               s == R!Insert("channel", c, row)
               r == [op |-> "create_channel", channel |-> c, ask |-> Null, id |-> started + 1]
    <2>1. Meant(r, s) /\ s.kind # "update"
      BY <1>0 DEF Meant, R!Insert, Storing, OnTable, RowsOf, ChannelRow
    <2>2. IsSequence(<<s>>) /\ DOMAIN <<s>> = {1} /\ <<s>>[1] = s BY PlanOne
    <2>3. /\ R!Begin(p, "create_channel", c, Null, "writing", <<s>>) /\ read' = read
          /\ rows.channel[c] = Unborn
          /\ \A q \in Requests : request[q] # NoRequest => request[q].channel # c
      BY <1>1 DEF R!create_channel
    <2> HIDE DEF s
    <2> QED BY <2>1, <2>2, <2>3, RoutingArrives DEF Storing, Pairing
  <1>2. CASE R!update_channel(p, c, enabled)
    <2> DEFINE row == rows.channel[c]
               plan == R!Flush("channel", c, row, [enabled |-> enabled])
               r == [op |-> "update_channel", channel |-> c, ask |-> Null, id |-> started + 1]
    <2>1. Fits("channel", [enabled |-> enabled]) BY DEF Fits, ColumnsOf
    <2>2. /\ IsSequence(plan)
          /\ \A n \in DOMAIN plan :
                /\ plan[n].kind = "update" /\ plan[n].table = "channel" /\ plan[n].channel = c
                /\ plan[n].id = row.id /\ Fits("channel", plan[n].row)
      BY <2>1, Flushed DEF R!Tables
    <2>3. R!Exists(rows.channel[c]) /\ R!Begin(p, "update_channel", c, Null, "writing", plan) /\ read' = read
      BY <1>2 DEF R!update_channel
    <2> HIDE DEF plan
    <2>4. \A n \in DOMAIN plan : Meant(r, plan[n]) /\ Finds(plan[n])
      BY <2>2, <2>3 DEF Meant, Finds, Changing, Pairing, OnTable
    <2> QED BY <2>2, <2>3, <2>4, RoutingArrives DEF Changing, Storing, Pairing
  <1> QED BY <1>1, <1>2

LEMMA RoutingOnBindings ==
    ASSUME RoutingGiven, RoutingInv, NEW p \in Requests, R!OnBindings(p)
    PROVE  RoutingInv'
  <1> PICK c \in Channels :
        \/ \E min \in Severities, enabled \in BOOLEAN : R!bind_group_channel(p, c, min, enabled)
        \/ \E min \in Severities \cup {Null}, enabled \in BOOLEAN \cup {Null} :
               R!update_group_channel_binding(p, c, min, enabled)
        \/ R!unbind_group_channel(p, c)
    BY DEF R!OnBindings
  <1>1. ASSUME NEW min \in Severities, NEW enabled \in BOOLEAN, R!bind_group_channel(p, c, min, enabled)
        PROVE  RoutingInv'
    <2> DEFINE ask == [min |-> min, enabled |-> enabled]
    <2>1. /\ R!Begin(p, "bind_group_channel", c, ask, "reading", <<>>) /\ read' = read
          /\ R!Exists(rows.channel[c])
      BY <1>1 DEF R!bind_group_channel
    <2>2. DOMAIN ask = ColumnsOf("binding") /\ Fits("binding", ask) BY DEF Fits, ColumnsOf
    <2>3. OnTable("bind_group_channel") = "binding" BY DEF OnTable
    <2> HIDE DEF ask
    <2>4. PICK r : r = [op |-> "bind_group_channel", channel |-> c, ask |-> ask, id |-> started + 1]
      OBVIOUS
    <2> QED BY <2>1, <2>2, <2>3, <2>4, PlanNone, RoutingArrives DEF Storing, Pairing
  <1>2. ASSUME NEW min \in Severities \cup {Null}, NEW enabled \in BOOLEAN \cup {Null},
               R!update_group_channel_binding(p, c, min, enabled)
        PROVE  RoutingInv'
    <2> DEFINE row == rows.binding[c]
               ask == [min |-> IF min = Null THEN row.min ELSE min,
                       enabled |-> IF enabled = Null THEN row.enabled ELSE enabled]
               plan == R!Flush("binding", c, row, ask)
               r == [op |-> "update_group_channel_binding", channel |-> c, ask |-> Null,
                     id |-> started + 1]
    <2>1. row # NoRow /\ R!Begin(p, "update_group_channel_binding", c, Null, "writing", plan)
          /\ read' = read
      BY <1>2 DEF R!update_group_channel_binding
    <2>2. row \in BindingRow /\ R!Exists(row) /\ R!Exists(rows.channel[c]) BY <2>1, RowsThere
    <2>3. Fits("binding", ask) BY <2>2 DEF Fits, ColumnsOf, BindingRow
    <2>4. /\ IsSequence(plan)
          /\ \A n \in DOMAIN plan :
                /\ plan[n].kind = "update" /\ plan[n].table = "binding" /\ plan[n].channel = c
                /\ plan[n].id = row.id /\ Fits("binding", plan[n].row)
      BY <2>3, Flushed DEF R!Tables
    <2> HIDE DEF plan
    <2>5. \A n \in DOMAIN plan : Meant(r, plan[n]) /\ Finds(plan[n])
      BY <2>2, <2>4 DEF Meant, Finds, Changing, Pairing, OnTable
    <2> QED BY <2>1, <2>2, <2>4, <2>5, RoutingArrives DEF Changing, Storing, Pairing
  <1>3. CASE R!unbind_group_channel(p, c)
    <2> DEFINE s == R!Delete("binding", c, rows.binding[c].id)
               r == [op |-> "unbind_group_channel", channel |-> c, ask |-> Null, id |-> started + 1]
    <2>1. rows.binding[c] # NoRow /\ R!Begin(p, "unbind_group_channel", c, Null, "writing", <<s>>)
          /\ read' = read
      BY <1>3 DEF R!unbind_group_channel
    <2>2. R!Exists(rows.channel[c]) BY <2>1, RowsThere
    <2>3. Meant(r, s) /\ s.kind # "update" BY DEF Meant, R!Delete, OnTable, R!Deletions, R!Tables
    <2>4. IsSequence(<<s>>) /\ DOMAIN <<s>> = {1} /\ <<s>>[1] = s BY PlanOne
    <2> HIDE DEF s
    <2> QED BY <2>1, <2>2, <2>3, <2>4, RoutingArrives DEF Storing, Pairing
  <1> QED BY <1>1, <1>2, <1>3

LEMMA RoutingOnOverrides ==
    ASSUME RoutingGiven, RoutingInv, NEW p \in Requests, R!OnOverrides(p)
    PROVE  RoutingInv'
  <1> PICK c \in Channels :
        \/ \E mode \in {"mute", "override"}, min \in Severities \cup {Null} :
               R!create_receiver_override(p, c, mode, min)
        \/ \E mode \in {"mute", "override", Null}, min \in Severities \cup {Null} :
               R!update_receiver_override(p, c, mode, min)
        \/ R!delete_receiver_override(p, c)
    BY DEF R!OnOverrides
  <1>1. ASSUME NEW mode \in {"mute", "override"}, NEW min \in Severities \cup {Null},
               R!create_receiver_override(p, c, mode, min)
        PROVE  RoutingInv'
    <2> DEFINE ask == [mode |-> mode, min |-> R!_override_min_severity(mode, min)]
    <2>1. /\ R!Begin(p, "create_receiver_override", c, ask, "reading", <<>>) /\ read' = read
          /\ R!Exists(rows.channel[c])
      BY <1>1 DEF R!create_receiver_override
    <2>2. DOMAIN ask = ColumnsOf("override") /\ Fits("override", ask)
      BY DEF Fits, ColumnsOf, R!_override_min_severity
    <2>3. OnTable("create_receiver_override") = "override" BY DEF OnTable
    <2> HIDE DEF ask
    <2>4. PICK r : r = [op |-> "create_receiver_override", channel |-> c, ask |-> ask, id |-> started + 1]
      OBVIOUS
    <2> QED BY <2>1, <2>2, <2>3, <2>4, PlanNone, RoutingArrives DEF Storing, Pairing
  <1>2. ASSUME NEW mode \in {"mute", "override", Null}, NEW min \in Severities \cup {Null},
               R!update_receiver_override(p, c, mode, min)
        PROVE  RoutingInv'
    <2> DEFINE row == rows.override[c]
               new == IF mode = Null THEN row.mode ELSE mode
               limit == IF min = Null THEN row.min ELSE min
               ask == [mode |-> new, min |-> R!_override_min_severity(new, limit)]
               plan == R!Flush("override", c, row, ask)
               r == [op |-> "update_receiver_override", channel |-> c, ask |-> Null,
                     id |-> started + 1]
    <2>1. row # NoRow /\ R!Begin(p, "update_receiver_override", c, Null, "writing", plan)
          /\ read' = read
      BY <1>2 DEF R!update_receiver_override
    <2>2. row \in OverrideRow /\ R!Exists(row) /\ R!Exists(rows.channel[c]) BY <2>1, RowsThere
    <2>3. Fits("override", ask) BY <2>2 DEF Fits, ColumnsOf, OverrideRow, R!_override_min_severity
    <2>4. /\ IsSequence(plan)
          /\ \A n \in DOMAIN plan :
                /\ plan[n].kind = "update" /\ plan[n].table = "override" /\ plan[n].channel = c
                /\ plan[n].id = row.id /\ Fits("override", plan[n].row)
      BY <2>3, Flushed DEF R!Tables
    <2> HIDE DEF plan
    <2>5. \A n \in DOMAIN plan : Meant(r, plan[n]) /\ Finds(plan[n])
      BY <2>2, <2>4 DEF Meant, Finds, Changing, Pairing, OnTable
    <2> QED BY <2>1, <2>2, <2>4, <2>5, RoutingArrives DEF Changing, Storing, Pairing
  <1>3. CASE R!delete_receiver_override(p, c)
    <2> DEFINE s == R!Delete("override", c, rows.override[c].id)
               r == [op |-> "delete_receiver_override", channel |-> c, ask |-> Null,
                     id |-> started + 1]
    <2>1. rows.override[c] # NoRow /\ R!Begin(p, "delete_receiver_override", c, Null, "writing", <<s>>)
          /\ read' = read
      BY <1>3 DEF R!delete_receiver_override
    <2>2. R!Exists(rows.channel[c]) BY <2>1, RowsThere
    <2>3. Meant(r, s) /\ s.kind # "update" BY DEF Meant, R!Delete, OnTable, R!Deletions, R!Tables
    <2>4. IsSequence(<<s>>) /\ DOMAIN <<s>> = {1} /\ <<s>>[1] = s BY PlanOne
    <2> HIDE DEF s
    <2> QED BY <2>1, <2>2, <2>3, <2>4, RoutingArrives DEF Storing, Pairing
  <1> QED BY <1>1, <1>2, <1>3

LEMMA RoutingDeletesChannel ==
    ASSUME RoutingGiven, RoutingInv, NEW p \in Requests, NEW c \in Channels, R!delete_channel(p, c)
    PROVE  RoutingInv'
  <1> DEFINE row == rows.channel[c]
             s == R!Delete("channel", c, row.id)
             four == <<R!Purge("binding", c), R!Purge("override", c), R!Purge("delivery", c), s>>
             r == [op |-> "delete_channel", channel |-> c, ask |-> Null, id |-> started + 1]
  <1>1. R!Exists(row) /\ R!Begin(p, "delete_channel", c, Null, "writing", four) /\ read' = read
    BY DEF R!delete_channel
  <1>2. PICK plan : plan = four OBVIOUS
  <1>3. /\ Len(plan) = 4 /\ DOMAIN plan = 1 .. 4 /\ plan[1] = R!Purge("binding", c)
        /\ plan[2] = R!Purge("override", c) /\ plan[3] = R!Purge("delivery", c) /\ plan[4] = s
        /\ IsSequence(plan)
    <2>1. four \in Seq({R!Purge("binding", c), R!Purge("override", c), R!Purge("delivery", c), s})
      OBVIOUS
    <2>2. IsSequence(plan) BY <1>2, <2>1 DEF IsSequence
    <2> QED BY <1>2, <2>2
  <1>4. \A n \in DOMAIN plan :
            /\ plan[n].channel = c /\ n \in {1, 2, 3, 4}
            /\ n \in {1, 2, 3} => plan[n].kind = "purge"
            /\ n = 1 => plan[n].table = "binding"
            /\ n = 2 => plan[n].table = "override"
            /\ n = 3 => plan[n].table = "delivery"
            /\ n = 4 => plan[n].kind = "delete" /\ plan[n].table = "channel" /\ plan[n].id = row.id
    BY <1>3 DEF R!Purge, R!Delete
  <1>5. \A n \in DOMAIN plan : Meant(r, plan[n]) /\ plan[n].kind # "update"
    BY <1>4 DEF Meant, R!Deletions, R!Tables, R!Pairs
  <1>6. RoutingRequest(r)
    BY DEF RoutingRequest, RoutingOps, R!Deletions, Pairing, Storing, RoutingInv, RoutingTypes,
        RoutingGiven
  <1>7. /\ request'[p] = r /\ pc'[p] = "writing" /\ todo'[p] = plan /\ rows' = rows
        /\ written' = written
    BY <1>1, <1>2 DEF R!Begin, R!Go, RoutingInv, RoutingTypes
  <1>8. Empties(p)'
    <2>1. 1 \in DOMAIN plan /\ 2 \in DOMAIN plan /\ 3 \in DOMAIN plan /\ 4 \in DOMAIN plan
      BY <1>3
    <2>2. Finds(plan[4])' BY <1>1, <1>4, <1>7, <2>1 DEF Finds
    <2>3. \A t \in R!Pairs : t = plan[1].table \/ t = plan[2].table BY <1>4, <2>1 DEF R!Pairs
    <2>4. \A n \in DOMAIN plan : plan[n].table = "channel" => n = 4 /\ plan[n].kind = "delete"
      BY <1>4
    <2> HIDE DEF r
    <2> QED BY <1>3, <1>4, <1>7, <2>1, <2>2, <2>3, <2>4 DEF Empties
  <1>9. Chooses(p)' BY <1>7 DEF Chooses
  <1>10. DOMAIN read' = Requests BY <1>1 DEF RoutingInv, RoutingTypes
  <1> HIDE DEF four
  <1> QED BY <1>1, <1>2, <1>3, <1>5, <1>6, <1>8, <1>9, <1>10, RoutingBegin DEF Pairing

LEMMA RoutingReadsBindings ==
    ASSUME RoutingGiven, RoutingInv, NEW p \in Requests, NEW severity \in Severities,
           R!read_bindings(p, severity)
    PROVE  RoutingInv'
  <1> DEFINE found == [bindings |-> R!EnabledBindings, overrides |-> Null, targets |-> {},
                       before |-> R!Configured(severity)]
             r == [op |-> "ingest", channel |-> Null, ask |-> severity, id |-> started + 1]
  <1>1. PICK place \in {"writing", "overrides"} :
            R!Begin(p, "ingest", Null, severity, place, <<>>)
    BY DEF R!read_bindings
  <1>2. /\ DOMAIN read' = Requests /\ read'[p] = found
        /\ \A q \in Requests \ {p} : read'[q] = read[q]
    BY DEF R!read_bindings, RoutingInv, RoutingTypes
  <1>3. /\ request'[p] = r /\ pc'[p] = place /\ overtaken'[p] = <<>> /\ rows' = rows
    BY <1>1 DEF R!Begin, R!Go, RoutingInv, RoutingTypes
  <1>4. RoutingRequest(r)
    BY DEF RoutingRequest, RoutingOps, Pairing, RoutingInv, RoutingTypes, RoutingGiven
  <1>5. Empties(p)' BY <1>3 DEF Empties
  <1>6. Chooses(p)'
    <2>1. DOMAIN found = {"bindings", "overrides", "targets", "before"}
          /\ found.bindings = R!EnabledBindings /\ found.before = R!Configured(severity)
      OBVIOUS
    <2>5. DOMAIN R!EnabledBindings \subseteq Channels BY DEF R!EnabledBindings
    <2>2. Len(<<>>) # 1 OBVIOUS
    <2>3. pc'[p] # "channels" BY <1>3
    <2>4. r.ask = severity OBVIOUS
    <2> HIDE DEF found, r
    <2> QED BY <1>2, <1>3, <2>1, <2>2, <2>3, <2>4, <2>5, SameConfiguration DEF Chooses
  <1> QED BY <1>1, <1>2, <1>4, <1>5, <1>6, PlanNone, RoutingBegin DEF Pairing

\* A pair is looked up, and looked up again.
LEMMA RoutingReadsPair ==
    ASSUME RoutingGiven, RoutingInv, NEW p \in Requests,
           \/ R!read_pair(p) \/ R!look_again(p)
    PROVE  RoutingInv'
  <1> Routes(p) BY DEF RoutingInv
  <1> DEFINE r == request[p]
             c == r.channel
             t == R!TableOf(r.op)
             row == rows[t][c]
             flush == R!Flush(t, c, row, r.ask)
             s == R!Insert(t, c, R!WithId(r.id, r.ask))
  <1>1. /\ UNCHANGED <<rows, deliveries, written, inserted, purged, request, read, overtaken, started>>
        /\ pc[p] \in {"reading", "rereading"}
        /\ \/ R!Go(p, "writing", flush) /\ row # NoRow
           \/ R!Go(p, "writing", <<s>>) /\ row = NoRow
           \/ R!Go(p, "refused", <<>>) /\ row = NoRow /\ pc[p] = "rereading"
    BY DEF R!read_pair, R!look_again, R!reread_pair
  <1>2. r.op \in Pairing /\ RoutingRequest(r) /\ r # NoRequest
    BY <1>1 DEF Routes, PhaseOf
  <1>3. t = OnTable(r.op) /\ t \in R!Pairs /\ t \in R!Tables
    BY <1>2 DEF Pairing, R!TableOf, OnTable, R!Pairs, R!Tables
  <1>4. c \in Channels /\ DOMAIN r.ask = ColumnsOf(t) /\ Fits(t, r.ask) /\ r.id \in Nat
    BY <1>2, <1>3 DEF RoutingRequest, RoutingOps, Pairing
  <1>5. \A q \in Requests \ {p} : pc'[q] = pc[q] /\ todo'[q] = todo[q] /\ read'[q] = read[q]
    BY <1>1 DEF R!Go, RoutingInv, RoutingTypes
  <1>6. DOMAIN pc' = Requests /\ DOMAIN todo' = Requests /\ DOMAIN read' = Requests
    BY <1>1 DEF R!Go, RoutingInv, RoutingTypes
  <1>7. row # NoRow => R!Exists(row)
    BY <1>3, <1>4, RowsThere DEF R!Pairs
  <1>8. PICK plan : plan = todo'[p] OBVIOUS
  <1>9. ASSUME pc'[p] = "writing", IsSequence(plan),
               \A n \in DOMAIN plan : Meant(r, plan[n]) /\ (plan[n].kind = "update" => Finds(plan[n]))
        PROVE  RoutingInv'
    <2>1. PhaseOf(p)' BY <1>1, <1>2, <1>8, <1>9 DEF Routes, PhaseOf
    <2>2. RoutingStatements(p)' BY <1>1, <1>8, <1>9 DEF RoutingStatements
    <2>3. Empties(p)' BY <1>1, <1>2 DEF Empties, Pairing
    <2>4. Justified(p)'
      <3>1. \A e : Finds(e)' <=> Finds(e) BY <1>1 DEF Finds
      <3> QED BY <1>8, <1>9, <3>1 DEF Justified
    <2>5. Chooses(p)' BY <1>9 DEF Chooses
    <2>6. r.op # "ingest" BY <1>2 DEF Pairing
    <2> QED BY <1>1, <1>5, <1>6, <2>1, <2>2, <2>3, <2>4, <2>5, <2>6, RoutingMove
  <1>10. CASE R!Go(p, "writing", flush) /\ row # NoRow
    <2>1. pc'[p] = "writing" /\ plan = flush BY <1>8, <1>10 DEF R!Go, RoutingInv, RoutingTypes
    <2>2. /\ IsSequence(flush)
          /\ \A n \in DOMAIN flush :
                /\ flush[n].kind = "update" /\ flush[n].table = t /\ flush[n].channel = c
                /\ flush[n].id = row.id /\ Fits(t, flush[n].row)
      BY <1>3, <1>4, Flushed
    <2> HIDE DEF flush
    <2>3. \A n \in DOMAIN plan : Meant(r, plan[n]) /\ Finds(plan[n])
      <3> TAKE n \in DOMAIN plan
      <3>1. Finds(plan[n]) BY <1>7, <1>10, <2>1, <2>2 DEF Finds
      <3>2. Meant(r, plan[n]) BY <1>2, <1>3, <2>1, <2>2 DEF Meant, Pairing
      <3> QED BY <3>1, <3>2
    <2> QED BY <1>9, <2>1, <2>2, <2>3
  <1>11. CASE R!Go(p, "writing", <<s>>) /\ row = NoRow
    <2>1. pc'[p] = "writing" /\ plan = <<s>> BY <1>8, <1>11 DEF R!Go, RoutingInv, RoutingTypes
    <2>2. IsSequence(<<s>>) /\ DOMAIN <<s>> = {1} /\ <<s>>[1] = s BY PlanOne
    <2>3. R!WithId(r.id, r.ask) \in RowsOf(t) BY <1>3, <1>4, RowWithId
    <2>4. Meant(r, s) /\ s.kind # "update"
      BY <1>2, <1>3, <2>3 DEF Meant, R!Insert, Storing, Pairing
    <2> HIDE DEF s
    <2> QED BY <1>9, <2>1, <2>2, <2>4
  <1>12. CASE R!Go(p, "refused", <<>>) /\ row = NoRow /\ pc[p] = "rereading"
    <2>1. pc'[p] = "refused" /\ todo'[p] = <<>> BY <1>12 DEF R!Go, RoutingInv, RoutingTypes
    <2>2. PhaseOf(p)' BY <1>1, <1>2, <2>1, PlanNone DEF Routes, PhaseOf
    <2>3. RoutingStatements(p)' BY <2>1, PlanNone DEF RoutingStatements
    <2>4. Empties(p)' BY <2>1 DEF Empties
    <2>5. Justified(p)'
      <3>1. OvertakenBy(p, R!Deletions) BY <1>3, <1>12 DEF Routes, Justified
      <3>2. OvertakenBy(p, R!Deletions)' BY <1>1, <3>1 DEF OvertakenBy, R!Range
      <3>3. r.op # "delete_channel" BY <1>2 DEF Pairing
      <3> QED BY <1>1, <2>1, <3>2, <3>3, PlanNone DEF Justified
    <2>6. Chooses(p)' BY <2>1 DEF Chooses
    <2>7. r.op # "ingest" BY <1>2 DEF Pairing
    <2> QED BY <1>1, <1>5, <1>6, <2>2, <2>3, <2>4, <2>5, <2>6, <2>7, RoutingMove
  <1> QED BY <1>1, <1>10, <1>11, <1>12

-----------------------------------------------------------------------------
\* The first statement of a plan that is not over.
LEMMA FirstOfPlan ==
    ASSUME RoutingInv, NEW p \in Requests, pc[p] = "writing", todo[p] # <<>>
    PROVE  LET s == Head(todo[p])
               r == request[p]
           IN  /\ s = todo[p][1] /\ 1 \in DOMAIN todo[p]
               /\ Meant(r, s) /\ r # NoRequest /\ RoutingRequest(r)
               /\ r.op # "ingest" => s.channel \in Channels /\ s.channel = r.channel
               /\ IsSequence(Tail(todo[p]))
               /\ \A n \in DOMAIN Tail(todo[p]) :
                     n + 1 \in DOMAIN todo[p] /\ Tail(todo[p])[n] = todo[p][n + 1]
  <1> Routes(p) BY DEF RoutingInv
  <1>1. IsSequence(todo[p]) /\ request[p] # NoRequest /\ RoutingRequest(request[p])
    BY DEF Routes, PhaseOf
  <1>2. /\ 1 \in DOMAIN todo[p] /\ Head(todo[p]) = todo[p][1] /\ IsSequence(Tail(todo[p]))
        /\ \A n \in DOMAIN Tail(todo[p]) :
              n + 1 \in DOMAIN todo[p] /\ Tail(todo[p])[n] = todo[p][n + 1]
    BY <1>1, PlanRest
  <1>3. Meant(request[p], todo[p][1]) BY <1>2 DEF Routes, RoutingStatements
  <1> QED BY <1>1, <1>2, <1>3 DEF Meant, RoutingRequest

\* What stays true of a request when its first statement is done.
LEMMA RestOfPlan ==
    ASSUME RoutingInv, NEW p \in Requests, pc[p] = "writing", todo[p] # <<>>,
           rows' = rows, request'[p] = request[p], overtaken'[p] = overtaken[p],
           pc'[p] = "writing", todo'[p] = Tail(todo[p]),
           inserted'[p] = inserted[p] \/ request[p].op = "ingest"
    PROVE  /\ PhaseOf(p)' /\ RoutingStatements(p)' /\ Justified(p)' /\ Chooses(p)'
           /\ request[p].op = "ingest" => \A n \in DOMAIN todo'[p] : Lasts(p, todo'[p][n].channel)
  <1> Routes(p) BY DEF RoutingInv
  <1>1. /\ IsSequence(Tail(todo[p]))
        /\ \A n \in DOMAIN Tail(todo[p]) :
              n + 1 \in DOMAIN todo[p] /\ Tail(todo[p])[n] = todo[p][n + 1]
    BY FirstOfPlan
  <1>2. PhaseOf(p)' BY <1>1 DEF Routes, PhaseOf
  <1>3. RoutingStatements(p)' BY <1>1 DEF Routes, RoutingStatements
  <1>4. Justified(p)'
    <2>1. \A s : Finds(s)' <=> Finds(s) BY DEF Finds
    <2>2. \A ops : OvertakenBy(p, ops)' <=> OvertakenBy(p, ops) BY DEF OvertakenBy, R!Range
    <2>3. Justified(p) BY DEF Routes
    <2> QED BY <1>1, <2>1, <2>2, <2>3 DEF Justified
  <1>5. Chooses(p)' BY DEF Chooses
  <1>6. request[p].op = "ingest" => \A n \in DOMAIN todo'[p] : Lasts(p, todo'[p][n].channel)
    <2>1. request[p] # NoRequest BY FirstOfPlan
    <2> QED BY <1>1, <2>1 DEF Routes, Bound
  <1> QED BY <1>2, <1>3, <1>4, <1>5, <1>6

\* The deletion of a channel, when its first statement is done.
LEMMA EmptiesRest ==
    ASSUME RoutingInv, NEW p \in Requests, pc[p] = "writing", todo[p] # <<>>,
           rows' = rows, request'[p] = request[p], overtaken'[p] = overtaken[p],
           deliveries' = deliveries, pc'[p] = "writing", todo'[p] = Tail(todo[p]),
           NEW c, c = request[p].channel,
           \A t \in R!Tables : R!View(p, t, c)' \in {R!View(p, t, c), NoRow},
           NEW s, s = Head(todo[p]),
           \A t \in R!Tables : s.table = t => R!View(p, t, c)' = NoRow \/ (s.kind = "delete" /\ ~Finds(s)),
           IF s.table = "delivery" THEN \A d \in deliveries \ purged'[p] : d[1] # c
           ELSE purged'[p] = purged[p]
    PROVE  Empties(p)'
  <1> SUFFICES ASSUME request[p].op = "delete_channel" PROVE Empties(p)' BY DEF Empties
  <1> Routes(p) BY DEF RoutingInv
  <1> PICK old, new : old = todo[p] /\ new = Tail(todo[p]) OBVIOUS
  <1>1. IsSequence(old) /\ request[p] # NoRequest /\ Empties(p) BY DEF Routes, PhaseOf, FirstOfPlan
  <1>2. /\ Len(old) \in Nat /\ DOMAIN old = 1 .. Len(old) /\ 1 \in DOMAIN old
        /\ Len(new) = Len(old) - 1 /\ s = old[1] /\ DOMAIN new = 1 .. (Len(old) - 1)
        /\ \A n \in DOMAIN new : n + 1 \in DOMAIN old /\ new[n] = old[n + 1]
        /\ \A n \in DOMAIN old : n # 1 => n - 1 \in DOMAIN new /\ new[n - 1] = old[n]
    BY <1>1, PlanRest
  <1>3. todo[p] = old /\ todo'[p] = new OBVIOUS
  <1>4. \A e : Finds(e)' <=> Finds(e) BY DEF Finds
  <1>5. \A ops : OvertakenBy(p, ops)' <=> OvertakenBy(p, ops) BY DEF OvertakenBy, R!Range
  <1>6. \A n \in DOMAIN new : new[n].table = "channel" => n = Len(new) /\ new[n].kind = "delete"
    BY <1>1, <1>2, <1>3 DEF Empties
  <1>7. \/ R!View(p, "channel", c)' = NoRow
        \/ \E n \in DOMAIN new : new[n].table = "channel" /\ Finds(new[n])
    <2>1. "channel" \in R!Tables BY DEF R!Tables
    <2>2. CASE R!View(p, "channel", c) = NoRow BY <2>1, <2>2
    <2>3. ASSUME NEW n \in DOMAIN old, old[n].table = "channel", Finds(old[n]) PROVE <1>7
      <3>1. CASE n = 1 BY <1>2, <2>1, <2>3, <3>1
      <3>2. CASE n # 1 BY <1>2, <2>3, <3>2
      <3> QED BY <3>1, <3>2
    <2> QED BY <1>1, <1>3, <2>2, <2>3 DEF Empties
  <1>8. ASSUME ~OvertakenBy(p, R!Insertions)
        PROVE  /\ \A t \in R!Pairs :
                      \/ R!View(p, t, c)' = NoRow
                      \/ \E n \in DOMAIN new :
                            /\ new[n].table = t
                            /\ new[n].kind = "purge" \/ (new[n].kind = "delete" /\ Finds(new[n]))
               /\ \/ \A d \in deliveries \ purged'[p] : d[1] # c
                  \/ \E n \in DOMAIN new : new[n].table = "delivery"
    <2>1. ASSUME NEW t \in R!Pairs
          PROVE  \/ R!View(p, t, c)' = NoRow
                 \/ \E n \in DOMAIN new :
                       /\ new[n].table = t
                       /\ new[n].kind = "purge" \/ (new[n].kind = "delete" /\ Finds(new[n]))
      <3>1. t \in R!Tables BY DEF R!Tables, R!Pairs
      <3>2. CASE R!View(p, t, c) = NoRow BY <3>1, <3>2
      <3>3. ASSUME NEW n \in DOMAIN old, old[n].table = t,
                   old[n].kind = "purge" \/ (old[n].kind = "delete" /\ Finds(old[n]))
            PROVE  <2>1!2
        <4>1. CASE n = 1 BY <1>2, <3>1, <3>3, <4>1
        <4>2. CASE n # 1 BY <1>2, <3>3, <4>2
        <4> QED BY <4>1, <4>2
      <3> QED BY <1>1, <1>3, <1>8, <3>2, <3>3 DEF Empties
    <2>2. \/ \A d \in deliveries \ purged'[p] : d[1] # c
          \/ \E n \in DOMAIN new : new[n].table = "delivery"
      <3>1. CASE s.table = "delivery" BY <3>1
      <3>2. CASE s.table # "delivery"
        <4>1. CASE \A d \in deliveries \ purged[p] : d[1] # c BY <3>2, <4>1
        <4>2. ASSUME NEW n \in DOMAIN old, old[n].table = "delivery" PROVE <2>2
          BY <1>2, <3>2, <4>2
        <4> QED BY <1>1, <1>3, <1>8, <4>1, <4>2 DEF Empties
      <3> QED BY <3>1, <3>2
    <2> QED BY <2>1, <2>2
  <1>9. \/ R!View(p, "channel", c)' = NoRow
        \/ \E n \in DOMAIN new : new[n].table = "channel" /\ Finds(new[n])'
    BY <1>4, <1>7
  <1>10. ASSUME ~OvertakenBy(p, R!Insertions)'
         PROVE  /\ \A t \in R!Pairs :
                      \/ R!View(p, t, c)' = NoRow
                      \/ \E n \in DOMAIN new :
                            /\ new[n].table = t
                            /\ new[n].kind = "purge" \/ (new[n].kind = "delete" /\ Finds(new[n])')
                /\ \/ \A d \in deliveries \ purged'[p] : d[1] # c
                   \/ \E n \in DOMAIN new : new[n].table = "delivery"
    <2>1. ~OvertakenBy(p, R!Insertions) BY <1>5, <1>10
    <2> QED BY <1>4, <1>8, <2>1
  <1> QED BY <1>3, <1>6, <1>9, <1>10 DEF Empties

\* A statement that writes a row.
LEMMA RoutingWrite ==
    ASSUME RoutingGiven, RoutingInv, NEW p \in Requests, pc[p] = "writing", todo[p] # <<>>,
           NEW t \in R!Tables, NEW c \in Channels, NEW w \in {NoRow} \cup RowsOf(t),
           UNCHANGED <<rows, deliveries, inserted, purged, request, read, overtaken, started>>,
           written' = [written EXCEPT ![p][t][c] = w], R!Go(p, "writing", Tail(todo[p])),
           Wrote(p, t, c, w), R!Holders(p, t, c) = {},
           t \in R!Pairs => \A q \in Requests \ {p} : written[q].channel[c] # NoRow,
           t \in R!Pairs /\ w # NoRow => R!Exists(rows.channel[c]),
           t = "channel" /\ w = NoRow =>
               /\ \A u \in R!Pairs : R!View(p, u, c) = NoRow
               /\ \A d \in deliveries \ purged[p] : d[1] # c
               /\ \A q \in Requests \ {p} :
                     c \notin inserted[q] /\ \A u \in R!Pairs : written[q][u][c] = Same,
           request[p].op = "delete_channel" => Empties(p)'
    PROVE  RoutingInv'
  <1> Routes(p) BY DEF RoutingInv
  <1>1. /\ pc'[p] = "writing" /\ todo'[p] = Tail(todo[p])
        /\ DOMAIN pc' = Requests /\ DOMAIN todo' = Requests
        /\ \A q \in Requests \ {p} : pc'[q] = pc[q] /\ todo'[q] = todo[q]
    BY DEF R!Go, RoutingInv, RoutingTypes
  <1>2. /\ written'[p][t][c] = w
        /\ \A u \in R!Tables, d \in Channels : u # t \/ d # c => written'[p][u][d] = written[p][u][d]
        /\ \A q \in Requests \ {p} : written'[q] = written[q]
        /\ written' \in [Requests -> [R!Tables -> [Channels ->
              {Same, NoRow} \cup ChannelRow \cup BindingRow \cup OverrideRow]]]
    <2>1. w \in {Same, NoRow} \cup ChannelRow \cup BindingRow \cup OverrideRow BY DEF RowsOf
    <2>2. written \in [Requests -> [R!Tables -> [Channels ->
              {Same, NoRow} \cup ChannelRow \cup BindingRow \cup OverrideRow]]]
      BY DEF RoutingInv, RoutingTypes
    <2> QED BY <2>1, <2>2
  <1>3. Others(p) BY <1>1, <1>2 DEF Others
  <1>4. w # Same /\ NoRow # Same BY DEF RoutingGiven
  <1>5. "channel" \in R!Tables /\ "channel" \notin R!Pairs /\ R!Pairs \subseteq R!Tables
    BY DEF R!Tables, R!Pairs
  <1>6. KeepsAway(p)
    <2> SUFFICES ASSUME NEW q \in Requests \ {p} 
                 PROVE  /\ \A d \in Channels : written[q].channel[d] = NoRow =>
                            d \notin inserted[p] /\ \A u \in R!Pairs : written'[p][u][d] = Same
                        /\ request[q] # NoRequest /\ request[q].op = "create_channel" /\ request[p] # NoRequest =>
                            request[p].channel # request[q].channel
      BY DEF KeepsAway
    <2>1. ChannelGoes(q) /\ Bound(q) BY DEF RoutingInv, Routes
    <2>2. \A d \in Channels : written[q].channel[d] = NoRow =>
              d \notin inserted[p] /\ \A u \in R!Pairs : written'[p][u][d] = Same
      BY <1>2, <1>5, <2>1 DEF ChannelGoes
    <2> QED BY <2>1, <2>2 DEF Bound
  <1>7. RoutingTypes' BY <1>1, <1>2 DEF RoutingInv, RoutingTypes
  <1>8. /\ PhaseOf(p)' /\ RoutingStatements(p)' /\ Justified(p)' /\ Chooses(p)'
        /\ request[p].op = "ingest" => \A n \in DOMAIN todo'[p] : Lasts(p, todo'[p][n].channel)
    BY <1>1, RestOfPlan
  <1>9. RoutingWrites(p)'
    <2>1. ASSUME NEW u \in R!Tables, NEW d \in Channels, NEW v, v = written'[p][u][d], v # Same
          PROVE  Wrote(p, u, d, v)'
      <3>1. Wrote(p, u, d, v)
        <4>1. CASE u = t /\ d = c BY <1>2, <2>1, <4>1
        <4>2. CASE u # t \/ d # c
          <5>1. v = written[p][u][d] BY <1>2, <2>1, <4>2
          <5> QED BY <2>1, <5>1 DEF Routes, RoutingWrites
        <4> QED BY <4>1, <4>2
      <3> QED BY <3>1 DEF Wrote
    <2> QED BY <2>1 DEF RoutingWrites, Wrote
  <1>10. Bound(p)'
    <2>1. \A d : Lasts(p, d)' <=> Lasts(p, d) BY DEF Lasts, OvertakenBy, R!Range
    <2>2. Bound(p) BY DEF Routes
    <2> QED BY <1>8, <2>1, <2>2 DEF Bound
  <1>11. Reaches(p)'
    <2> SUFFICES ASSUME NEW d \in Channels,
                        \/ d \in inserted[p]
                        \/ \E u \in R!Pairs : written'[p][u][d] \notin {Same, NoRow}
                 PROVE  R!Exists(rows.channel[d])
      BY DEF Reaches
    <2>1. Reaches(p) BY DEF Routes
    <2>2. CASE d \in inserted[p] BY <2>1, <2>2 DEF Reaches
    <2>3. ASSUME NEW u \in R!Pairs, written'[p][u][d] \notin {Same, NoRow}
          PROVE  R!Exists(rows.channel[d])
      <3>1. CASE u = t /\ d = c BY <1>2, <2>3, <3>1
      <3>2. CASE u # t \/ d # c BY <1>2, <1>5, <2>1, <2>3, <3>2 DEF Reaches
      <3> QED BY <3>1, <3>2
    <2> QED BY <2>2, <2>3
  <1>12. ChannelGoes(p)'
    <2> SUFFICES ASSUME NEW d \in Channels, written'[p].channel[d] = NoRow
                 PROVE  /\ \A u \in R!Pairs : R!View(p, u, d)' = NoRow
                        /\ \A e \in deliveries \ purged[p] : e[1] # d
                        /\ \A q \in Requests \ {p} :
                              d \notin inserted[q] /\ \A u \in R!Pairs : written[q][u][d] = Same
      BY <1>2 DEF ChannelGoes
    <2>1. CASE t = "channel" /\ d = c
      <3>1. \A u \in R!Pairs : R!View(p, u, d)' = R!View(p, u, d) BY <1>2, <1>5, <2>1 DEF R!View
      <3>2. w = NoRow BY <1>2, <2>1
      <3> QED BY <2>1, <3>1, <3>2
    <2>2. CASE t # "channel" \/ d # c
      <3>1. written[p].channel[d] = NoRow BY <1>2, <1>5, <2>2
      <3>2. /\ \A u \in R!Pairs : R!View(p, u, d) = NoRow
            /\ \A e \in deliveries \ purged[p] : e[1] # d
            /\ \A q \in Requests \ {p} :
                  d \notin inserted[q] /\ \A u \in R!Pairs : written[q][u][d] = Same
        BY <3>1 DEF Routes, ChannelGoes
      <3>3. ASSUME NEW u \in R!Pairs PROVE R!View(p, u, d)' = NoRow
        <4>1. CASE u = t /\ d = c
          <5>1. Wrote(p, "channel", d, NoRow)
            BY <1>4, <1>5, <3>1 DEF Routes, RoutingWrites
          <5>2. request[p].op \in R!Deletions BY <5>1 DEF Wrote
          <5>3. w = NoRow BY <5>2 DEF Wrote
          <5> QED BY <1>2, <1>4, <4>1, <5>3 DEF R!View
        <4>2. CASE u # t \/ d # c
          <5>1. R!View(p, u, d)' = R!View(p, u, d) BY <1>2, <1>5, <4>2 DEF R!View
          <5> QED BY <3>2, <5>1
        <4> QED BY <4>1, <4>2
      <3> QED BY <3>2, <3>3
    <2> QED BY <2>1, <2>2
  <1>13. Empties(p)' BY DEF Empties
  <1>14. Routes(p)' BY <1>8, <1>9, <1>10, <1>11, <1>12, <1>13 DEF Routes
  <1>15. \A q \in Requests \ {p}, u \in R!Tables, d \in Channels :
             written'[p][u][d] # Same => written[q][u][d] = Same
    <2> TAKE q \in Requests \ {p}, u \in R!Tables, d \in Channels
    <2>1. CASE u = t /\ d = c BY <2>1 DEF R!Holders
    <2>2. CASE u # t \/ d # c BY <1>2, <2>2 DEF RoutingInv, RoutingOneWriter
    <2> QED BY <2>1, <2>2
  <1> QED BY <1>3, <1>6, <1>7, <1>14, <1>15, RoutingStep

\* A statement that has nothing to do, and a request that goes no further.
LEMMA RoutingSkip ==
    ASSUME RoutingInv, NEW p \in Requests, pc[p] = "writing", todo[p] # <<>>,
           UNCHANGED <<rows, deliveries, written, inserted, purged, request, read, overtaken, started>>,
           R!Go(p, "writing", Tail(todo[p])), Empties(p)'
    PROVE  RoutingInv'
  <1>1. /\ pc'[p] = "writing" /\ todo'[p] = Tail(todo[p])
        /\ DOMAIN pc' = Requests /\ DOMAIN todo' = Requests /\ DOMAIN read' = Requests
        /\ \A q \in Requests \ {p} : pc'[q] = pc[q] /\ todo'[q] = todo[q] /\ read'[q] = read[q]
    BY DEF R!Go, RoutingInv, RoutingTypes
  <1>3. /\ PhaseOf(p)' /\ RoutingStatements(p)' /\ Justified(p)' /\ Chooses(p)'
        /\ request[p].op = "ingest" => \A n \in DOMAIN todo'[p] : Lasts(p, todo'[p][n].channel)
    BY <1>1, RestOfPlan
  <1> QED BY <1>1, <1>3, RoutingMove

LEMMA RoutingStops ==
    ASSUME RoutingInv, NEW p \in Requests, request[p] # NoRequest,
           UNCHANGED <<rows, deliveries, written, inserted, purged, request, read, overtaken, started>>,
           NEW place \in {"refused", "rereading"}, R!Go(p, place, <<>>),
           place = "rereading" =>
              /\ request[p].op \in Pairing
              /\ \/ rows[OnTable(request[p].op)][request[p].channel] # NoRow
                 \/ OvertakenBy(p, R!Deletions),
           place = "refused" =>
              \/ IF request[p].op = "delete_channel" THEN OvertakenBy(p, R!Insertions)
                 ELSE OvertakenBy(p, R!Deletions)
              \/ request[p].op = "ingest" /\ R!Unusable(read[p].bindings, read[p].overrides)
    PROVE  RoutingInv'
  <1> Routes(p) BY DEF RoutingInv
  <1>1. /\ pc'[p] = place /\ todo'[p] = <<>>
        /\ DOMAIN pc' = Requests /\ DOMAIN todo' = Requests /\ DOMAIN read' = Requests
        /\ \A q \in Requests \ {p} : pc'[q] = pc[q] /\ todo'[q] = todo[q] /\ read'[q] = read[q]
    BY DEF R!Go, RoutingInv, RoutingTypes
  <1>2. PhaseOf(p)' BY <1>1, PlanNone DEF Routes, PhaseOf
  <1>3. RoutingStatements(p)' BY <1>1, PlanNone DEF RoutingStatements
  <1>4. Empties(p)' BY <1>1 DEF Empties
  <1>5. Justified(p)'
    <2>1. \A ops : OvertakenBy(p, ops)' <=> OvertakenBy(p, ops) BY DEF OvertakenBy, R!Range
    <2> QED BY <1>1, <2>1, PlanNone DEF Justified
  <1>6. Chooses(p)' BY <1>1 DEF Chooses
  <1>7. \A n \in DOMAIN todo'[p] : Lasts(p, todo'[p][n].channel) BY <1>1, PlanNone
  <1> QED BY <1>1, <1>2, <1>3, <1>4, <1>5, <1>6, <1>7, RoutingMove

LEMMA OvertakenMore ==
    ASSUME NEW p, NEW ops, NEW more, ops \subseteq more, OvertakenBy(p, ops)
    PROVE  OvertakenBy(p, more)
  BY DEF OvertakenBy

\* Whoever deletes a channel has deleted, or found missing, the rows that refer to it.
LEMMA NotLeaving ==
    ASSUME RoutingGiven, RoutingInv, NEW p \in Requests, NEW t \in R!Pairs, NEW c \in Channels,
           rows[t][c] # NoRow, R!Holders(p, t, c) = {}
    PROVE  \A q \in Requests \ {p} : written[q].channel[c] # NoRow
  <1> SUFFICES ASSUME NEW q \in Requests \ {p}, written[q].channel[c] = NoRow PROVE FALSE
    OBVIOUS
  <1>1. R!View(q, t, c) = NoRow BY DEF RoutingInv, Routes, ChannelGoes
  <1>2. written[q][t][c] = NoRow BY <1>1 DEF R!View
  <1>3. NoRow # Same BY DEF RoutingGiven
  <1> QED BY <1>2, <1>3 DEF R!Holders

LEMMA RoutingInsert ==
    ASSUME RoutingGiven, RoutingInv, NEW p \in Requests, R!insert(p)
    PROVE  RoutingInv'
  <1> Routes(p) BY DEF RoutingInv
  <1> DEFINE r == request[p]
             s == Head(todo[p])
             c == s.channel
             t == s.table
  <1>1. /\ pc[p] = "writing" /\ todo[p] # <<>> /\ s.kind = "insert" /\ t # "delivery"
        /\ R!Holders(p, t, c) = {}
        /\ {q \in R!Holders(p, "channel", c) : written[q].channel[c] = NoRow} = {}
        /\ UNCHANGED <<rows, deliveries, inserted, purged, request, read, overtaken, started>>
    BY DEF R!insert
  <1>2. /\ Meant(r, s) /\ r # NoRequest
        /\ r.op # "ingest" => c \in Channels /\ c = r.channel
    BY <1>1, FirstOfPlan
  <1>3. r.op \in Storing /\ r.op # "ingest" /\ s.row \in RowsOf(t) /\ t = OnTable(r.op)
        /\ t \in R!Tables /\ r.op \notin R!Deletions /\ r.op # "delete_channel"
    BY <1>1, <1>2 DEF Meant, Storing, Pairing, R!Deletions, OnTable, R!Tables
  <1>4. c \in Channels /\ c = r.channel BY <1>2, <1>3
  <1>5. t \in R!Pairs => r.op \in Pairing BY <1>3 DEF Storing, R!Pairs, OnTable
  <1>6. CASE /\ t \in R!Pairs /\ (rows[t][c] # NoRow \/ rows.channel[c] = NoRow)
             /\ R!Go(p, "rereading", <<>>) /\ UNCHANGED written
    <2>1. rows[t][c] # NoRow \/ OvertakenBy(p, R!Deletions)
      <3>1. Lasts(p, c) BY <1>2, <1>4, <1>5, <1>6 DEF Routes, Bound, Pairing
      <3>2. {"delete_channel"} \subseteq R!Deletions BY DEF R!Deletions
      <3> QED BY <1>6, <3>1, <3>2, OvertakenMore DEF Lasts
    <2> QED BY <1>1, <1>2, <1>3, <1>4, <1>5, <1>6, <2>1, RoutingStops
  <1>7. CASE /\ ~(t \in R!Pairs /\ (rows[t][c] # NoRow \/ rows.channel[c] = NoRow))
             /\ written' = [written EXCEPT ![p][t][c] = s.row]
             /\ R!Go(p, "writing", Tail(todo[p]))
    <2>1. PICK w \in RowsOf(t) : w = s.row BY <1>3
    <2>2. w # NoRow BY <1>3 DEF RoutingGiven
    <2>3. t \notin R!Pairs => t = "channel" /\ r.op = "create_channel" /\ rows[t][c] = Unborn
      <3>1. t \notin R!Pairs => t = "channel" BY <1>3 DEF R!Tables, R!Pairs
      <3>2. t = "channel" => r.op = "create_channel"
        BY <1>3 DEF OnTable, Storing, Pairing
      <3> QED BY <1>2, <1>4, <3>1, <3>2 DEF Routes, Bound
    <2>4. Wrote(p, t, c, w)
      <3>1. CASE t \in R!Pairs
        <4>1. rows[t][c] = NoRow BY <1>7, <3>1
        <4> QED BY <1>2, <1>3, <1>4, <1>5, <2>2, <3>1, <4>1 DEF Wrote, R!Exists, R!Pairs
      <3>2. CASE t \notin R!Pairs
        <4>1. Unborn # NoRow BY DEF RoutingGiven
        <4> QED BY <1>2, <1>3, <1>4, <2>2, <2>3, <3>2, <4>1 DEF Wrote, R!Exists
      <3> QED BY <3>1, <3>2
    <2>5. t \in R!Pairs => \A q \in Requests \ {p} : written[q].channel[c] # NoRow
      <3>1. NoRow # Same BY DEF RoutingGiven
      <3> QED BY <1>1, <3>1 DEF R!Holders
    <2>6. t \in R!Pairs => R!Exists(rows.channel[c])
      <3>1. t \in R!Pairs => Lasts(p, c)
        BY <1>2, <1>4, <1>5 DEF Routes, Bound, Pairing
      <3> QED BY <1>7, <3>1 DEF Lasts, R!Exists
    <2>7. written' = [written EXCEPT ![p][t][c] = w] BY <1>7, <2>1
    <2>8. R!Go(p, "writing", Tail(todo[p])) BY <1>7
    <2> QED BY <1>1, <1>3, <1>4, <2>1, <2>2, <2>4, <2>5, <2>6, <2>7, <2>8, RoutingWrite
  <1> QED BY <1>6, <1>7 DEF R!insert

LEMMA RoutingUpdate ==
    ASSUME RoutingGiven, RoutingInv, NEW p \in Requests, R!update(p)
    PROVE  RoutingInv'
  <1> Routes(p) BY DEF RoutingInv
  <1> DEFINE r == request[p]
             s == Head(todo[p])
             c == s.channel
             t == s.table
  <1>1. /\ pc[p] = "writing" /\ todo[p] # <<>> /\ s.kind = "update"
        /\ Finds(s) => R!Holders(p, t, c) = {}
        /\ UNCHANGED <<rows, deliveries, inserted, purged, request, read, overtaken, started>>
        /\ \/ /\ Finds(s) /\ R!Go(p, "writing", Tail(todo[p]))
              /\ written' = [written EXCEPT ![p][t][c] = R!Updated(rows[t][c], s.row)]
           \/ ~Finds(s) /\ R!Go(p, "refused", <<>>) /\ UNCHANGED written
    BY DEF R!update, Finds
  <1>2. /\ Meant(r, s) /\ r # NoRequest /\ s = todo[p][1] /\ 1 \in DOMAIN todo[p]
        /\ r.op # "ingest" => c \in Channels /\ c = r.channel
    BY <1>1, FirstOfPlan
  <1>3. /\ r.op \in Pairing \cup Changing /\ r.op # "ingest" /\ t = OnTable(r.op) /\ t \in R!Tables
        /\ Fits(t, s.row) /\ r.op \notin R!Deletions /\ r.op # "delete_channel"
    BY <1>1, <1>2 DEF Meant, Changing, Pairing, R!Deletions, OnTable, R!Tables
  <1>4. c \in Channels /\ c = r.channel BY <1>2, <1>3
  <1>5. CASE ~Finds(s) /\ R!Go(p, "refused", <<>>) /\ UNCHANGED written
    <2>1. OvertakenBy(p, R!Deletions) BY <1>1, <1>2, <1>5 DEF Routes, Justified
    <2> QED BY <1>1, <1>2, <1>3, <1>5, <2>1, RoutingStops
  <1>6. CASE /\ Finds(s) /\ R!Go(p, "writing", Tail(todo[p]))
             /\ written' = [written EXCEPT ![p][t][c] = R!Updated(rows[t][c], s.row)]
    <2>1. rows[t][c] \in RowsOf(t) /\ R!Exists(rows[t][c]) /\ rows[t][c] # NoRow
      <3>1. rows[t][c] \in Cells(t) BY <1>3, <1>4 DEF RoutingInv, RoutingTypes
      <3>2. R!Exists(rows[t][c]) BY <1>6 DEF Finds
      <3> QED BY <3>1, <3>2 DEF Cells, R!Exists
    <2>2. PICK w : w = R!Updated(rows[t][c], s.row) OBVIOUS
    <2>3. w \in RowsOf(t) /\ w.id = rows[t][c].id BY <1>3, <2>1, <2>2, UpdatedRow
    <2>4. w # NoRow BY <1>3, <2>3 DEF RoutingGiven
    <2>5. Wrote(p, t, c, w)
      BY <1>2, <1>3, <1>4, <2>1, <2>3, <2>4 DEF Wrote
    <2>6. R!Holders(p, t, c) = {} BY <1>1, <1>6
    <2>7. t \in R!Pairs => \A q \in Requests \ {p} : written[q].channel[c] # NoRow
      BY <1>4, <2>1, <2>6, NotLeaving
    <2>8. t \in R!Pairs => R!Exists(rows.channel[c])
      BY <1>4, <2>1, RowsThere DEF R!Pairs
    <2>9. written' = [written EXCEPT ![p][t][c] = w] BY <1>6, <2>2
    <2>10. R!Go(p, "writing", Tail(todo[p])) BY <1>6
    <2> QED BY <1>1, <1>3, <1>4, <2>3, <2>4, <2>5, <2>6, <2>7, <2>8, <2>9, <2>10, RoutingWrite
  <1> QED BY <1>1, <1>5, <1>6

LEMMA RoutingDelete ==
    ASSUME RoutingGiven, RoutingInv, NEW p \in Requests, R!delete(p)
    PROVE  RoutingInv'
  <1> Routes(p) BY DEF RoutingInv
  <1> DEFINE r == request[p]
             s == Head(todo[p])
             c == s.channel
             t == s.table
             refused == Finds(s) /\ t = "channel" /\ R!Referred(p, c)
  <1>1. /\ pc[p] = "writing" /\ todo[p] # <<>> /\ s.kind = "delete"
        /\ Finds(s) => R!Holders(p, t, c) = {}
        /\ t = "channel" => R!Referring(p, c) = {}
        /\ UNCHANGED <<rows, deliveries, inserted, purged, request, read, overtaken, started>>
        /\ \/ refused /\ R!Go(p, "refused", <<>>) /\ UNCHANGED written
           \/ /\ ~refused /\ Finds(s) /\ R!Go(p, "writing", Tail(todo[p]))
              /\ written' = [written EXCEPT ![p][t][c] = NoRow]
           \/ ~Finds(s) /\ R!Go(p, "writing", Tail(todo[p])) /\ UNCHANGED written
    BY DEF R!delete, Finds
  <1>2. /\ Meant(r, s) /\ r # NoRequest /\ s = todo[p][1] /\ 1 \in DOMAIN todo[p]
        /\ r.op # "ingest" => c \in Channels /\ c = r.channel
    BY <1>1, FirstOfPlan
  <1>3. /\ r.op \in R!Deletions /\ r.op # "ingest" /\ t \in R!Tables /\ t # "delivery"
        /\ r.op # "delete_channel" => t = OnTable(r.op) /\ t # "channel"
    BY <1>1, <1>2 DEF Meant, R!Deletions, OnTable, R!Tables
  <1>4. c \in Channels /\ c = r.channel BY <1>2, <1>3
  <1>5. IsSequence(todo[p]) BY DEF Routes, PhaseOf
  <1>6. CASE refused /\ R!Go(p, "refused", <<>>) /\ UNCHANGED written
    <2>1. OvertakenBy(p, R!Insertions)
      <3> SUFFICES ASSUME ~OvertakenBy(p, R!Insertions) PROVE ~R!Referred(p, c) BY <1>6
      <3>1. r.op = "delete_channel" BY <1>3, <1>6
      <3>2. Len(todo[p]) = 1 /\ DOMAIN todo[p] = {1}
        <4>1. 1 = Len(todo[p]) BY <1>1, <1>2, <1>6, <3>1 DEF Routes, Empties
        <4>2. DOMAIN todo[p] = 1 .. Len(todo[p]) BY <1>1, <1>5, PlanRest
        <4>3. DOMAIN todo[p] = 1 .. 1 BY <4>1, <4>2
        <4>4. 1 .. 1 = {1} OBVIOUS
        <4> QED BY <4>1, <4>3, <4>4
      <3>3. \A n \in DOMAIN todo[p] : todo[p][n].table = "channel" BY <1>2, <1>6, <3>2
      <3>4. "channel" \notin R!Pairs BY DEF R!Pairs
      <3>5. /\ \A u \in R!Pairs : R!View(p, u, c) = NoRow
            /\ \A d \in deliveries \ purged[p] : d[1] # c
        BY <1>1, <1>2, <1>4, <3>1, <3>3, <3>4 DEF Routes, Empties
      <3> QED BY <3>5 DEF R!Referred
    <2>2. r.op = "delete_channel" BY <1>3, <1>6
    <2> QED BY <1>1, <1>2, <1>6, <2>1, <2>2, RoutingStops
  <1>7. CASE /\ ~refused /\ Finds(s) /\ R!Go(p, "writing", Tail(todo[p]))
             /\ written' = [written EXCEPT ![p][t][c] = NoRow]
    <2>1. R!Holders(p, t, c) = {} /\ rows[t][c] # NoRow BY <1>1, <1>7 DEF Finds, R!Exists
    <2>2. Wrote(p, t, c, NoRow) BY <1>2, <1>3, <1>4 DEF Wrote
    <2>3. t \in R!Pairs => \A q \in Requests \ {p} : written[q].channel[c] # NoRow
      BY <1>4, <2>1, NotLeaving
    <2>4. t = "channel" =>
               /\ \A u \in R!Pairs : R!View(p, u, c) = NoRow
               /\ \A d \in deliveries \ purged[p] : d[1] # c
               /\ \A q \in Requests \ {p} :
                     c \notin inserted[q] /\ \A u \in R!Pairs : written[q][u][c] = Same
      <3> SUFFICES ASSUME t = "channel"
                   PROVE  /\ \A u \in R!Pairs : R!View(p, u, c) = NoRow
                          /\ \A d \in deliveries \ purged[p] : d[1] # c
                          /\ \A q \in Requests \ {p} :
                               c \notin inserted[q] /\ \A u \in R!Pairs : written[q][u][c] = Same
        OBVIOUS
      <3>1. ~R!Referred(p, c) /\ R!Referring(p, c) = {} BY <1>1, <1>7
      <3>2. /\ \A u \in R!Pairs : R!View(p, u, c) = NoRow
            /\ \A d \in deliveries \ purged[p] : d[1] # c
        BY <3>1 DEF R!Referred
      <3>3. ASSUME NEW q \in Requests \ {p}
            PROVE  c \notin inserted[q] /\ \A u \in R!Pairs : written[q][u][c] = Same
        <4>1. /\ c \notin inserted[q]
              /\ \A u \in R!Pairs : written[q][u][c] # Same => rows[u][c] # NoRow
          BY <3>1 DEF R!Referring
        <4>2. ASSUME NEW u \in R!Pairs, written[q][u][c] # Same PROVE FALSE
          <5>1. written[p][u][c] # Same BY <3>2, <4>1, <4>2 DEF R!View
          <5>2. u \in R!Tables BY DEF R!Pairs, R!Tables
          <5> QED BY <1>4, <4>2, <5>1, <5>2 DEF RoutingInv, RoutingOneWriter
        <4> QED BY <4>1, <4>2
      <3> QED BY <3>2, <3>3
    <2>5. /\ pc'[p] = "writing" /\ todo'[p] = Tail(todo[p]) 
      BY <1>7 DEF R!Go, RoutingInv, RoutingTypes
    <2>6. PICK d, e, u : d = c /\ e = s /\ u = t OBVIOUS
    <2>7. /\ R!View(p, u, d)' = NoRow
          /\ \A v \in R!Tables : v # u => R!View(p, v, d)' = R!View(p, v, d)
      <3>1. written[p] \in [R!Tables -> [Channels ->
                {Same, NoRow} \cup ChannelRow \cup BindingRow \cup OverrideRow]]
        BY DEF RoutingInv, RoutingTypes
      <3>2. p \in DOMAIN written BY DEF RoutingInv, RoutingTypes
      <3>3. /\ written'[p][u][d] = NoRow
            /\ \A v \in R!Tables : v # u => written'[p][v][d] = written[p][v][d]
        BY <1>3, <1>4, <1>7, <2>6, <3>1, <3>2
      <3>4. NoRow # Same BY DEF RoutingGiven
      <3> QED BY <1>1, <3>3, <3>4 DEF R!View
    <2>8. Empties(p)'
      <3>1. \A v \in R!Tables : R!View(p, v, d)' \in {R!View(p, v, d), NoRow} BY <2>7
      <3>2. \A v \in R!Tables : e.table = v => R!View(p, v, d)' = NoRow BY <2>6, <2>7
      <3> QED BY <1>1, <1>3, <1>4, <2>5, <2>6, <3>1, <3>2, EmptiesRest
    <2>9. R!Go(p, "writing", Tail(todo[p])) /\ written' = [written EXCEPT ![p][t][c] = NoRow]
      BY <1>7
    <2> QED BY <1>1, <1>3, <1>4, <2>1, <2>2, <2>3, <2>4, <2>8, <2>9, RoutingWrite
  <1>8. CASE ~Finds(s) /\ R!Go(p, "writing", Tail(todo[p])) /\ UNCHANGED written
    <2>1. /\ pc'[p] = "writing" /\ todo'[p] = Tail(todo[p]) 
      BY <1>8 DEF R!Go, RoutingInv, RoutingTypes
    <2>2. PICK d, e : d = c /\ e = s OBVIOUS
    <2>3. \A v : R!View(p, v, d)' = R!View(p, v, d) BY <1>1, <1>8 DEF R!View
    <2>4. Empties(p)'
      <3>1. e.kind = "delete" /\ ~Finds(e) BY <1>1, <1>8, <2>2
      <3> QED BY <1>1, <1>3, <1>4, <2>1, <2>2, <2>3, <3>1, EmptiesRest
    <2> QED BY <1>1, <1>8, <2>4, RoutingSkip
  <1> QED BY <1>1, <1>6, <1>7, <1>8

LEMMA RoutingPurge ==
    ASSUME RoutingGiven, RoutingInv, NEW p \in Requests, R!purge(p)
    PROVE  RoutingInv'
  <1> Routes(p) BY DEF RoutingInv
  <1> DEFINE r == request[p]
  <1> PICK s, c, t : s = Head(todo[p]) /\ c = s.channel /\ t = s.table OBVIOUS
  <1> DEFINE first == R!Delete(t, c, rows[t][c].id)
  <1>1. /\ pc[p] = "writing" /\ todo[p] # <<>> /\ s.kind = "purge"
        /\ UNCHANGED <<rows, deliveries, written, inserted, request, read, overtaken, started>>
        /\ \/ /\ t = "delivery" /\ R!Go(p, "writing", Tail(todo[p]))
              /\ purged' = [purged EXCEPT ![p] = {d \in deliveries : d[1] = c}]
           \/ /\ t # "delivery" /\ rows[t][c] = NoRow /\ R!Go(p, "writing", Tail(todo[p]))
              /\ UNCHANGED purged
           \/ /\ t # "delivery" /\ rows[t][c] # NoRow
              /\ R!Go(p, "writing", <<first>> \o Tail(todo[p])) /\ UNCHANGED purged
    BY DEF R!purge
  <1>2. /\ Meant(r, s) /\ r # NoRequest /\ s = todo[p][1] /\ 1 \in DOMAIN todo[p]
        /\ r.op # "ingest" => c \in Channels /\ c = r.channel
    BY <1>1, FirstOfPlan
  <1>3. r.op = "delete_channel" /\ t \in R!Pairs \cup {"delivery"} BY <1>1, <1>2 DEF Meant
  <1>4. c \in Channels /\ c = r.channel BY <1>2, <1>3
  <1>5. IsSequence(todo[p]) BY DEF Routes, PhaseOf
  <1>6. \A u, d : R!View(p, u, d)' = R!View(p, u, d) BY <1>1 DEF R!View
  <1>7. \A u \in R!Tables : rows[u][c] = NoRow => R!View(p, u, c) = NoRow
    <2> TAKE u \in R!Tables
    <2> SUFFICES ASSUME rows[u][c] = NoRow, written[p][u][c] # Same, written[p][u][c] # NoRow
                 PROVE  FALSE
      BY DEF R!View
    <2>1. Wrote(p, u, c, written[p][u][c]) BY <1>4 DEF Routes, RoutingWrites
    <2> QED BY <1>3, <2>1 DEF Wrote, R!Deletions
  <1>8. /\ pc'[p] = "writing" /\ \A q \in Requests \ {p} : pc'[q] = pc[q] /\ todo'[q] = todo[q]
        /\ DOMAIN pc' = Requests /\ DOMAIN todo' = Requests /\ DOMAIN read' = Requests
    BY <1>1 DEF R!Go, RoutingInv, RoutingTypes
  <1>9. "delivery" \notin R!Tables /\ R!Pairs \subseteq R!Tables /\ "channel" \notin R!Pairs
    BY DEF R!Tables, R!Pairs
  <1>10. CASE /\ t # "delivery" /\ rows[t][c] = NoRow /\ R!Go(p, "writing", Tail(todo[p]))
              /\ UNCHANGED purged
    <2>1. todo'[p] = Tail(todo[p]) BY <1>10 DEF R!Go, RoutingInv, RoutingTypes
    <2>2. Empties(p)'
      <3>1. \A u \in R!Tables : t = u => R!View(p, u, c)' = NoRow BY <1>6, <1>7, <1>10
      <3> QED BY <1>1, <1>4, <1>6, <1>8, <1>10, <2>1, <3>1, EmptiesRest
    <2> QED BY <1>1, <1>10, <2>2, RoutingSkip
  <1>11. CASE /\ t = "delivery" /\ R!Go(p, "writing", Tail(todo[p]))
              /\ purged' = [purged EXCEPT ![p] = {d \in deliveries : d[1] = c}]
    <2>1. todo'[p] = Tail(todo[p]) BY <1>11 DEF R!Go, RoutingInv, RoutingTypes
    <2>2. /\ purged'[p] = {d \in deliveries : d[1] = c} /\ DOMAIN purged' = Requests
          /\ \A q \in Requests \ {p} : purged'[q] = purged[q]
      BY <1>11 DEF RoutingInv, RoutingTypes
    <2>3. \A d \in deliveries \ purged'[p] : d[1] # c BY <2>2
    <2>4. Empties(p)'
      <3>1. \A u \in R!Tables : s.table # u BY <1>9, <1>11
      <3>2. IF s.table = "delivery" THEN \A d \in deliveries \ purged'[p] : d[1] # c
            ELSE purged'[p] = purged[p]
        BY <1>11, <2>3
      <3>3. request'[p] = request[p] /\ overtaken'[p] = overtaken[p] BY <1>1
      <3> QED BY <1>1, <1>4, <1>6, <1>8, <2>1, <3>1, <3>2, <3>3, EmptiesRest
    <2>6. PhaseOf(p)' /\ RoutingStatements(p)' /\ Justified(p)' /\ Chooses(p)'
      BY <1>1, <1>8, <2>1, RestOfPlan
    <2>7. Others(p) BY <1>1, <1>8, <2>2 DEF Others
    <2>8. KeepsAway(p)
      <3> SUFFICES ASSUME NEW q \in Requests \ {p}
                   PROVE  /\ \A d \in Channels : written[q].channel[d] = NoRow =>
                              d \notin inserted[p] /\ \A u \in R!Pairs : written[p][u][d] = Same
                          /\ request[q] # NoRequest /\ request[q].op = "create_channel" =>
                              request[p].channel # request[q].channel
        BY <1>1 DEF KeepsAway
      <3>1. ChannelGoes(q) /\ Bound(q) BY DEF RoutingInv, Routes
      <3> QED BY <1>2, <3>1 DEF ChannelGoes, Bound
    <2>9. RoutingTypes' BY <1>1, <1>8, <2>2 DEF RoutingInv, RoutingTypes
    <2>10. RoutingWrites(p)' BY <1>1 DEF Routes, RoutingWrites, Wrote
    <2>11. Bound(p)'
      <3>1. \A d : Lasts(p, d)' <=> Lasts(p, d) BY <1>1 DEF Lasts, OvertakenBy, R!Range
      <3>2. Bound(p) BY DEF Routes
      <3> QED BY <1>1, <1>3, <3>1, <3>2 DEF Bound
    <2>12. Reaches(p)' BY <1>1 DEF Routes, Reaches
    <2>13. ChannelGoes(p)'
      <3> SUFFICES ASSUME NEW d \in Channels, written[p].channel[d] = NoRow
                   PROVE  /\ \A u \in R!Pairs : R!View(p, u, d)' = NoRow
                          /\ \A e \in deliveries \ purged'[p] : e[1] # d
                          /\ \A q \in Requests \ {p} :
                               d \notin inserted[q] /\ \A u \in R!Pairs : written[q][u][d] = Same
        BY <1>1 DEF ChannelGoes
      <3>1. "channel" \in R!Tables /\ NoRow # Same BY DEF R!Tables, RoutingGiven
      <3>2. Wrote(p, "channel", d, NoRow) BY <3>1 DEF Routes, RoutingWrites
      <3>3. d = c BY <1>4, <3>2 DEF Wrote
      <3>4. ChannelGoes(p) BY DEF Routes
      <3> QED BY <1>6, <2>3, <3>3, <3>4 DEF ChannelGoes
    <2>14. Routes(p)' BY <2>4, <2>6, <2>10, <2>11, <2>12, <2>13 DEF Routes
    <2>15. \A q \in Requests \ {p}, u \in R!Tables, d \in Channels :
               written'[p][u][d] # Same => written[q][u][d] = Same
      BY <1>1 DEF RoutingInv, RoutingOneWriter
    <2> QED BY <1>1, <2>7, <2>8, <2>9, <2>14, <2>15, RoutingStep
  <1>12. CASE /\ t # "delivery" /\ rows[t][c] # NoRow
              /\ R!Go(p, "writing", <<first>> \o Tail(todo[p])) /\ UNCHANGED purged
    <2>0. PICK old, new, e : old = todo[p] /\ new = <<e>> \o Tail(todo[p]) /\ e = first OBVIOUS
    <2>1. todo'[p] = new BY <1>12, <2>0 DEF R!Go, RoutingInv, RoutingTypes
    <2>2. /\ IsSequence(new) /\ DOMAIN new = 1 .. Len(old) /\ Len(new) = Len(old)
          /\ 1 \in DOMAIN new /\ new[1] = e
          /\ \A n \in DOMAIN new : n # 1 => n \in DOMAIN old /\ new[n] = old[n]
          /\ \A n \in DOMAIN old : n # 1 => n \in DOMAIN new /\ new[n] = old[n]
      <3>1. IsSequence(old) /\ old # <<>> /\ new = <<e>> \o Tail(old) BY <1>1, <1>5, <2>0
      <3> QED BY <3>1, PlanBefore
    <2>3. /\ e.kind = "delete" /\ e.table = t /\ e.channel = c /\ e.id = rows[t][c].id
      BY <2>0 DEF R!Delete
    <2>4. t \in R!Pairs /\ t \in R!Tables BY <1>3, <1>9, <1>12
    <2>5. Finds(e) BY <1>4, <1>12, <2>3, <2>4, RowsThere DEF Finds, R!Pairs
    <2>6. Meant(r, e) BY <1>3, <1>4, <2>3, <2>4 DEF Meant, R!Deletions
    <2>7. PhaseOf(p)' BY <1>1, <1>2, <1>8, <2>1, <2>2 DEF Routes, PhaseOf
    <2>8. RoutingStatements(p)' BY <1>1, <2>0, <2>1, <2>2, <2>6 DEF Routes, RoutingStatements
    <2>9. \A x : Finds(x)' <=> Finds(x) BY <1>1 DEF Finds
    <2>10. \A ops : OvertakenBy(p, ops)' <=> OvertakenBy(p, ops) BY <1>1 DEF OvertakenBy, R!Range
    <2>11. Justified(p)'
      <3>1. Justified(p) BY DEF Routes
      <3> QED BY <1>1, <1>8, <2>0, <2>1, <2>2, <2>3, <2>9, <2>10, <3>1 DEF Justified
    <2>12. Chooses(p)' BY <1>8 DEF Chooses
    <2>13. Empties(p)'
      <3>1. Empties(p) /\ s = old[1] /\ old = todo[p] BY <1>2, <2>0 DEF Routes
      <3>2. \A n \in DOMAIN new : new[n].table = "channel" => n = Len(new) /\ new[n].kind = "delete"
        BY <1>1, <1>2, <1>3, <1>9, <2>2, <2>3, <2>4, <3>1 DEF Empties
      <3>3. \/ R!View(p, "channel", c)' = NoRow
            \/ \E n \in DOMAIN new : new[n].table = "channel" /\ Finds(new[n])'
        <4>1. \A n \in DOMAIN old : old[n].table = "channel" => n # 1
          BY <1>1, <1>9, <2>4, <3>1
        <4> QED BY <1>1, <1>2, <1>3, <1>4, <1>6, <2>2, <2>9, <3>1, <4>1 DEF Empties
      <3>4. ASSUME ~OvertakenBy(p, R!Insertions)'
            PROVE  /\ \A u \in R!Pairs :
                         \/ R!View(p, u, c)' = NoRow
                         \/ \E n \in DOMAIN new :
                               /\ new[n].table = u
                               /\ new[n].kind = "purge" \/ (new[n].kind = "delete" /\ Finds(new[n])')
                   /\ \/ \A d \in deliveries \ purged[p] : d[1] # c
                      \/ \E n \in DOMAIN new : new[n].table = "delivery"
        <4>1. ~OvertakenBy(p, R!Insertions) BY <2>10, <3>4
        <4>2. ASSUME NEW u \in R!Pairs, u # t
              PROVE  \/ R!View(p, u, c)' = NoRow
                     \/ \E n \in DOMAIN new :
                           /\ new[n].table = u
                           /\ new[n].kind = "purge" \/ (new[n].kind = "delete" /\ Finds(new[n])')
          <5>1. CASE R!View(p, u, c) = NoRow BY <1>6, <5>1
          <5>2. ASSUME NEW n \in DOMAIN old, old[n].table = u,
                       old[n].kind = "purge" \/ (old[n].kind = "delete" /\ Finds(old[n]))
                PROVE  <4>2!3
            <6>1. n # 1 BY <3>1, <4>2, <5>2
            <6> QED BY <2>2, <2>9, <5>2, <6>1
          <5> QED BY <1>1, <1>2, <1>3, <1>4, <3>1, <4>1, <5>1, <5>2 DEF Empties
        <4>3. \/ \A d \in deliveries \ purged[p] : d[1] # c
              \/ \E n \in DOMAIN new : new[n].table = "delivery"
          <5>1. \A n \in DOMAIN old : old[n].table = "delivery" => n # 1
            BY <1>12, <3>1
          <5> QED BY <1>1, <1>2, <1>3, <1>4, <2>2, <3>1, <4>1, <5>1 DEF Empties
        <4>4. \E n \in DOMAIN new :
                 /\ new[n].table = t
                 /\ new[n].kind = "purge" \/ (new[n].kind = "delete" /\ Finds(new[n])')
          BY <2>2, <2>3, <2>5, <2>9
        <4> QED BY <4>2, <4>3, <4>4
      <3> QED BY <1>1, <1>4, <1>12, <2>1, <3>2, <3>3, <3>4 DEF Empties
    <2>14. \A q \in Requests \ {p} : read'[q] = read[q] BY <1>1
    <2>15. r.op # "ingest" BY <1>3
    <2> QED BY <1>1, <1>8, <1>12, <2>7, <2>8, <2>11, <2>12, <2>13, <2>14, <2>15, RoutingMove
  <1> QED BY <1>1, <1>10, <1>11, <1>12

-----------------------------------------------------------------------------
LEMMA RoutingReadsOverrides ==
    ASSUME RoutingInv, NEW p \in Requests, R!read_overrides(p)
    PROVE  RoutingInv'
  <1> Routes(p) BY DEF RoutingInv
  <1>1. /\ pc[p] = "overrides"
        /\ UNCHANGED <<rows, deliveries, written, inserted, purged, request, overtaken, started>>
        /\ pc'[p] = "channels" /\ todo'[p] = <<>>
        /\ read' = [read EXCEPT ![p].overrides = rows.override]
        /\ DOMAIN pc' = Requests /\ DOMAIN todo' = Requests /\ DOMAIN read' = Requests
        /\ \A q \in Requests \ {p} : pc'[q] = pc[q] /\ todo'[q] = todo[q] /\ read'[q] = read[q]
    BY DEF R!read_overrides, R!Go, RoutingInv, RoutingTypes
  <1>2. PhaseOf(p)' BY <1>1, PlanNone DEF Routes, PhaseOf
  <1>3. RoutingStatements(p)' BY <1>1, PlanNone DEF RoutingStatements
  <1>4. Empties(p)' BY <1>1 DEF Empties
  <1>5. Justified(p)' BY <1>1, PlanNone DEF Justified
  <1>6. Chooses(p)'
    <2>1. Chooses(p) BY DEF Routes
    <2>2. /\ DOMAIN read[p] = {"bindings", "overrides", "targets", "before"}
          /\ DOMAIN read[p].bindings \subseteq Channels
      BY <1>1, <2>1 DEF Chooses
    <2>3. p \in DOMAIN read BY DEF RoutingInv, RoutingTypes
    <2>4. /\ DOMAIN read'[p] = {"bindings", "overrides", "targets", "before"}
          /\ read'[p].overrides = rows.override /\ read'[p].bindings = read[p].bindings
          /\ read'[p].before = read[p].before
      BY <1>1, <2>2, <2>3
    <2>5. pc[p] # "channels" BY <1>1
    <2> QED BY <1>1, <2>1, <2>2, <2>4, <2>5, SameConfiguration DEF Chooses
  <1>7. \A n \in DOMAIN todo'[p] : Lasts(p, todo'[p][n].channel) BY <1>1, PlanNone
  <1> QED BY <1>1, <1>2, <1>3, <1>4, <1>5, <1>6, <1>7, RoutingMove

\* The elements of a finite set, one after the other.
LEMMA OneByOne ==
    ASSUME NEW S, IsFiniteSet(S)
    PROVE  R!Cardinality(S) \in Nat /\ R!InOrder(S) \in [1 .. R!Cardinality(S) -> S]
  <1>1. Cardinality(S) \in Nat /\ ExistsBijection(1 .. Cardinality(S), S) BY FS_CardinalityType
  <1>2. R!Cardinality(S) = Cardinality(S) BY SameCardinality
  <1>3. PICK f : f \in R!Bijection(1 .. R!Cardinality(S), S)
    BY <1>1, <1>2 DEF ExistsBijection, Bijection, Injection, IsInjective, Surjection,
                      R!Bijection, R!Injection, R!IsInjective, R!Surjection
  <1>4. R!InOrder(S) \in R!Bijection(1 .. R!Cardinality(S), S) BY <1>3 DEF R!InOrder
  <1> QED BY <1>1, <1>2, <1>4 DEF R!Bijection, R!Injection

LEMMA RoutingCreatesDeliveries ==
    ASSUME RoutingGiven, RoutingInv, NEW p \in Requests, R!create_deliveries_for_notification(p)
    PROVE  RoutingInv'
  <1> Routes(p) BY DEF RoutingInv
  <1> PICK targets : targets = R!select_target_channels(read[p].bindings, read[p].overrides,
                                                      rows.channel, request[p].ask)
    OBVIOUS
  <1> PICK plan : plan = [i \in 1 .. R!Cardinality(targets) |->
                             R!Insert("delivery", R!InOrder(targets)[i], [id |-> request[p].id])]
    OBVIOUS
  <1>1. /\ pc[p] = "channels"
        /\ UNCHANGED <<rows, deliveries, written, inserted, purged, request, overtaken, started>>
        /\ \/ /\ R!Unusable(read[p].bindings, read[p].overrides) /\ R!Go(p, "refused", <<>>)
              /\ UNCHANGED read
           \/ /\ read' = [read EXCEPT ![p].targets = targets] /\ R!Go(p, "writing", plan)
    BY DEF R!create_deliveries_for_notification
  <1>2. request[p] # NoRequest /\ request[p].op = "ingest" /\ RoutingRequest(request[p])
    BY <1>1 DEF Routes, PhaseOf
  <1>3. CASE /\ R!Unusable(read[p].bindings, read[p].overrides) /\ R!Go(p, "refused", <<>>)
             /\ UNCHANGED read
    BY <1>1, <1>2, <1>3, RoutingStops
  <1>4. CASE read' = [read EXCEPT ![p].targets = targets] /\ R!Go(p, "writing", plan)
    <2>1. /\ pc'[p] = "writing" /\ todo'[p] = plan
          /\ DOMAIN pc' = Requests /\ DOMAIN todo' = Requests /\ DOMAIN read' = Requests
          /\ \A q \in Requests \ {p} : pc'[q] = pc[q] /\ todo'[q] = todo[q] /\ read'[q] = read[q]
      BY <1>4 DEF R!Go, RoutingInv, RoutingTypes
    <2>2. /\ targets \subseteq Channels
          /\ \A c \in targets : R!Exists(rows.channel[c])
      BY <1>1 DEF R!select_target_channels, Routes, Chooses
    <2>3. IsFiniteSet(targets) BY <2>2, FS_Subset DEF RoutingGiven
    <2>4. R!Cardinality(targets) \in Nat /\ R!InOrder(targets) \in [1 .. R!Cardinality(targets) -> targets]
      BY <2>3, OneByOne
    <2>5. \A n \in DOMAIN plan :
              /\ plan[n].kind = "insert" /\ plan[n].table = "delivery"
              /\ plan[n].channel \in targets
      BY <2>4 DEF R!Insert
    <2>6. IsSequence(plan)
      <3>1. PICK S : S = {plan[n] : n \in DOMAIN plan} OBVIOUS
      <3>2. plan \in Seq(S) BY <2>4, <3>1
      <3> QED BY <3>2 DEF IsSequence
    <2>7. \A n \in DOMAIN plan : Meant(request[p], plan[n])
      BY <1>2, <2>2, <2>5 DEF Meant, Storing
    <2>8. \A n \in DOMAIN plan : Lasts(p, plan[n].channel)
      BY <2>2, <2>5 DEF Lasts, R!Exists
    <2>9. PhaseOf(p)' BY <1>1, <1>2, <2>1, <2>6 DEF PhaseOf
    <2>10. RoutingStatements(p)' BY <1>1, <2>1, <2>7 DEF RoutingStatements
    <2>11. Empties(p)' BY <1>1, <1>2 DEF Empties
    <2>12. Justified(p)' BY <2>1, <2>5 DEF Justified
    <2>13. Chooses(p)' BY <2>1 DEF Chooses
    <2> QED BY <1>1, <2>1, <2>8, <2>9, <2>10, <2>11, <2>12, <2>13, RoutingMove
  <1> QED BY <1>1, <1>3, <1>4

LEMMA RoutingAddsDelivery ==
    ASSUME RoutingGiven, RoutingInv, NEW p \in Requests, R!_add_deliveries(p)
    PROVE  RoutingInv'
  <1> Routes(p) BY DEF RoutingInv
  <1> PICK s, c : s = Head(todo[p]) /\ c = s.channel OBVIOUS
  <1>1. /\ pc[p] = "writing" /\ todo[p] # <<>> /\ s.kind = "insert" /\ s.table = "delivery"
        /\ {q \in R!Holders(p, "channel", c) : written[q].channel[c] = NoRow} = {}
        /\ UNCHANGED <<rows, deliveries, written, purged, request, read, overtaken, started>>
        /\ \/ rows.channel[c] = NoRow /\ R!Go(p, "refused", <<>>) /\ UNCHANGED inserted
           \/ /\ rows.channel[c] # NoRow /\ R!Go(p, "writing", Tail(todo[p]))
              /\ inserted' = [inserted EXCEPT ![p] = @ \cup {c}]
    BY DEF R!_add_deliveries
  <1>2. /\ Meant(request[p], s) /\ request[p] # NoRequest /\ s = todo[p][1] /\ 1 \in DOMAIN todo[p]
    BY <1>1, FirstOfPlan
  <1>3. request[p].op = "ingest" /\ c \in Channels
    <2>1. request[p].op \in Storing \cup {"ingest"} BY <1>1, <1>2 DEF Meant
    <2>2. "delivery" \notin {OnTable(op) : op \in Storing} BY DEF OnTable
    <2>3. "delete_channel" \notin Storing BY DEF Storing, Pairing
    <2>4. request[p].op = "ingest" BY <1>1, <1>2, <2>1, <2>2, <2>3 DEF Meant
    <2> QED BY <1>2, <2>4 DEF Meant
  <1>4. Lasts(p, c) BY <1>2, <1>3 DEF Routes, Bound
  <1>5. CASE rows.channel[c] = NoRow /\ R!Go(p, "refused", <<>>) /\ UNCHANGED inserted
    <2>1. {"delete_channel"} \subseteq R!Deletions BY DEF R!Deletions
    <2>2. OvertakenBy(p, R!Deletions) BY <1>4, <1>5, <2>1, OvertakenMore DEF Lasts
    <2> QED BY <1>1, <1>2, <1>3, <1>5, <2>2, RoutingStops
  <1>6. CASE /\ rows.channel[c] # NoRow /\ R!Go(p, "writing", Tail(todo[p]))
             /\ inserted' = [inserted EXCEPT ![p] = @ \cup {c}]
    <2>1. /\ pc'[p] = "writing" /\ todo'[p] = Tail(todo[p])
          /\ DOMAIN pc' = Requests /\ DOMAIN todo' = Requests
          /\ \A q \in Requests \ {p} : pc'[q] = pc[q] /\ todo'[q] = todo[q]
      BY <1>6 DEF R!Go, RoutingInv, RoutingTypes
    <2>2. /\ inserted' \in [Requests -> SUBSET Channels] /\ inserted'[p] = inserted[p] \cup {c}
          /\ \A q \in Requests \ {p} : inserted'[q] = inserted[q]
      <3>1. inserted \in [Requests -> SUBSET Channels] BY DEF RoutingInv, RoutingTypes
      <3> QED BY <1>3, <1>6, <3>1
    <2>3. R!Exists(rows.channel[c]) BY <1>4, <1>6 DEF Lasts, R!Exists
    <2>4. \A t \in R!Tables, d \in Channels : written[p][t][d] = Same
      BY <1>3 DEF Routes, RoutingWrites, Wrote
    <2>5. NoRow # Same /\ "channel" \in R!Tables /\ R!Pairs \subseteq R!Tables
      BY DEF RoutingGiven, R!Tables, R!Pairs
    <2>6. Others(p) BY <1>1, <2>1, <2>2 DEF Others
    <2>7. KeepsAway(p)
      <3> SUFFICES ASSUME NEW q \in Requests \ {p}
                   PROVE  /\ \A d \in Channels : written[q].channel[d] = NoRow =>
                              d \notin inserted'[p] /\ \A u \in R!Pairs : written[p][u][d] = Same
                          /\ request[q] # NoRequest /\ request[q].op = "create_channel" =>
                              request[p].channel # request[q].channel
        BY <1>1 DEF KeepsAway
      <3>1. ChannelGoes(q) /\ Bound(q) BY DEF RoutingInv, Routes
      <3>2. written[q].channel[c] # NoRow BY <1>1, <2>5 DEF R!Holders
      <3> QED BY <1>2, <2>2, <3>1, <3>2 DEF ChannelGoes, Bound
    <2>8. RoutingTypes' BY <1>1, <2>1, <2>2 DEF RoutingInv, RoutingTypes
    <2>9. /\ PhaseOf(p)' /\ RoutingStatements(p)' /\ Justified(p)' /\ Chooses(p)'
          /\ request[p].op = "ingest" => \A n \in DOMAIN todo'[p] : Lasts(p, todo'[p][n].channel)
      BY <1>1, <1>3, <2>1, RestOfPlan
    <2>10. RoutingWrites(p)' BY <1>1, <2>4 DEF RoutingWrites
    <2>11. Bound(p)'
      <3>1. \A d : Lasts(p, d)' <=> Lasts(p, d) BY <1>1 DEF Lasts, OvertakenBy, R!Range
      <3> QED BY <1>1, <1>3, <2>9, <3>1 DEF Bound
    <2>12. Reaches(p)' BY <1>1, <2>2, <2>3 DEF Routes, Reaches
    <2>13. ChannelGoes(p)' BY <1>1, <2>4, <2>5 DEF ChannelGoes
    <2>14. Empties(p)' BY <1>1, <1>3 DEF Empties
    <2>15. Routes(p)' BY <2>9, <2>10, <2>11, <2>12, <2>13, <2>14 DEF Routes
    <2>16. \A q \in Requests \ {p}, u \in R!Tables, d \in Channels :
               written'[p][u][d] # Same => written[q][u][d] = Same
      BY <1>1, <2>4
    <2> QED BY <1>1, <2>6, <2>7, <2>8, <2>15, <2>16, RoutingStep
  <1> QED BY <1>1, <1>5, <1>6

-----------------------------------------------------------------------------
\* The end of a request.
LEMMA RoutingFinish ==
    ASSUME RoutingGiven, RoutingInv, NEW p \in Requests, R!Finish(p)
    PROVE  /\ written' \in [Requests -> [R!Tables -> [Channels ->
                 {Same, NoRow} \cup ChannelRow \cup BindingRow \cup OverrideRow]]]
           /\ inserted' \in [Requests -> SUBSET Channels]
           /\ DOMAIN purged' = Requests /\ DOMAIN request' = Requests /\ DOMAIN pc' = Requests
           /\ DOMAIN todo' = Requests /\ DOMAIN read' = Requests
           /\ \A t \in R!Tables, c \in Channels : written'[p][t][c] = Same
           /\ inserted'[p] = {} /\ request'[p] = NoRequest /\ pc'[p] = "idle" /\ todo'[p] = <<>>
           /\ \A q \in Requests \ {p} :
                 /\ written'[q] = written[q] /\ inserted'[q] = inserted[q] /\ purged'[q] = purged[q]
                 /\ request'[q] = request[q] /\ pc'[q] = pc[q] /\ todo'[q] = todo[q]
                 /\ read'[q] = read[q]
           /\ PhaseOf(p)' /\ RoutingStatements(p)' /\ RoutingWrites(p)' /\ Bound(p)' /\ Reaches(p)'
           /\ ChannelGoes(p)' /\ Empties(p)' /\ Justified(p)' /\ Chooses(p)'
           /\ RoutingOneWriter'
  <1>1. /\ inserted' \in [Requests -> SUBSET Channels]
        /\ DOMAIN purged' = Requests /\ DOMAIN request' = Requests /\ DOMAIN pc' = Requests
        /\ DOMAIN todo' = Requests /\ DOMAIN read' = Requests
        /\ inserted'[p] = {} /\ request'[p] = NoRequest /\ pc'[p] = "idle" /\ todo'[p] = <<>>
        /\ \A q \in Requests \ {p} :
              /\ inserted'[q] = inserted[q] /\ purged'[q] = purged[q]
              /\ request'[q] = request[q] /\ pc'[q] = pc[q] /\ todo'[q] = todo[q]
              /\ read'[q] = read[q]
    BY DEF R!Finish, R!Go, RoutingInv, RoutingTypes
  <1>2. /\ written' \in [Requests -> [R!Tables -> [Channels ->
              {Same, NoRow} \cup ChannelRow \cup BindingRow \cup OverrideRow]]]
        /\ \A t \in R!Tables, c \in Channels : written'[p][t][c] = Same
        /\ \A q \in Requests \ {p} : written'[q] = written[q]
    <2>1. [t \in R!Tables |-> [c \in Channels |-> Same]] \in [R!Tables -> [Channels ->
              {Same, NoRow} \cup ChannelRow \cup BindingRow \cup OverrideRow]]
      OBVIOUS
    <2>2. written \in [Requests -> [R!Tables -> [Channels ->
              {Same, NoRow} \cup ChannelRow \cup BindingRow \cup OverrideRow]]]
      BY DEF RoutingInv, RoutingTypes
    <2>3. written' = [written EXCEPT ![p] = [t \in R!Tables |-> [c \in Channels |-> Same]]]
      BY DEF R!Finish
    <2>4. written'[p] = [t \in R!Tables |-> [c \in Channels |-> Same]] BY <2>2, <2>3
    <2>5. \A t \in R!Tables, c \in Channels : written'[p][t][c] = Same BY <2>4
    <2> QED BY <2>1, <2>2, <2>3, <2>5
  <1>3. "channel" \in R!Tables /\ R!Pairs \subseteq R!Tables /\ NoRow # Same
    BY DEF R!Tables, R!Pairs, RoutingGiven
  <1>4. PhaseOf(p)' BY <1>1, PlanNone DEF PhaseOf
  <1>5. RoutingStatements(p)' BY <1>1, PlanNone DEF RoutingStatements
  <1>6. RoutingWrites(p)' BY <1>2 DEF RoutingWrites
  <1>7. Bound(p)' BY <1>1 DEF Bound
  <1>8. Reaches(p)' BY <1>1, <1>2, <1>3 DEF Reaches
  <1>9. ChannelGoes(p)' BY <1>2, <1>3 DEF ChannelGoes
  <1>10. Empties(p)' BY <1>1 DEF Empties
  <1>11. Justified(p)' BY <1>1, PlanNone DEF Justified
  <1>12. Chooses(p)' BY <1>1 DEF Chooses
  <1>13. RoutingOneWriter'
    <2> SUFFICES ASSUME NEW a \in Requests, NEW b \in Requests, a # b, NEW t \in R!Tables,
                        NEW c \in Channels, written'[a][t][c] # Same
                 PROVE  written'[b][t][c] = Same
      BY DEF RoutingOneWriter
    <2>1. a # p BY <1>2
    <2>2. CASE b = p BY <1>2, <2>2
    <2>3. CASE b # p
      <3>1. written'[a] = written[a] /\ written'[b] = written[b] BY <1>2, <2>1, <2>3
      <3> QED BY <3>1 DEF RoutingInv, RoutingOneWriter
    <2> QED BY <2>2, <2>3
  <1> QED BY <1>1, <1>2, <1>4, <1>5, <1>6, <1>7, <1>8, <1>9, <1>10, <1>11, <1>12, <1>13

LEMMA RoutingRollback ==
    ASSUME RoutingGiven, RoutingInv, NEW p \in Requests, R!rollback(p)
    PROVE  RoutingInv'
  <1>1. R!Finish(p) /\ UNCHANGED <<rows, deliveries, overtaken, started>> BY DEF R!rollback
  <1>2. Others(p) BY <1>1, RoutingFinish DEF Others
  <1>3. KeepsAway(p)
    <2>1. R!Pairs \subseteq R!Tables BY DEF R!Pairs, R!Tables
    <2> QED BY <1>1, <2>1, RoutingFinish DEF KeepsAway
  <1>4. RoutingTypes' BY <1>1, RoutingFinish DEF RoutingInv, RoutingTypes
  <1>5. Routes(p)' BY <1>1, RoutingFinish DEF Routes
  <1>6. \A q \in Requests \ {p}, t \in R!Tables, c \in Channels :
            written'[p][t][c] # Same => written[q][t][c] = Same
    BY <1>1, RoutingFinish
  <1> QED BY <1>1, <1>2, <1>3, <1>4, <1>5, <1>6, RoutingStep

\* What a commit makes of each row, and of the deliveries.
LEMMA CommitCells ==
    ASSUME RoutingGiven, RoutingInv, NEW p \in Requests, R!commit(p)
    PROVE  /\ request[p] # NoRequest /\ RoutingRequest(request[p])
           /\ \A t \in R!Tables, c \in Channels :
                 /\ rows'[t][c] = R!View(p, t, c)
                 /\ written[p][t][c] = Same => rows'[t][c] = rows[t][c]
                 /\ written[p][t][c] # Same =>
                       rows'[t][c] = written[p][t][c] /\ Wrote(p, t, c, rows'[t][c])
                 /\ rows'[t][c] \in Cells(t)
           /\ \A t \in R!Tables : rows'[t] \in [Channels -> Cells(t)]
           /\ \A q \in Requests \ {p} : pc[q] # "idle" =>
                 overtaken'[q] = Append(overtaken[q], request[p].op)
           /\ overtaken' \in [Requests -> Seq(RoutingOps)]
           /\ deliveries' \subseteq deliveries \cup {<<c, request[p].id>> : c \in inserted[p]}
           /\ deliveries' \cap purged[p] \subseteq {<<c, request[p].id>> : c \in inserted[p]}
           /\ R!Finish(p) /\ started' = started /\ todo[p] = <<>> /\ pc[p] = "writing"
  <1> Routes(p) BY DEF RoutingInv
  <1>1. /\ pc[p] = "writing" /\ todo[p] = <<>> /\ R!Finish(p) /\ started' = started
        /\ rows' = [t \in R!Tables |-> [c \in Channels |-> R!View(p, t, c)]]
        /\ deliveries' = (deliveries \ purged[p]) \cup {<<c, request[p].id>> : c \in inserted[p]}
        /\ overtaken' = [q \in Requests |->
                            IF q = p \/ pc[q] = "idle" THEN overtaken[q]
                            ELSE Append(overtaken[q], request[p].op)]
    BY DEF R!commit
  <1>2. request[p] # NoRequest /\ RoutingRequest(request[p]) BY <1>1 DEF Routes, PhaseOf
  <1>3. ASSUME NEW t \in R!Tables, NEW c \in Channels
        PROVE  /\ rows'[t][c] = R!View(p, t, c)
               /\ written[p][t][c] = Same => rows'[t][c] = rows[t][c]
               /\ written[p][t][c] # Same =>
                       rows'[t][c] = written[p][t][c] /\ Wrote(p, t, c, rows'[t][c])
               /\ rows'[t][c] \in Cells(t)
    <2>1. rows'[t][c] = R!View(p, t, c) BY <1>1
    <2>2. CASE written[p][t][c] = Same
      BY <2>1, <2>2 DEF R!View, RoutingInv, RoutingTypes
    <2>3. CASE written[p][t][c] # Same
      <3>1. rows'[t][c] = written[p][t][c] BY <2>1, <2>3 DEF R!View
      <3>2. Wrote(p, t, c, rows'[t][c]) BY <2>3, <3>1 DEF Routes, RoutingWrites
      <3>3. rows'[t][c] \in Cells(t) BY <3>2 DEF Wrote, Cells
      <3> QED BY <2>1, <2>3, <3>1, <3>2, <3>3
    <2> QED BY <2>2, <2>3
  <1>4. \A t \in R!Tables : rows'[t] \in [Channels -> Cells(t)] BY <1>1, <1>3
  <1>5. overtaken' \in [Requests -> Seq(RoutingOps)]
    <2>1. request[p].op \in RoutingOps BY <1>2 DEF RoutingRequest
    <2>2. \A q \in Requests : overtaken[q] \in Seq(RoutingOps) BY DEF RoutingInv, RoutingTypes
    <2>3. \A q \in Requests : Append(overtaken[q], request[p].op) \in Seq(RoutingOps)
      BY <2>1, <2>2
    <2> QED BY <1>1, <2>2, <2>3
  <1> QED BY <1>1, <1>2, <1>3, <1>4, <1>5

\* Whom a commit overtakes.
LEMMA CommitOvertakes ==
    ASSUME RoutingGiven, RoutingInv, NEW p \in Requests, R!commit(p), NEW q \in Requests \ {p},
           pc[q] # "idle", NEW ops
    PROVE  /\ OvertakenBy(q, ops) => OvertakenBy(q, ops)'
           /\ request[p].op \in ops => OvertakenBy(q, ops)'
  <1>1. overtaken'[q] = Append(overtaken[q], request[p].op) BY CommitCells
  <1>2. overtaken[q] \in Seq(RoutingOps) BY DEF RoutingInv, RoutingTypes
  <1>3. request[p].op \in RoutingOps BY CommitCells DEF RoutingRequest
  <1>4. /\ DOMAIN overtaken'[q] = 1 .. (Len(overtaken[q]) + 1)
        /\ overtaken'[q][Len(overtaken[q]) + 1] = request[p].op
        /\ \A n \in DOMAIN overtaken[q] : n \in DOMAIN overtaken'[q] /\ overtaken'[q][n] = overtaken[q][n]
        /\ Len(overtaken[q]) + 1 \in DOMAIN overtaken'[q]
    BY <1>1, <1>2, <1>3
  <1> QED BY <1>4 DEF OvertakenBy, R!Range

\* What a commit makes of a row that there was, and of one that there was not.
LEMMA CommitChanges ==
    ASSUME RoutingGiven, RoutingInv, NEW p \in Requests, R!commit(p), NEW t \in R!Tables,
           NEW c \in Channels
    PROVE  LET op == request[p].op
               old == rows[t][c]
               new == rows'[t][c]
           IN  /\ R!Exists(old) => \/ R!Exists(new) /\ new.id = old.id
                                   \/ new = NoRow /\ op \in R!Deletions
               /\ old = NoRow => \/ new = NoRow
                                 \/ t \in R!Pairs /\ op \in Pairing
               /\ t = "channel" /\ new = NoRow => old = NoRow \/ op = "delete_channel"
               /\ new = Unborn => old = Unborn
  <1>1. CASE written[p][t][c] = Same
    <2>1. rows'[t][c] = rows[t][c] BY <1>1, CommitCells
    <2> QED BY <2>1 DEF R!Exists
  <1>2. CASE written[p][t][c] # Same
    <2>1. Wrote(p, t, c, rows'[t][c]) BY <1>2, CommitCells
    <2>2. rows'[t][c] # NoRow => rows'[t][c] # Unborn BY <2>1 DEF Wrote, RoutingGiven
    <2>3. NoRow # Unborn BY DEF RoutingGiven
    <2>4. t \in R!Pairs \/ t = "channel" BY DEF R!Tables, R!Pairs
    <2>5. t = "channel" /\ request[p].op \in R!Deletions => request[p].op = "delete_channel"
      BY <2>1 DEF Wrote, OnTable, R!Deletions
    <2> QED BY <2>1, <2>2, <2>3, <2>4, <2>5 DEF Wrote, R!Exists
  <1> QED BY <1>1, <1>2

LEMMA CommitRefers ==
    ASSUME RoutingGiven, RoutingInv, NEW p \in Requests, R!commit(p)
    PROVE  Refer(rows, deliveries)'
  <1> SUFFICES ASSUME NEW c \in Channels, ~R!Exists(rows'.channel[c])
               PROVE  /\ rows'.binding[c] = NoRow /\ rows'.override[c] = NoRow
                      /\ \A d \in deliveries' : d[1] # c
    BY DEF Refer, R!Exists
  <1> Routes(p) BY DEF RoutingInv
  <1>1. "channel" \in R!Tables /\ "binding" \in R!Pairs /\ "override" \in R!Pairs /\ R!Pairs \subseteq R!Tables
    BY DEF R!Tables, R!Pairs
  <1>2. /\ deliveries' \subseteq deliveries \cup {<<d, request[p].id>> : d \in inserted[p]}
        /\ deliveries' \cap purged[p] \subseteq {<<d, request[p].id>> : d \in inserted[p]}
    BY CommitCells
  <1>3. CASE written[p].channel[c] = NoRow
    <2>1. ChannelGoes(p) BY DEF Routes
    <2>2. \A t \in R!Pairs : rows'[t][c] = NoRow BY <1>1, <1>3, <2>1, CommitCells DEF ChannelGoes
    <2>3. \A d \in deliveries \ purged[p] : d[1] # c BY <1>3, <2>1 DEF ChannelGoes
    <2>4. c \notin inserted[p]
      <3>1. Wrote(p, "channel", c, NoRow)
        BY <1>1, <1>3 DEF Routes, RoutingWrites, RoutingGiven
      <3>2. request[p].op # "ingest" BY <3>1 DEF Wrote
      <3> QED BY <3>2 DEF Routes, PhaseOf
    <2>5. \A d \in deliveries' : d[1] # c
      <3> TAKE d \in deliveries'
      <3>1. CASE d \in {<<e, request[p].id>> : e \in inserted[p]} BY <2>4, <3>1
      <3>2. CASE d \notin {<<e, request[p].id>> : e \in inserted[p]} BY <1>2, <2>3, <3>2
      <3> QED BY <3>1, <3>2
    <2> QED BY <1>1, <2>2, <2>5
  <1>4. CASE written[p].channel[c] # NoRow
    <2>1. ~R!Exists(rows.channel[c])
      <3>1. CASE written[p].channel[c] = Same BY <1>1, <3>1, CommitCells
      <3>2. CASE written[p].channel[c] # Same
        <4>1. rows'.channel[c] = written[p].channel[c] /\ Wrote(p, "channel", c, rows'.channel[c])
          BY <1>1, <3>2, CommitCells
        <4>2. rows'.channel[c] \in RowsOf("channel") BY <1>4, <4>1 DEF Wrote
        <4> QED BY <1>1, <4>2 DEF R!Exists, RoutingGiven
      <3> QED BY <3>1, <3>2
    <2>2. /\ rows.binding[c] = NoRow /\ rows.override[c] = NoRow
          /\ \A d \in deliveries : d[1] # c
      BY <2>1 DEF RoutingInv, Refer
    <2>3. c \notin inserted[p] /\ \A t \in R!Pairs : written[p][t][c] \in {Same, NoRow}
      BY <2>1 DEF Routes, Reaches
    <2>4. \A t \in R!Pairs : rows'[t][c] = NoRow BY <1>1, <2>2, <2>3, CommitCells DEF R!Pairs
    <2>5. \A d \in deliveries' : d[1] # c
      <3> TAKE d \in deliveries'
      <3>1. CASE d \in {<<e, request[p].id>> : e \in inserted[p]} BY <2>3, <3>1
      <3>2. CASE d \notin {<<e, request[p].id>> : e \in inserted[p]} BY <1>2, <2>2, <3>2
      <3> QED BY <3>1, <3>2
    <2> QED BY <1>1, <2>4, <2>5
  <1> QED BY <1>3, <1>4

\* A channel that lasts, and a row that a statement finds, after another's commit.
LEMMA CommitLasts ==
    ASSUME RoutingGiven, RoutingInv, NEW p \in Requests, R!commit(p), NEW q \in Requests \ {p},
           pc[q] # "idle", NEW c \in Channels, Lasts(q, c)
    PROVE  Lasts(q, c)'
  <1>1. "channel" \in R!Tables BY DEF R!Tables
  <1>2. OvertakenBy(q, {"delete_channel"}) => OvertakenBy(q, {"delete_channel"})'
    BY CommitOvertakes
  <1>3. request[p].op = "delete_channel" => OvertakenBy(q, {"delete_channel"})'
    BY CommitOvertakes
  <1>4. /\ rows'.channel[c] = NoRow => rows.channel[c] = NoRow \/ request[p].op = "delete_channel"
        /\ rows'.channel[c] = Unborn => rows.channel[c] = Unborn
    BY <1>1, CommitChanges
  <1> QED BY <1>2, <1>3, <1>4 DEF Lasts

LEMMA CommitFinds ==
    ASSUME RoutingGiven, RoutingInv, NEW p \in Requests, R!commit(p), NEW s,
           s.table \in R!Tables, s.channel \in Channels, Finds(s)
    PROVE  \/ Finds(s)'
           \/ rows'[s.table][s.channel] = NoRow /\ request[p].op \in R!Deletions
  BY CommitChanges DEF Finds

\* What the others rely on survives a commit: their own writes and what these refer to...
LEMMA CommitWrites ==
    ASSUME RoutingGiven, RoutingInv, NEW p \in Requests, R!commit(p), NEW q \in Requests \ {p}
    PROVE  RoutingWrites(q)' /\ Reaches(q)' /\ ChannelGoes(q)'
  <1> Routes(q) /\ Routes(p) BY DEF RoutingInv
  <1>1. "channel" \in R!Tables /\ R!Pairs \subseteq R!Tables /\ NoRow # Same
    BY DEF R!Tables, R!Pairs, RoutingGiven
  <1>2. /\ written'[q] = written[q] /\ inserted'[q] = inserted[q] /\ purged'[q] = purged[q]
        /\ request'[q] = request[q]
        /\ inserted'[p] = {} /\ \A t \in R!Tables, c \in Channels : written'[p][t][c] = Same
        /\ \A o \in Requests \ {p} : written'[o] = written[o] /\ inserted'[o] = inserted[o]
    BY CommitCells, RoutingFinish
  <1>3. \A t \in R!Tables, c \in Channels : written[q][t][c] # Same => rows'[t][c] = rows[t][c]
    <2> TAKE t \in R!Tables, c \in Channels
    <2>1. written[q][t][c] # Same => written[p][t][c] = Same BY DEF RoutingInv, RoutingOneWriter
    <2> QED BY <2>1, CommitCells
  <1>4. RoutingWrites(q)'
    <2>1. ASSUME NEW t \in R!Tables, NEW c \in Channels, NEW v, v = written[q][t][c], v # Same
          PROVE  Wrote(q, t, c, v)'
      <3>1. Wrote(q, t, c, v) BY <2>1 DEF Routes, RoutingWrites
      <3>2. rows'[t][c] = rows[t][c] BY <1>3, <2>1
      <3> QED BY <1>2, <3>1, <3>2 DEF Wrote
    <2> QED BY <1>2, <2>1 DEF RoutingWrites, Wrote
  <1>5. Reaches(q)'
    <2> SUFFICES ASSUME NEW c \in Channels,
                        \/ c \in inserted[q]
                        \/ \E t \in R!Pairs : written[q][t][c] \notin {Same, NoRow}
                 PROVE  R!Exists(rows'.channel[c])
      BY <1>2 DEF Reaches, R!Exists
    <2>1. R!Exists(rows.channel[c]) BY DEF Routes, Reaches
    <2>2. written[p].channel[c] # NoRow BY DEF Routes, ChannelGoes
    <2>3. CASE written[p].channel[c] = Same BY <1>1, <2>1, <2>3, CommitCells
    <2>4. CASE written[p].channel[c] # Same
      <3>1. rows'.channel[c] = written[p].channel[c] /\ Wrote(p, "channel", c, rows'.channel[c])
        BY <1>1, <2>4, CommitCells
      <3>2. rows'.channel[c] \in RowsOf("channel") BY <2>2, <3>1 DEF Wrote
      <3> QED BY <1>1, <3>2 DEF R!Exists, RoutingGiven
    <2> QED BY <2>3, <2>4
  <1>6. ChannelGoes(q)'
    <2> SUFFICES ASSUME NEW c \in Channels, written[q].channel[c] = NoRow
                 PROVE  /\ \A t \in R!Pairs : R!View(q, t, c)' = NoRow
                        /\ \A d \in deliveries' \ purged[q] : d[1] # c
                        /\ \A o \in Requests \ {q} :
                              c \notin inserted'[o] /\ \A t \in R!Pairs : written'[o][t][c] = Same
      BY <1>2 DEF ChannelGoes
    <2>1. /\ \A t \in R!Pairs : R!View(q, t, c) = NoRow
          /\ \A d \in deliveries \ purged[q] : d[1] # c
          /\ \A o \in Requests \ {q} :
                c \notin inserted[o] /\ \A t \in R!Pairs : written[o][t][c] = Same
      BY DEF Routes, ChannelGoes
    <2>2. \A t \in R!Pairs : R!View(q, t, c)' = NoRow
      <3> TAKE t \in R!Pairs
      <3>1. written[p][t][c] = Same BY <2>1
      <3>2. rows'[t][c] = rows[t][c] BY <1>1, <3>1, CommitCells
      <3> QED BY <1>2, <2>1, <3>2 DEF R!View
    <2>3. \A d \in deliveries' \ purged[q] : d[1] # c
      <3> TAKE d \in deliveries' \ purged[q]
      <3>1. deliveries' \subseteq deliveries \cup {<<e, request[p].id>> : e \in inserted[p]}
        BY CommitCells
      <3>2. CASE d \in deliveries BY <2>1, <3>2
      <3>3. CASE d \in {<<e, request[p].id>> : e \in inserted[p]} BY <2>1, <3>3
      <3> QED BY <3>1, <3>2, <3>3
    <2>4. \A o \in Requests \ {q} : c \notin inserted'[o] /\ \A t \in R!Pairs : written'[o][t][c] = Same
      BY <1>1, <1>2, <2>1
    <2> QED BY <2>2, <2>3, <2>4
  <1> QED BY <1>4, <1>5, <1>6

\* ... and what they stand on.
LEMMA CommitStands ==
    ASSUME RoutingGiven, RoutingInv, NEW p \in Requests, R!commit(p), NEW q \in Requests \ {p}
    PROVE  PhaseOf(q)' /\ RoutingStatements(q)' /\ Bound(q)' /\ Justified(q)'
  <1> Routes(q) /\ Routes(p) BY DEF RoutingInv
  <1>1. /\ request'[q] = request[q] /\ pc'[q] = pc[q] /\ todo'[q] = todo[q] /\ read'[q] = read[q]
        /\ inserted'[q] = inserted[q] /\ request'[p] = NoRequest
        /\ \A o \in Requests \ {p} : request'[o] = request[o]
    BY CommitCells, RoutingFinish
  <1>2. PhaseOf(q)' BY <1>1 DEF Routes, PhaseOf
  <1>3. RoutingStatements(q)' BY <1>1 DEF Routes, RoutingStatements
  <1>4. pc[q] # "idle" =>
            /\ OvertakenBy(q, R!Deletions) => OvertakenBy(q, R!Deletions)'
            /\ OvertakenBy(q, R!Insertions) => OvertakenBy(q, R!Insertions)'
            /\ request[p].op \in R!Deletions => OvertakenBy(q, R!Deletions)'
    BY CommitOvertakes
  <1>5. (request[q] # NoRequest => RoutingRequest(request[q])) /\ (pc[q] = "idle" <=> request[q] = NoRequest)
    BY DEF Routes, PhaseOf
  <1>6. Bound(q)'
    <2> SUFFICES ASSUME request[q] # NoRequest PROVE Bound(q)' BY <1>1 DEF Bound
    <2>1. pc[q] # "idle" /\ RoutingRequest(request[q]) BY <1>5
    <2>2. Bound(q) BY DEF Routes
    <2>6. PICK c : c = request[q].channel OBVIOUS
    <2>3. CASE request[q].op = "create_channel"
      <3>1. c \in Channels /\ rows.channel[c] = Unborn
        BY <2>1, <2>2, <2>3, <2>6 DEF RoutingRequest, Bound
      <3>2. "channel" \in R!Tables BY DEF R!Tables
      <3>3. request[p].channel # c BY <2>2, <2>3, <2>6, CommitCells DEF Bound
      <3>4. written[p].channel[c] = Same
        BY <3>1, <3>2, <3>3 DEF Routes, RoutingWrites, Wrote
      <3>5. rows'.channel[c] = Unborn BY <3>1, <3>2, <3>4, CommitCells
      <3>6. \A o \in Requests \ {q} : request'[o] # NoRequest => request'[o].channel # c
        BY <1>1, <2>2, <2>3, <2>6 DEF Bound
      <3> QED BY <1>1, <2>3, <2>6, <3>5, <3>6 DEF Bound
    <2>4. CASE request[q].op = "ingest"
      <3>1. \A n \in DOMAIN todo[q] : Lasts(q, todo[q][n].channel) BY <2>2, <2>4 DEF Bound
      <3>2. \A n \in DOMAIN todo[q] : todo[q][n].channel \in Channels
        BY <2>4 DEF Routes, RoutingStatements, Meant
      <3>3. ASSUME NEW n \in DOMAIN todo[q], NEW d, d = todo[q][n].channel PROVE Lasts(q, d)'
        BY <2>1, <3>1, <3>2, <3>3, CommitLasts
      <3>4. PICK plan : plan = todo[q] OBVIOUS
      <3>5. \A n \in DOMAIN plan : Lasts(q, plan[n].channel)' BY <3>3, <3>4
      <3>6. todo'[q] = plan BY <1>1, <3>4
      <3> QED BY <1>1, <2>4, <3>5, <3>6 DEF Bound
    <2>5. CASE request[q].op \notin {"create_channel", "ingest"}
      <3>1. c \in Channels /\ Lasts(q, c) BY <2>1, <2>2, <2>5, <2>6 DEF RoutingRequest, Bound
      <3>2. Lasts(q, c)' BY <2>1, <3>1, CommitLasts
      <3>3. request'[q].channel = c BY <1>1, <2>6
      <3> QED BY <1>1, <2>5, <3>2, <3>3 DEF Bound
    <2> QED BY <2>3, <2>4, <2>5
  <1>7. Justified(q)'
    <2>1. Justified(q) BY DEF Routes
    <2>2. ASSUME NEW n \in DOMAIN todo[q], NEW s, s = todo[q][n], s.kind = "update"
          PROVE  Finds(s)' \/ OvertakenBy(q, R!Deletions)'
      <3>1. Finds(s) \/ OvertakenBy(q, R!Deletions) BY <2>1, <2>2 DEF Justified
      <3>2. pc[q] # "idle" /\ RoutingRequest(request[q]) /\ Meant(request[q], s)
        <4>1. pc[q] = "writing" BY <2>2, PlanNone DEF Routes, PhaseOf
        <4> QED BY <1>5, <2>2, <4>1 DEF Routes, RoutingStatements
      <3>3. request[q].op \in Pairing \cup Changing BY <2>2, <3>2 DEF Meant
      <3>4. s.table \in R!Tables /\ s.channel \in Channels
        <4>1. s.table = OnTable(request[q].op) BY <3>2, <3>3 DEF Meant, Pairing, Changing
        <4>2. request[q].op # "ingest" BY <3>3 DEF Pairing, Changing
        <4> QED BY <3>2, <4>1, <4>2 DEF Meant, RoutingRequest, OnTable, R!Tables
      <3> QED BY <1>4, <3>1, <3>2, <3>4, CommitFinds
    <2>6. PICK plan : plan = todo[q] OBVIOUS
    <2>3. todo'[q] = plan /\ \A n \in DOMAIN plan : plan[n].kind = "update" =>
              Finds(plan[n])' \/ OvertakenBy(q, R!Deletions)'
      BY <1>1, <2>2, <2>6
    <2>4. pc[q] = "rereading" =>
              rows'[OnTable(request[q].op)][request[q].channel] # NoRow \/ OvertakenBy(q, R!Deletions)'
      <3> SUFFICES ASSUME pc[q] = "rereading", ~OvertakenBy(q, R!Deletions)',
                          NEW t, NEW c, t = OnTable(request[q].op), c = request[q].channel
                   PROVE  rows'[t][c] # NoRow
        OBVIOUS
      <3>1. request[q].op \in Pairing /\ RoutingRequest(request[q]) BY <1>5 DEF Routes, PhaseOf
      <3>2. c \in Channels /\ t \in R!Pairs /\ t \in R!Tables
        BY <3>1 DEF RoutingRequest, Pairing, OnTable, R!Pairs, R!Tables
      <3>3. rows[t][c] # NoRow BY <1>4, <2>1 DEF Justified
      <3>4. R!Exists(rows[t][c]) BY <3>2, <3>3, RowsThere DEF R!Pairs
      <3>5. rows'[t][c] = NoRow => request[p].op \in R!Deletions
        BY <3>2, <3>4, CommitChanges DEF R!Exists
      <3> QED BY <1>4, <3>5
    <2>5. pc[q] = "refused" =>
              \/ IF request[q].op = "delete_channel" THEN OvertakenBy(q, R!Insertions)'
                 ELSE OvertakenBy(q, R!Deletions)'
              \/ request[q].op = "ingest" /\ R!Unusable(read[q].bindings, read[q].overrides)
      BY <1>4, <2>1 DEF Justified
    <2> QED BY <1>1, <2>3, <2>4, <2>5 DEF Justified
  <1> QED BY <1>2, <1>3, <1>6, <1>7

LEMMA CommitEmpties ==
    ASSUME RoutingGiven, RoutingInv, NEW p \in Requests, R!commit(p), NEW q \in Requests \ {p}
    PROVE  Empties(q)'
  <1> Routes(q) /\ Routes(p) BY DEF RoutingInv
  <1>1. /\ request'[q] = request[q] /\ pc'[q] = pc[q] /\ todo'[q] = todo[q]
        /\ written'[q] = written[q] /\ purged'[q] = purged[q]
    BY CommitCells, RoutingFinish
  <1> SUFFICES ASSUME request[q] # NoRequest, request[q].op = "delete_channel", pc[q] = "writing"
               PROVE  Empties(q)'
    BY <1>1 DEF Empties
  <1>2. PICK c : c = request[q].channel OBVIOUS
  <1>3. PICK plan : plan = todo[q] OBVIOUS
  <1>4. c \in Channels BY <1>2 DEF Routes, PhaseOf, RoutingRequest
  <1>5. \A n \in DOMAIN plan :
            /\ plan[n].kind = "delete" => plan[n].table \in R!Tables /\ plan[n].channel = c
            /\ plan[n].channel = c /\ plan[n].kind \in {"delete", "purge"}
    BY <1>2, <1>3 DEF Routes, RoutingStatements, Meant, Storing, Pairing, Changing
  <1>6. /\ OvertakenBy(q, R!Insertions) => OvertakenBy(q, R!Insertions)'
        /\ request[p].op \in R!Insertions => OvertakenBy(q, R!Insertions)'
    BY CommitOvertakes
  <1>7. \A t \in R!Tables : rows'[t][c] = NoRow => R!View(q, t, c)' = NoRow
    <2> TAKE t \in R!Tables
    <2>1. written[q][t][c] \in {Same, NoRow}
      BY <1>4 DEF Routes, RoutingWrites, Wrote, R!Deletions
    <2>2. NoRow # Same BY DEF RoutingGiven
    <2> QED BY <1>1, <2>1, <2>2 DEF R!View
  <1>8. \A t \in R!Tables : R!View(q, t, c) = NoRow =>
            R!View(q, t, c)' = NoRow \/ (t \in R!Pairs /\ OvertakenBy(q, R!Insertions)')
    <2> TAKE t \in R!Tables
    <2>1. CASE written[q][t][c] = Same
      <3>1. rows[t][c] = NoRow => rows'[t][c] = NoRow \/ (t \in R!Pairs /\ request[p].op \in Pairing)
        BY <1>4, CommitChanges
      <3> QED BY <1>6, <1>7, <2>1, <3>1 DEF R!View, Pairing, R!Insertions
    <2>2. CASE written[q][t][c] # Same BY <1>1, <2>2 DEF R!View
    <2> QED BY <2>1, <2>2
  <1>9. \A n \in DOMAIN plan : plan[n].table \in R!Tables /\ Finds(plan[n]) =>
            Finds(plan[n])' \/ R!View(q, plan[n].table, c)' = NoRow
    BY <1>4, <1>5, <1>7, CommitFinds
  <1>10. Empties(q) BY DEF Routes
  <1>11. "channel" \in R!Tables /\ "channel" \notin R!Pairs /\ R!Pairs \subseteq R!Tables
    BY DEF R!Tables, R!Pairs
  <1>12. R!View(q, "channel", c)' = NoRow
         \/ \E n \in DOMAIN plan : plan[n].table = "channel" /\ Finds(plan[n])'
    <2>1. R!View(q, "channel", c) = NoRow
          \/ \E n \in DOMAIN plan : plan[n].table = "channel" /\ Finds(plan[n])
      BY <1>2, <1>3, <1>10 DEF Empties
    <2>2. CASE R!View(q, "channel", c) = NoRow BY <1>8, <1>11, <2>2
    <2>3. CASE \E n \in DOMAIN plan : plan[n].table = "channel" /\ Finds(plan[n])
      <3>1. PICK n \in DOMAIN plan : plan[n].table = "channel" /\ Finds(plan[n]) BY <2>3
      <3>2. Finds(plan[n])' \/ R!View(q, "channel", c)' = NoRow BY <1>9, <1>11, <3>1
      <3> QED BY <3>1, <3>2
    <2> QED BY <2>1, <2>2, <2>3
  <1>13. ASSUME ~OvertakenBy(q, R!Insertions)'
         PROVE  /\ \A t \in R!Pairs :
                      \/ R!View(q, t, c)' = NoRow
                      \/ \E n \in DOMAIN plan :
                            /\ plan[n].table = t
                            /\ plan[n].kind = "purge" \/ (plan[n].kind = "delete" /\ Finds(plan[n])')
                /\ \/ \A d \in deliveries' \ purged'[q] : d[1] # c
                   \/ \E n \in DOMAIN plan : plan[n].table = "delivery"
    <2>1. /\ \A t \in R!Pairs :
                \/ R!View(q, t, c) = NoRow
                \/ \E n \in DOMAIN plan :
                      /\ plan[n].table = t
                      /\ plan[n].kind = "purge" \/ (plan[n].kind = "delete" /\ Finds(plan[n]))
          /\ \/ \A d \in deliveries \ purged[q] : d[1] # c
             \/ \E n \in DOMAIN plan : plan[n].table = "delivery"
      BY <1>2, <1>3, <1>6, <1>10, <1>13 DEF Empties
    <2>2. ASSUME NEW t \in R!Pairs
          PROVE  \/ R!View(q, t, c)' = NoRow
                 \/ \E n \in DOMAIN plan :
                       /\ plan[n].table = t
                       /\ plan[n].kind = "purge" \/ (plan[n].kind = "delete" /\ Finds(plan[n])')
      <3>1. t \in R!Tables BY <1>11
      <3>2. CASE R!View(q, t, c) = NoRow BY <1>8, <1>13, <3>1, <3>2
      <3>3. ASSUME NEW n \in DOMAIN plan, plan[n].table = t,
                   plan[n].kind = "purge" \/ (plan[n].kind = "delete" /\ Finds(plan[n]))
            PROVE  \/ R!View(q, t, c)' = NoRow
                   \/ plan[n].kind = "purge" \/ (plan[n].kind = "delete" /\ Finds(plan[n])')
        BY <1>9, <3>1, <3>3
      <3> QED BY <2>1, <3>2, <3>3
    <2>3. inserted[p] = {}
      BY <1>6, <1>13 DEF Routes, PhaseOf, R!Insertions
    <2>4. deliveries' \subseteq deliveries BY <2>3, CommitCells
    <2> QED BY <1>1, <2>1, <2>2, <2>4
  <1>14. request'[q].channel = c /\ todo'[q] = plan BY <1>1, <1>2, <1>3
  <1>15. \A n \in DOMAIN plan : plan[n].table = "channel" => n = Len(plan) /\ plan[n].kind = "delete"
    BY <1>3, <1>10 DEF Empties
  <1> QED BY <1>12, <1>13, <1>14, <1>15 DEF Empties

-----------------------------------------------------------------------------
\* The rule for one channel: what its three rows say of a notification.
Sends(binding, override, channel, severity) ==
    /\ binding # NoRow /\ binding.enabled
    /\ R!Exists(channel) /\ channel.enabled
    /\ CASE override = NoRow -> binding.min <= severity
         [] override # NoRow /\ override.mode = "mute" -> FALSE
         [] OTHER -> override.min # Null /\ override.min <= severity

LEMMA ConfiguredSends ==
    \A severity : R!Configured(severity) =
        {c \in Channels : Sends(rows.binding[c], rows.override[c], rows.channel[c], severity)}
  BY DEF R!Configured, R!Wanted, Sends

\* The resolver's rule and the configuration's are the same.
LEMMA Selected ==
    ASSUME RoutingTypes, NEW bindings, bindings = R!EnabledBindings,
           NEW overrides \in [Channels -> Cells("override")], NEW channels,
           NEW severity, ~R!Unusable(bindings, overrides)
    PROVE  R!select_target_channels(bindings, overrides, channels, severity) =
             {c \in Channels : Sends(rows.binding[c], overrides[c], channels[c], severity)}
  <1>1. DOMAIN bindings = {c \in Channels : rows.binding[c] # NoRow /\ rows.binding[c].enabled}
        /\ \A c \in DOMAIN bindings : bindings[c] = rows.binding[c]
    BY DEF R!EnabledBindings
  <1>2. ASSUME NEW c \in DOMAIN bindings
        PROVE  (/\ overrides[c] # NoRow => overrides[c].mode # "mute"
                /\ severity >= R!threshold(bindings[c], overrides[c])
                /\ R!Exists(channels[c]) /\ channels[c].enabled)
               <=> Sends(rows.binding[c], overrides[c], channels[c], severity)
    <2>1. rows.binding[c] # NoRow /\ rows.binding[c].enabled /\ bindings[c] = rows.binding[c]
          /\ c \in Channels
      BY <1>1
    <2>2. CASE overrides[c] = NoRow
      BY <2>1, <2>2 DEF Sends, R!threshold
    <2>3. CASE overrides[c] # NoRow
      <3>1. overrides[c].mode \in {"mute", "override"}
        BY <2>1, <2>3 DEF Cells, RowsOf, OverrideRow
      <3>2. CASE overrides[c].mode = "mute"
        BY <2>3, <3>2 DEF Sends
      <3>3. CASE overrides[c].mode = "override"
        <4>1. overrides[c].min # Null BY <2>3, <3>3 DEF R!Unusable
        <4>2. R!threshold(bindings[c], overrides[c]) = overrides[c].min
          BY <2>3, <3>3 DEF R!threshold
        <4>3. overrides[c].mode # "mute" BY <3>3
        <4> QED BY <2>1, <2>3, <4>1, <4>2, <4>3 DEF Sends
      <3> QED BY <3>1, <3>2, <3>3
    <2> QED BY <2>2, <2>3
  <1>3. \A c \in Channels : Sends(rows.binding[c], overrides[c], channels[c], severity) =>
            c \in DOMAIN bindings
    BY <1>1 DEF Sends
  <1>4. DOMAIN bindings \subseteq Channels BY <1>1
  <1> QED BY <1>2, <1>3, <1>4 DEF R!select_target_channels

\* A commit changes one table, or is the deletion of a channel.
LEMMA CommitTables ==
    ASSUME RoutingGiven, RoutingInv, NEW p \in Requests, R!commit(p), NEW c \in Channels
    PROVE  \/ rows'.binding[c] = rows.binding[c] /\ rows'.override[c] = rows.override[c]
              /\ request[p].op \in {"create_channel", "update_channel"}
           \/ rows'.channel[c] = rows.channel[c] /\ rows'.override[c] = rows.override[c]
              /\ OnTable(request[p].op) = "binding" /\ request[p].op # "delete_channel"
           \/ rows'.channel[c] = rows.channel[c] /\ rows'.binding[c] = rows.binding[c]
              /\ OnTable(request[p].op) = "override" /\ request[p].op # "delete_channel"
           \/ request[p].op = "delete_channel"
              /\ \/ rows'.channel[c] = NoRow
                 \/ /\ rows'.channel[c] = rows.channel[c] /\ rows'.binding[c] = rows.binding[c]
                    /\ rows'.override[c] = rows.override[c]
  <1> Routes(p) BY DEF RoutingInv
  <1>1. {"channel", "binding", "override"} = R!Tables BY DEF R!Tables
  <1>2. \A t \in R!Tables : written[p][t][c] # Same =>
            /\ c = request[p].channel
            /\ request[p].op # "delete_channel" => t = OnTable(request[p].op)
    BY DEF Routes, RoutingWrites, Wrote
  <1>3. \A t \in R!Tables : written[p][t][c] = Same => rows'[t][c] = rows[t][c] BY CommitCells
  <1>4. CASE request[p].op = "delete_channel"
    <2>1. CASE c = request[p].channel
      <3>1. Empties(p) /\ todo[p] = <<>> /\ pc[p] = "writing" /\ request[p] # NoRequest
        BY CommitCells DEF Routes
      <3>2. R!View(p, "channel", c) = NoRow BY <1>4, <2>1, <3>1, PlanNone DEF Empties
      <3> QED BY <1>1, <1>4, <3>2, CommitCells
    <2>2. CASE c # request[p].channel BY <1>1, <1>2, <1>3, <1>4, <2>2
    <2> QED BY <2>1, <2>2
  <1>5. CASE request[p].op # "delete_channel"
    <2>1. \A t \in R!Tables : t # OnTable(request[p].op) => rows'[t][c] = rows[t][c]
      BY <1>2, <1>3, <1>5
    <2>2. CASE OnTable(request[p].op) = "channel"
      BY <1>1, <2>1, <2>2 DEF OnTable
    <2>3. CASE OnTable(request[p].op) = "binding"
      BY <1>1, <1>5, <2>1, <2>3
    <2>4. CASE OnTable(request[p].op) = "override"
      BY <1>1, <1>5, <2>1, <2>4
    <2>5. OnTable(request[p].op) \in R!Tables BY DEF OnTable, R!Tables
    <2> QED BY <1>1, <2>2, <2>3, <2>4, <2>5
  <1> QED BY <1>4, <1>5

\* An ingestion that one commit has overtaken chooses by the tables before it or after it.
LEMMA CommitChooses ==
    ASSUME RoutingGiven, RoutingInv, NEW p \in Requests, R!commit(p), NEW q \in Requests \ {p}
    PROVE  Chooses(q)'
  <1> Routes(q) /\ Routes(p) BY DEF RoutingInv
  <1>1. request'[q] = request[q] /\ pc'[q] = pc[q] /\ read'[q] = read[q]
    BY CommitCells, RoutingFinish
  <1> SUFFICES ASSUME pc[q] \in {"overrides", "channels"} PROVE Chooses(q)'
    BY <1>1 DEF Chooses
  <1>2. PICK s : s = read[q] OBVIOUS
  <1>3. PICK severity : severity = request[q].ask OBVIOUS
  <1>4. PICK op : op = request[p].op OBVIOUS
  <1>5. /\ DOMAIN s = {"bindings", "overrides", "targets", "before"}
        /\ DOMAIN s.bindings \subseteq Channels
        /\ overtaken[q] = <<>> =>
              /\ s.bindings = R!EnabledBindings /\ s.before = R!Configured(severity)
              /\ pc[q] = "channels" => s.overrides = rows.override
    BY <1>2, <1>3 DEF Routes, Chooses
  <1>6. /\ overtaken'[q] # <<>>
        /\ Len(overtaken'[q]) = 1 => overtaken[q] = <<>>
    <2>1. overtaken'[q] = Append(overtaken[q], op) BY <1>4, CommitCells
    <2>2. overtaken[q] \in Seq(RoutingOps) BY DEF RoutingInv, RoutingTypes
    <2> QED BY <2>1, <2>2
  <1>7. PICK ov : ov = (IF pc[q] = "channels" THEN s.overrides ELSE rows'.override) OBVIOUS
  <1>8. ASSUME overtaken[q] = <<>>, ~R!Unusable(s.bindings, ov)
        PROVE  R!select_target_channels(s.bindings, ov, rows'.channel, severity)
                   \in {s.before, R!Configured(severity)'}
    <2>1. RoutingTypes BY DEF RoutingInv
    <2>2. {"channel", "binding", "override"} = R!Tables BY DEF R!Tables
    <2>3. ov = rows.override \/ ov = rows'.override BY <1>5, <1>7, <1>8
    <2>4. ov \in [Channels -> Cells("override")]
      <3>1. rows.override \in [Channels -> Cells("override")] BY <2>1, <2>2 DEF RoutingTypes
      <3>2. rows'.override \in [Channels -> Cells("override")] BY <2>2, CommitCells
      <3> QED BY <2>3, <3>1, <3>2
    <2>5. R!select_target_channels(s.bindings, ov, rows'.channel, severity) =
            {c \in Channels : Sends(rows.binding[c], ov[c], rows'.channel[c], severity)}
      BY <1>5, <1>8, <2>1, <2>4, Selected
    <2>6. s.before =
            {c \in Channels : Sends(rows.binding[c], rows.override[c], rows.channel[c], severity)}
      BY <1>5, <1>8, ConfiguredSends
    <2>7. R!Configured(severity)' =
            {c \in Channels : Sends(rows'.binding[c], rows'.override[c], rows'.channel[c], severity)}
      BY DEF R!Configured, R!Wanted, Sends
    <2>8. CASE op \in {"create_channel", "update_channel"}
      <3>1. \A c \in Channels : rows'.binding[c] = rows.binding[c] /\ rows'.override[c] = rows.override[c]
        BY <1>4, <2>8, CommitTables DEF OnTable
      <3>2. \A c \in Channels : ov[c] = rows'.override[c] BY <2>3, <3>1
      <3> QED BY <2>5, <2>7, <3>1, <3>2
    <2>9. CASE OnTable(op) = "binding" /\ op # "delete_channel"
      <3>1. \A c \in Channels : rows'.channel[c] = rows.channel[c] /\ rows'.override[c] = rows.override[c]
        BY <1>4, <2>9, CommitTables DEF OnTable
      <3>2. \A c \in Channels : ov[c] = rows.override[c] BY <2>3, <3>1
      <3> QED BY <2>5, <2>6, <3>1, <3>2
    <2>10. CASE OnTable(op) = "override" /\ op # "delete_channel"
      <3>1. \A c \in Channels : rows'.channel[c] = rows.channel[c] /\ rows'.binding[c] = rows.binding[c]
        BY <1>4, <2>10, CommitTables DEF OnTable
      <3>2. CASE ov = rows.override BY <2>5, <2>6, <3>1, <3>2
      <3>3. CASE ov = rows'.override BY <2>5, <2>7, <3>1, <3>3
      <3> QED BY <2>3, <3>2, <3>3
    <2>11. CASE op = "delete_channel"
      <3>1. \A c \in Channels :
                \/ rows'.channel[c] = NoRow
                \/ /\ rows'.channel[c] = rows.channel[c] /\ rows'.binding[c] = rows.binding[c]
                   /\ rows'.override[c] = rows.override[c]
        BY <1>4, <2>11, CommitTables DEF OnTable
      <3>2. \A c \in Channels : Sends(rows.binding[c], ov[c], rows'.channel[c], severity)
                <=> Sends(rows'.binding[c], rows'.override[c], rows'.channel[c], severity)
        <4> TAKE c \in Channels
        <4>1. CASE rows'.channel[c] = NoRow BY <4>1 DEF Sends, R!Exists
        <4>2. CASE rows'.channel[c] # NoRow
          <5>1. rows'.binding[c] = rows.binding[c] /\ ov[c] = rows'.override[c]
            BY <2>3, <3>1, <4>2
          <5> QED BY <5>1
        <4> QED BY <4>1, <4>2
      <3> QED BY <2>5, <2>7, <3>2
    <2>12. \/ op \in {"create_channel", "update_channel", "delete_channel"}
           \/ OnTable(op) \in {"binding", "override"}
      BY DEF OnTable
    <2> QED BY <2>8, <2>9, <2>10, <2>11, <2>12
  <1>9. request'[q].ask = severity /\ read'[q] = s /\ pc'[q] = pc[q] BY <1>1, <1>2, <1>3
  <1> QED BY <1>5, <1>6, <1>7, <1>8, <1>9 DEF Chooses

LEMMA RoutingCommit ==
    ASSUME RoutingGiven, RoutingInv, NEW p \in Requests, R!commit(p)
    PROVE  RoutingInv'
  <1>1. R!Finish(p) BY CommitCells
  <1>2. RoutingTypes' BY <1>1, CommitCells, RoutingFinish DEF RoutingInv, RoutingTypes
  <1>3. Routes(p)' /\ RoutingOneWriter' BY <1>1, RoutingFinish DEF Routes
  <1>4. \A q \in Requests \ {p} : Routes(q)'
    BY CommitWrites, CommitStands, CommitEmpties, CommitChooses DEF Routes
  <1> QED BY <1>2, <1>3, <1>4, CommitRefers DEF RoutingInv

-----------------------------------------------------------------------------
(* The invariant. *)

LEMMA RoutingStart == ASSUME RoutingGiven, R!Init PROVE RoutingInv
  <1>1. NoRow # Same /\ "channel" \in R!Tables /\ R!Pairs \subseteq R!Tables
    BY DEF RoutingGiven, R!Tables, R!Pairs
  <1>2. \A p \in Requests :
            /\ pc[p] = "idle" /\ request[p] = NoRequest /\ todo[p] = <<>> /\ inserted[p] = {}
            /\ overtaken[p] = <<>>
            /\ \A t \in R!Tables, c \in Channels : written[p][t][c] = Same
    BY DEF R!Init
  <1>3. RoutingTypes
    <2>1. \A t \in R!Tables : rows[t] \in [Channels -> Cells(t)] BY DEF R!Init, RoutingGiven
    <2>2. [t \in R!Tables |-> [c \in Channels |-> Same]] \in [R!Tables -> [Channels ->
              {Same, NoRow} \cup ChannelRow \cup BindingRow \cup OverrideRow]]
      OBVIOUS
    <2>3. written \in [Requests -> [R!Tables -> [Channels ->
              {Same, NoRow} \cup ChannelRow \cup BindingRow \cup OverrideRow]]]
      BY <2>2 DEF R!Init
    <2>4. started \in 0 .. MaxRequests BY DEF R!Init, RoutingGiven
    <2>5. overtaken \in [Requests -> Seq(RoutingOps)] BY DEF R!Init
    <2>6. inserted \in [Requests -> SUBSET Channels] BY DEF R!Init
    <2>7. /\ DOMAIN purged = Requests /\ DOMAIN request = Requests /\ DOMAIN pc = Requests
          /\ DOMAIN todo = Requests /\ DOMAIN read = Requests
      BY DEF R!Init
    <2> QED BY <2>1, <2>3, <2>4, <2>5, <2>6, <2>7 DEF RoutingTypes
  <1>4. RoutingOneWriter BY <1>2 DEF RoutingOneWriter
  <1>5. Refer(rows, deliveries) BY DEF R!Init, RoutingGiven
  <1>6. ASSUME NEW p \in Requests PROVE Routes(p)
    <2>1. PhaseOf(p) /\ RoutingStatements(p) /\ Justified(p)
      BY <1>2, PlanNone DEF PhaseOf, RoutingStatements, Justified
    <2>2. RoutingWrites(p) BY <1>2 DEF RoutingWrites
    <2>3. Bound(p) /\ Empties(p) /\ Chooses(p) BY <1>2 DEF Bound, Empties, Chooses
    <2>4. Reaches(p) BY <1>1, <1>2 DEF Reaches
    <2>5. ChannelGoes(p) BY <1>1, <1>2 DEF ChannelGoes
    <2> QED BY <2>1, <2>2, <2>3, <2>4, <2>5 DEF Routes
  <1> QED BY <1>3, <1>4, <1>5, <1>6 DEF RoutingInv

LEMMA Stutter == ASSUME RoutingInv, UNCHANGED R!vars PROVE RoutingInv'
  <1>1. /\ rows' = rows /\ deliveries' = deliveries /\ written' = written /\ inserted' = inserted
        /\ purged' = purged /\ request' = request /\ pc' = pc /\ todo' = todo /\ read' = read
        /\ overtaken' = overtaken /\ started' = started
    BY DEF R!vars, R!txVars
  <1>2. RoutingTypes' /\ RoutingOneWriter' /\ Refer(rows, deliveries)'
    BY <1>1 DEF RoutingInv, RoutingTypes, RoutingOneWriter, Refer
  <1>3. ASSUME NEW p \in Requests PROVE Routes(p)'
    <2> Routes(p) BY DEF RoutingInv
    <2>1. /\ \A s : Finds(s)' <=> Finds(s)
          /\ \A t, c : R!View(p, t, c)' = R!View(p, t, c)
          /\ \A ops : OvertakenBy(p, ops)' <=> OvertakenBy(p, ops)
      BY <1>1 DEF Finds, R!View, OvertakenBy, R!Range
    <2>2. \A c : Lasts(p, c)' <=> Lasts(p, c) BY <1>1, <2>1 DEF Lasts
    <2>3. PhaseOf(p)' /\ RoutingStatements(p)' /\ RoutingWrites(p)' /\ Reaches(p)'
      BY <1>1 DEF Routes, PhaseOf, RoutingStatements, RoutingWrites, Wrote, Reaches
    <2>4. Bound(p)' BY <1>1, <2>2 DEF Routes, Bound
    <2>5. ChannelGoes(p)' BY <1>1, <2>1 DEF Routes, ChannelGoes
    <2>6. Empties(p)'
      <3>1. Empties(p) BY DEF Routes
      <3> QED BY <1>1, <2>1, <3>1 DEF Empties
    <2>7. Justified(p)'
      <3>1. Justified(p) BY DEF Routes
      <3> QED BY <1>1, <2>1, <3>1 DEF Justified
    <2>8. Chooses(p)'
      <3>1. Chooses(p) BY DEF Routes
      <3> QED BY <1>1, <3>1, SameConfiguration DEF Chooses
    <2> QED BY <2>3, <2>4, <2>5, <2>6, <2>7, <2>8 DEF Routes
  <1> QED BY <1>2, <1>3 DEF RoutingInv

LEMMA RoutingStay == ASSUME RoutingGiven, RoutingInv, [R!Next]_R!vars PROVE RoutingInv'
  <1>1. CASE UNCHANGED R!vars BY <1>1, Stutter
  <1>2. ASSUME NEW p \in Requests, R!OnChannels(p) PROVE RoutingInv'
    BY <1>2, RoutingOnChannels, RoutingDeletesChannel DEF R!OnChannels
  <1>3. ASSUME NEW p \in Requests, R!Statement(p) PROVE RoutingInv'
    BY <1>3, RoutingReadsPair, RoutingInsert, RoutingUpdate, RoutingPurge, RoutingDelete
       DEF R!Statement
  <1>4. ASSUME NEW p \in Requests, R!Ingestion(p) PROVE RoutingInv'
    BY <1>4, RoutingReadsBindings, RoutingReadsOverrides, RoutingCreatesDeliveries,
       RoutingAddsDelivery
       DEF R!Ingestion
  <1> QED
    BY <1>1, <1>2, <1>3, <1>4, RoutingOnBindings, RoutingOnOverrides, RoutingCommit,
       RoutingRollback
       DEF R!Next

\* A behaviour of routing keeps the invariant.
LEMMA RoutingInvariant ==
    ASSUME RoutingGiven PROVE Spec => [](scope = "routing" => RoutingInv)
  <1>1. ASSUME Init PROVE scope = "routing" => RoutingInv
    BY <1>1, RoutingStart DEF Init
  <1>2. ASSUME scope = "routing" => RoutingInv, [Next]_vars
        PROVE  (scope = "routing" => RoutingInv)'
    <2>1. scope' = scope BY <1>2 DEF Next, vars
    <2>2. scope = "routing" => [R!Next]_R!vars
      BY <1>2 DEF Next, vars, ofRouting, R!vars, R!txVars
    <2> QED BY <1>2, <2>1, <2>2, RoutingStay
  <1> QED BY <1>1, <1>2, PTL DEF Spec

LEMMA Means == ASSUME RoutingGiven, RoutingInv PROVE R!TypeOK /\ R!RefusalsHaveACause
  <1>1. \A p \in Requests : Routes(p) BY DEF RoutingInv
  <1>2. R!TypeOK
    <2>1. "channel" \in R!Tables /\ "binding" \in R!Tables /\ "override" \in R!Tables
      BY DEF R!Tables
    <2>2. \A c \in Channels : rows.channel[c] \in {NoRow, Unborn} =>
              rows.binding[c] = NoRow /\ rows.override[c] = NoRow /\ \A d \in deliveries : d[1] # c
      BY DEF RoutingInv, Refer, R!Exists
    <2>3. \A c \in Channels : rows.override[c] # NoRow =>
              /\ rows.override[c].mode \in {"mute", "override"}
              /\ rows.override[c].min \in Severities \cup {Null}
      BY RowsThere DEF OverrideRow
    <2>4. \A c \in Channels : rows.binding[c] # NoRow => rows.binding[c].min \in Severities
      BY RowsThere DEF BindingRow
    <2>5. \A p \in Requests :
              /\ pc[p] \in {"idle", "reading", "rereading", "writing", "overrides", "channels",
                            "refused"}
              /\ pc[p] = "idle" <=> request[p] = NoRequest
      BY <1>1 DEF Routes, PhaseOf
    <2>6. started \in 0 .. MaxRequests BY DEF RoutingInv, RoutingTypes
    <2> QED BY <2>2, <2>3, <2>4, <2>5, <2>6 DEF R!TypeOK
  <1>3. R!RefusalsHaveACause
    BY <1>1 DEF Routes, Justified, R!RefusalsHaveACause, OvertakenBy
  <1> QED BY <1>2, <1>3

LEMMA AtMostOne == \A n \in Nat \ {0} : n <= 1 => n = 1
  OBVIOUS

\* An ingestion that at most one commit has overtaken chooses by one configuration.
LEMMA OneConfiguration ==
    ASSUME RoutingGiven, RoutingInv
    PROVE  R!FollowsOneConfiguration
  <1> SUFFICES ASSUME NEW p \in Requests, R!create_deliveries_for_notification(p),
                      Len(overtaken[p]) <= 1, pc'[p] # "refused"
               PROVE  read'[p].targets \in {read[p].before, R!Configured(request[p].ask)}
    BY DEF R!FollowsOneConfiguration
  <1> PICK s, severity : s = read[p] /\ severity = request[p].ask OBVIOUS
  <1> PICK targets : targets =
          R!select_target_channels(s.bindings, s.overrides, rows.channel, severity)
    OBVIOUS
  <1> Routes(p) BY DEF RoutingInv
  <1>1. pc[p] = "channels" BY DEF R!create_deliveries_for_notification
  <1>2. ~R!Unusable(s.bindings, s.overrides)
    BY DEF R!create_deliveries_for_notification, R!Go, RoutingInv, RoutingTypes
  <1>3. /\ DOMAIN s = {"bindings", "overrides", "targets", "before"}
        /\ overtaken[p] = <<>> =>
              /\ s.bindings = R!EnabledBindings /\ s.before = R!Configured(severity)
              /\ s.overrides = rows.override
        /\ Len(overtaken[p]) = 1 => targets \in {s.before, R!Configured(severity)}
    BY <1>1, <1>2 DEF Routes, Chooses
  <1>4. read' = [read EXCEPT ![p].targets = targets]
    BY <1>2 DEF R!create_deliveries_for_notification
  <1>5. DOMAIN read = Requests BY DEF RoutingInv, RoutingTypes
  <1>6. read'[p] = [s EXCEPT !.targets = targets] BY <1>4, <1>5
  <1>7. read'[p].targets = targets BY <1>3, <1>6
  <1>8. CASE overtaken[p] = <<>>
    <2>1. RoutingTypes BY DEF RoutingInv
    <2>2. rows.override \in [Channels -> Cells("override")] BY <2>1 DEF RoutingTypes, R!Tables
    <2>3. targets =
            {c \in Channels : Sends(rows.binding[c], rows.override[c], rows.channel[c], severity)}
      BY <1>2, <1>3, <1>8, <2>1, <2>2, Selected
    <2> QED BY <1>7, <2>3, ConfiguredSends
  <1>9. CASE overtaken[p] # <<>>
    <2>1. overtaken[p] \in Seq(RoutingOps) BY DEF RoutingInv, RoutingTypes
    <2>2. overtaken[p] # <<>> => Len(overtaken[p]) \in Nat \ {0} BY <2>1
    <2>3. Len(overtaken[p]) = 1 BY <1>9, <2>2, AtMostOne
    <2> QED BY <1>3, <1>7, <2>3
  <1> QED BY <1>8, <1>9

\* What routing promises of a state.
THEOREM RefusalsAreJustified ==
    ASSUME RoutingGiven
    PROVE  Spec => [](scope = "routing" => R!TypeOK /\ R!RefusalsHaveACause)
  <1>1. (scope = "routing" => RoutingInv)
        => (scope = "routing" => R!TypeOK /\ R!RefusalsHaveACause)
    BY Means
  <1> QED BY <1>1, RoutingInvariant, PTL

\* A create_deliveries_for_notification that one commit has overtaken at most follows one
\* configuration, though bindings, overrides and channels are read in three statements.
THEOREM RoutesAreWhole == ASSUME RoutingGiven PROVE Spec => RoutedByOneConfiguration
  <1>1. (scope = "routing" => RoutingInv) => (scope = "routing" => R!FollowsOneConfiguration)
    BY OneConfiguration
  <1>2. (scope = "routing" => RoutingInv) /\ [Next]_vars
        => [scope = "routing" => R!FollowsOneConfiguration]_vars
    BY <1>1
  <1>3. Spec => [][Next]_vars BY DEF Spec
  <1> QED BY <1>2, <1>3, RoutingInvariant, PTL DEF RoutedByOneConfiguration

-----------------------------------------------------------------------------
(* Presets.  Unique and foreign keys hold in what every transaction sees,  *)
(* but for the rows that a deletion of their preset has yet to reach; a    *)
(* row that two transactions write is locked, and a new row of one is not  *)
(* equal to a new row of another.                                          *)

\* What the data may be: names are those asked for, of the catalogue or there at the start.
Factories == {BUILTIN_PRESETS[n] : n \in DOMAIN BUILTIN_PRESETS}
Born == {x \in Presets : P!Exists(InitialPresets[x])}
Labels == {Null} \cup PresetNames \cup Factories \cup
          {InitialPresets[x].name : x \in Born} \cup {InitialPresets[x].builtin : x \in Born}

PresetRow == [id : Nat, builtin : Labels, name : Labels]
RuleRow == [id : Nat, factory : BOOLEAN]
ApplicationRow == [id : Nat, preset : Presets]
PresetRecords == PresetRow \cup RuleRow \cup ApplicationRow

KeptAs(k) ==
    IF k \in Presets THEN PresetRow \cup {NoRow, Unborn}
    ELSE IF k \in P!Rules THEN RuleRow \cup {NoRow}
    ELSE IF k \in P!Applications THEN ApplicationRow \cup {NoRow}
    ELSE {InitialPresets[TenantRow]}

PresetCells == PresetRecords \cup {NoRow, Unborn, InitialPresets[TenantRow]}

PresetOps == {"create_preset", "update_preset", "delete_preset", "reset_preset", "sync_builtin",
              "create_preset_rule", "update_preset_rule", "set_receiver_presets"}

PresetRequest ==
    [op : PresetOps, about : Presets \cup {Null}, ask : Labels \cup P!Lists, id : Nat]

\* Two presets that may be in one catalogue.
Differ(a, b) ==
    P!Exists(a) /\ P!Exists(b) => a.name # b.name /\ (a.builtin # Null => a.builtin # b.builtin)

\* The rows that refer to a preset.
References == P!Rules \cup P!Applications

\* What the theorems assume of the constants: keys of different kinds are different and
\* finitely many, positions count from 0, a preset of the catalogue has its rules at the first
\* priorities, the values for no row and the like are none of the data, and the rows at
\* the start agree.
PresetsGiven ==
    /\ MaxRequests \in Nat
    /\ Presets \cap References = {} /\ P!Rules \cap P!Applications = {}
    /\ TenantRow \notin Presets \cup References /\ Null \notin Presets
    /\ IsFiniteSet(References)
    /\ \E n \in Nat : Positions = 0 .. n - 1
    /\ \E n \in Nat : DOMAIN BUILTIN_PRESETS = 1 .. n
    /\ Factory \in Nat /\ 1 .. Factory \subseteq Priorities
    /\ NoRow \notin PresetRecords /\ Unborn \notin PresetRecords
    /\ Same \notin PresetCells /\ NoRequest \notin PresetRequest
    /\ InitialPresets \in [P!Keys -> PresetCells]
    /\ \A k \in P!Keys : InitialPresets[k] \in KeptAs(k)
    /\ \A x, y \in Presets : x # y => Differ(InitialPresets[x], InitialPresets[y])
    /\ \A k \in References :
          InitialPresets[k] # NoRow => P!Exists(InitialPresets[P!Target(k, InitialPresets[k])])

\* The statements a request may have yet to execute.
PresetStatements(r) ==
    [kind : {"insert"}, key : Presets,
     row : {row \in PresetRow : row.id = r.id /\ row.builtin \in {Null, row.name}}] \cup
    [kind : {"insert"}, key : P!Rules, row : {row \in RuleRow : row.id = r.id}] \cup
    [kind : {"insert"}, key : P!Applications, row : {row \in ApplicationRow : row.id = r.id}] \cup
    [kind : {"update"}, key : Presets, row : [id : Nat, columns : [name : Labels]]] \cup
    [kind : {"update"}, key : P!Rules, row : [id : Nat, columns : [factory : BOOLEAN]]] \cup
    [kind : {"delete"}, key : References, row : [id : Nat]] \cup
    [kind : {"purge"}, key : Presets \cup {Null}, row : {Null}] \cup
    [kind : {"cascade"}, key : Presets, row : {Null}] \cup
    [kind : {"install"}, key : Presets, row : Factories] \cup
    [kind : {"lock"}, key : {TenantRow}, row : {Null}] \cup
    [kind : {"read", "skip"}, key : {Null}, row : {Null}]

PresetTypes ==
    /\ rows \in [P!Keys -> PresetCells] /\ \A k \in P!Keys : rows[k] \in KeptAs(k)
    /\ written \in [Requests -> [P!Keys -> PresetCells \cup {Same}]]
    /\ \A p \in Requests, k \in P!Keys : written[p][k] \in KeptAs(k) \cup {Same}
    /\ request \in [Requests -> PresetRequest \cup {NoRequest}]
    /\ pc \in [Requests -> {"idle", "naming", "writing", "conflict"}]
    /\ DOMAIN todo = Requests
    /\ \A p \in Requests : pc[p] = "idle" <=> request[p] = NoRequest
    /\ started \in 0 .. MaxRequests

\* The committed rows keep the unique and the foreign keys.
PresetRowsAgree ==
    /\ \A x, y \in Presets : x # y => Differ(rows[x], rows[y])
    /\ \A k \in References : rows[k] # NoRow => P!Exists(rows[P!Target(k, rows[k])])

\* So do those that a transaction sees ...
Distinct(p) == \A x, y \in Presets : x # y => Differ(P!View(p, x), P!View(p, y))

\* ... except where the rows of a preset it deletes have yet to go.
Going(p, k) ==
    /\ written[p][k] = Same
    /\ \E n \in DOMAIN todo[p] :
          todo[p][n] \in {P!Cascade(P!Target(k, rows[k])), P!Delete(k, rows[k].id)}

Refers(p) ==
    pc[p] = "writing" =>
        \A k \in References : P!View(p, k) # NoRow =>
            P!Exists(P!View(p, P!Target(k, P!View(p, k)))) \/ Going(p, k)

\* A transaction writes from the moment it executes its first statement, and a deletion of a
\* preset is the first of two.
Untouched(p) == \A k \in P!Keys : written[p][k] = Same

Drops(p) ==
    \E x \in Presets, id \in Nat : todo[p] = <<P!Delete(x, id), P!Cascade(x)>> /\ Untouched(p)

Plans(p) ==
    /\ pc[p] \in {"idle", "naming"} => Untouched(p)
    /\ \/ todo[p] \in Seq(PresetStatements(request[p]))
       \/ pc[p] = "writing" /\ Drops(p)

\* A row it writes is its own, of the catalogue by its name or of nobody's, or the
\* committed one with other columns.
Inserted(p, k) == written[p][k] \notin {Same, NoRow} /\ written[p][k].id = request[p].id

Stems(p) ==
    /\ \A x \in Presets : written[p][x] \in PresetRow =>
          \/ written[p][x].builtin \in {Null, written[p][x].name}
          \/ P!Exists(rows[x]) /\ rows[x].builtin = written[p][x].builtin
    /\ \A k \in References : written[p][k] \notin {Same, NoRow} =>
          \/ Inserted(p, k)
          \/ /\ rows[k] # NoRow /\ rows[k].id = written[p][k].id
             /\ P!Target(k, rows[k]) = P!Target(k, written[p][k])

\* Two transactions write different rows, take different names, and neither inserts what
\* refers to a preset that the other writes.
PresetsApart(p, q) ==
    /\ \A k \in P!Keys : written[p][k] = Same \/ written[q][k] = Same
    /\ \A x, y \in Presets : x # y /\ written[p][x] \in PresetRow /\ written[q][y] \in PresetRow =>
          Differ(written[p][x], written[q][y])
    /\ \A x \in Presets, k \in References :
          Inserted(p, k) /\ P!Target(k, written[p][k]) = x => written[q][x] = Same

PresetsInv ==
    /\ PresetTypes /\ PresetRowsAgree
    /\ \A p \in Requests : Distinct(p) /\ Refers(p) /\ Plans(p) /\ Stems(p)
    /\ \A p, q \in Requests : p # q => PresetsApart(p, q)

\* A rule or an application is a row of its own and refers to a preset.
LEMMA TargetType ==
    ASSUME PresetsGiven, NEW k \in References, NEW row \in KeptAs(k), row # NoRow
    PROVE  /\ P!Target(k, row) \in Presets /\ row.id \in Nat /\ P!Exists(row) /\ k \in P!Keys
           /\ row \in PresetRecords
  <1>1. CASE k \in P!Rules
    <2>1. row \in RuleRow BY <1>1 DEF KeptAs, PresetsGiven, References
    <2>2. k[1] \in Presets BY <1>1 DEF P!Rules
    <2> QED BY <1>1, <2>1, <2>2
               DEF P!Target, P!Keys, PresetRecords, RuleRow, P!Exists, PresetsGiven
  <1>2. CASE k \in P!Applications /\ k \notin P!Rules
    <2>1. row \in ApplicationRow BY <1>2 DEF KeptAs, PresetsGiven, References
    <2> QED BY <1>2, <2>1
               DEF P!Target, P!Keys, PresetRecords, ApplicationRow, P!Exists, PresetsGiven
  <1> QED BY <1>1, <1>2 DEF References

\* A preset exists when its row is one of a preset.
LEMMA PresetCell ==
    ASSUME PresetsGiven, NEW x \in Presets, NEW row
    PROVE  /\ KeptAs(x) = PresetRow \cup {NoRow, Unborn} /\ x \in P!Keys /\ x \notin References
           /\ row \in PresetRow \cup {NoRow, Unborn} => (P!Exists(row) <=> row \in PresetRow)
  BY DEF KeptAs, P!Exists, PresetsGiven, PresetRecords, P!Keys, References

\* What a key holds is one of the cells, and a cell is never the mark of an unwritten key.
LEMMA CellsAre ==
    ASSUME PresetsGiven, NEW k \in P!Keys
    PROVE  KeptAs(k) \subseteq PresetCells /\ Same \notin KeptAs(k)
  BY DEF KeptAs, PresetCells, PresetRecords, PresetsGiven

\* What a transaction sees under a key is of the type of the key.
LEMMA ViewCell ==
    ASSUME PresetsGiven, PresetTypes, NEW p \in Requests, NEW k \in P!Keys
    PROVE  P!View(p, k) \in KeptAs(k)
  BY DEF P!View, PresetTypes

\* A statement to execute is one of those of the request.
LEMMA PresetHead ==
    ASSUME PresetTypes, NEW p \in Requests, todo[p] # <<>>,
           todo[p] \in Seq(PresetStatements(request[p]))
    PROVE  /\ Head(todo[p]) \in PresetStatements(request[p])
           /\ Tail(todo[p]) \in Seq(PresetStatements(request[p]))
  <1> DEFINE S == PresetStatements(request[p])
             s == todo[p]
  <1>1. s \in Seq(S) /\ s # <<>> OBVIOUS
  <1> HIDE DEF S, s
  <1>2. Head(s) \in S /\ Tail(s) \in Seq(S) BY <1>1
  <1> QED BY <1>2 DEF S, s

\* Only a deletion of a preset is planned otherwise.
LEMMA PlannedAhead ==
    ASSUME PresetsGiven, PresetsInv, NEW p \in Requests, pc[p] # "idle",
           todo[p] # <<>>, Head(todo[p]).kind # "delete"
    PROVE  /\ todo[p] \in Seq(PresetStatements(request[p]))
           /\ Head(todo[p]) \in PresetStatements(request[p])
           /\ Tail(todo[p]) \in Seq(PresetStatements(request[p]))
  <1>1. ASSUME NEW a, NEW b PROVE Head(<<a, b>>) = a OBVIOUS
  <1>2. \A x, id : P!Delete(x, id).kind = "delete" BY DEF P!Delete, P!Statement
  <1>3. ~Drops(p) BY <1>1, <1>2 DEF Drops
  <1> QED BY <1>3, PresetHead DEF PresetsInv, Plans

-----------------------------------------------------------------------------
(* Steps that write nothing. *)

\* What a row refers to stays in the view of a transaction with another plan.
Keeps(p, plan) ==
    \A k \in References : P!View(p, k) # NoRow =>
        \/ P!Exists(P!View(p, P!Target(k, P!View(p, k))))
        \/ /\ written[p][k] = Same
           /\ \E n \in DOMAIN plan :
                 plan[n] \in {P!Cascade(P!Target(k, rows[k])), P!Delete(k, rows[k].id)}

LEMMA PresetsGo ==
    ASSUME PresetsGiven, PresetsInv, NEW p \in Requests, pc[p] # "idle",
           UNCHANGED <<rows, written, request, started>>,
           NEW place \in {"writing", "conflict"}, NEW plan \in Seq(PresetStatements(request[p])),
           P!Go(p, place, plan), place = "writing" => Keeps(p, plan)
    PROVE  PresetsInv'
  <1>1. /\ pc' = [pc EXCEPT ![p] = place] /\ todo' = [todo EXCEPT ![p] = plan]
        /\ pc'[p] = place /\ todo'[p] = plan
        /\ \A q \in Requests \ {p} : pc'[q] = pc[q] /\ todo'[q] = todo[q]
    BY DEF P!Go, PresetsInv, PresetTypes
  <1>2. \A q \in Requests, k \in P!Keys : P!View(q, k)' = P!View(q, k) BY DEF P!View
  <1>3. PresetTypes' BY <1>1 DEF PresetsInv, PresetTypes, P!Go
  <1>4. PresetRowsAgree' BY DEF PresetsInv, PresetRowsAgree
  <1>5. ASSUME NEW q \in Requests PROVE Distinct(q)' /\ Stems(q)'
    BY <1>2, PresetCell DEF PresetsInv, Distinct, Stems, Inserted
  <1>6. ASSUME NEW q \in Requests PROVE Plans(q)'
    <2>1. CASE q = p BY <1>1, <2>1 DEF PresetsInv, Plans
    <2>2. CASE q # p BY <1>1, <2>2 DEF PresetsInv, Plans, Drops, Untouched
    <2> QED BY <2>1, <2>2
  <1>7. ASSUME NEW q \in Requests PROVE Refers(q)'
    <2>1. CASE q = p BY <1>1, <2>1 DEF Refers, Keeps, Going, P!View
    <2>2. CASE q # p BY <1>1, <2>2 DEF PresetsInv, Refers, Going, P!View
    <2> QED BY <2>1, <2>2
  <1>8. ASSUME NEW q \in Requests, NEW r \in Requests, q # r PROVE PresetsApart(q, r)'
    BY <1>8 DEF PresetsInv, PresetsApart, Inserted
  <1> QED BY <1>3, <1>4, <1>5, <1>6, <1>7, <1>8 DEF PresetsInv

\* A plan that still has what the old one had, but for a statement that deletes nothing.
LEMMA KeepsOn ==
    ASSUME PresetsInv, NEW p \in Requests, pc[p] = "writing", NEW plan,
           \A n \in DOMAIN todo[p] : todo[p][n].kind \in {"delete", "cascade"} =>
               \E m \in DOMAIN plan : plan[m] = todo[p][n]
    PROVE  Keeps(p, plan)
  <1> SUFFICES ASSUME NEW k \in References, P!View(p, k) # NoRow,
                      ~P!Exists(P!View(p, P!Target(k, P!View(p, k))))
               PROVE  /\ written[p][k] = Same
                      /\ \E n \in DOMAIN plan :
                            plan[n] \in {P!Cascade(P!Target(k, rows[k])), P!Delete(k, rows[k].id)}
    BY DEF Keeps
  <1>1. Going(p, k) BY DEF PresetsInv, Refers
  <1>2. PICK n \in DOMAIN todo[p] :
           todo[p][n] \in {P!Cascade(P!Target(k, rows[k])), P!Delete(k, rows[k].id)}
    BY <1>1 DEF Going
  <1>3. todo[p][n].kind \in {"delete", "cascade"} BY <1>2 DEF P!Cascade, P!Delete, P!Statement
  <1>4. PICK m \in DOMAIN plan : plan[m] = todo[p][n] BY <1>3
  <1> QED BY <1>1, <1>2, <1>4 DEF Going

\* What is not the head of a sequence is in its tail.
LEMMA InTail ==
    ASSUME NEW S, NEW s \in Seq(S), s # <<>>, NEW n \in DOMAIN s, s[n] # Head(s)
    PROVE  \E m \in DOMAIN Tail(s) : Tail(s)[m] = s[n]
  <1>1. n \in 2 .. Len(s) /\ n - 1 \in DOMAIN Tail(s) /\ Tail(s)[n - 1] = s[n] OBVIOUS
  <1> QED BY <1>1

\* Elements of the second of two sequences.
LEMMA InSecond ==
    ASSUME NEW S, NEW s \in Seq(S), NEW t \in Seq(S), NEW n \in DOMAIN t
    PROVE  Len(s) + n \in DOMAIN (s \o t) /\ (s \o t)[Len(s) + n] = t[n]
  OBVIOUS

\* Elements of the first of two sequences.
LEMMA InFirst ==
    ASSUME NEW S, NEW s \in Seq(S), NEW t \in Seq(S), NEW n \in DOMAIN s
    PROVE  n \in DOMAIN (s \o t) /\ (s \o t)[n] = s[n]
  OBVIOUS

\* The end of a transaction that commits nothing.
LEMMA PresetsFinish ==
    ASSUME PresetsGiven, PresetsInv, NEW p \in Requests, P!Finish(p), UNCHANGED <<rows, started>>
    PROVE  PresetsInv'
  <1>1. /\ request' = [request EXCEPT ![p] = NoRequest] /\ pc' = [pc EXCEPT ![p] = "idle"]
        /\ todo' = [todo EXCEPT ![p] = <<>>]
        /\ written' = [written EXCEPT ![p] = [k \in P!Keys |-> Same]]
    BY DEF P!Finish, P!Go
  <1>2. /\ request'[p] = NoRequest /\ pc'[p] = "idle" /\ todo'[p] = <<>>
        /\ \A k \in P!Keys : written'[p][k] = Same
        /\ \A q \in Requests \ {p} : /\ request'[q] = request[q] /\ pc'[q] = pc[q]
                                     /\ todo'[q] = todo[q] /\ written'[q] = written[q]
    BY <1>1 DEF PresetsInv, PresetTypes
  <1>3. /\ \A k \in P!Keys : P!View(p, k)' = rows[k]
        /\ \A q \in Requests \ {p}, k \in P!Keys : P!View(q, k)' = P!View(q, k)
    BY <1>2 DEF P!View
  <1>4. PresetTypes'
    <2>1. [k \in P!Keys |-> Same] \in [P!Keys -> PresetCells \cup {Same}] OBVIOUS
    <2>2. written' \in [Requests -> [P!Keys -> PresetCells \cup {Same}]]
      BY <1>1, <2>1 DEF PresetsInv, PresetTypes
    <2>3. \A q \in Requests, k \in P!Keys : written'[q][k] \in KeptAs(k) \cup {Same}
      BY <1>2 DEF PresetsInv, PresetTypes
    <2> QED BY <1>1, <1>2, <2>2, <2>3 DEF PresetsInv, PresetTypes
  <1>5. PresetRowsAgree' BY DEF PresetsInv, PresetRowsAgree
  <1>6. ASSUME NEW q \in Requests PROVE Distinct(q)'
    BY <1>3, PresetCell DEF PresetsInv, Distinct, PresetRowsAgree
  <1>7. ASSUME NEW q \in Requests PROVE Stems(q)'
    <2>1. CASE q = p
      BY <1>2, <2>1, PresetCell, CellsAre
         DEF Stems, PresetsGiven, P!Keys, PresetCells, PresetRecords, References
    <2>2. CASE q # p BY <1>2, <2>2 DEF PresetsInv, Stems, Inserted
    <2> QED BY <2>1, <2>2
  <1>8. ASSUME NEW q \in Requests PROVE Plans(q)' /\ Refers(q)'
    <2>1. CASE q = p
      <3>1. \A S : <<>> \in Seq(S) OBVIOUS
      <3>2. Plans(q)' BY <1>2, <2>1, <3>1 DEF Plans, Untouched
      <3>3. Refers(q)' BY <1>2, <2>1 DEF Refers
      <3> QED BY <3>2, <3>3
    <2>2. CASE q # p
      BY <1>2, <2>2 DEF PresetsInv, Plans, Drops, Untouched, Refers, Going, P!View
    <2> QED BY <2>1, <2>2
  <1>9. ASSUME NEW q \in Requests, NEW r \in Requests, q # r PROVE PresetsApart(q, r)'
    <2>1. CASE q = p
      <3>1. \A k \in References : ~Inserted(p, k)' BY <1>2 DEF Inserted, P!Keys, References
      <3>2. \A x \in Presets : written'[p][x] \notin PresetRow
        BY <1>2, PresetCell DEF PresetsGiven, PresetCells, PresetRecords
      <3> QED BY <1>2, <2>1, <3>1, <3>2 DEF PresetsApart
    <2>2. CASE r = p
      <3>2. \A x \in Presets : written'[p][x] \notin PresetRow /\ written'[p][x] = Same
        BY <1>2, PresetCell DEF PresetsGiven, PresetCells, PresetRecords
      <3> QED BY <1>2, <2>2, <3>2 DEF PresetsApart
    <2>3. CASE q # p /\ r # p
      BY <1>2, <1>9, <2>3 DEF PresetsInv, PresetsApart, Inserted
    <2> QED BY <2>1, <2>2, <2>3
  <1> QED BY <1>4, <1>5, <1>6, <1>7, <1>8, <1>9 DEF PresetsInv

\* A statement that a constraint refuses.
LEMMA PresetRefused ==
    ASSUME PresetsGiven, PresetsInv, NEW p \in Requests, pc[p] # "idle",
           UNCHANGED <<rows, written, request, started>>, P!Go(p, "conflict", <<>>)
    PROVE  PresetsInv'
  <1>1. <<>> \in Seq(PresetStatements(request[p])) OBVIOUS
  <1> QED BY <1>1, PresetsGo

\* A statement that deletes nothing is done.
LEMMA Passed ==
    ASSUME PresetsGiven, PresetsInv, NEW p \in Requests, pc[p] = "writing", todo[p] # <<>>,
           Head(todo[p]).kind \notin {"delete", "cascade"}
    PROVE  Keeps(p, Tail(todo[p])) /\ Tail(todo[p]) \in Seq(PresetStatements(request[p]))
  <1> DEFINE S == PresetStatements(request[p])
  <1>1. todo[p] \in Seq(S) /\ Tail(todo[p]) \in Seq(S) BY PlannedAhead
  <1>2. ASSUME NEW n \in DOMAIN todo[p], todo[p][n].kind \in {"delete", "cascade"}
        PROVE  \E m \in DOMAIN Tail(todo[p]) : Tail(todo[p])[m] = todo[p][n]
    BY <1>1, <1>2, InTail
  <1> HIDE DEF S
  <1>3. Keeps(p, Tail(todo[p]))
    <2> DEFINE plan == Tail(todo[p])
    <2>1. \A n \in DOMAIN todo[p] : todo[p][n].kind \in {"delete", "cascade"} =>
             \E m \in DOMAIN plan : plan[m] = todo[p][n]
      BY <1>2
    <2> HIDE DEF plan
    <2>2. Keeps(p, plan) BY <2>1, KeepsOn
    <2> QED BY <2>2 DEF plan
  <1> QED BY <1>1, <1>3 DEF S

\* The name is free, or the request ends.
LEMMA PresetsRead ==
    ASSUME PresetsGiven, PresetsInv, NEW p \in Requests, P!Finish(p) \/ P!Go(p, "writing", todo[p]),
           P!_assert_name_free(p)
    PROVE  PresetsInv'
  <1>1. CASE P!Finish(p) BY <1>1, PresetsFinish DEF P!_assert_name_free
  <1>2. CASE P!Go(p, "writing", todo[p]) /\ ~P!Finish(p)
    <2>1. pc[p] = "naming" /\ todo[p] \in Seq(PresetStatements(request[p])) /\ Untouched(p)
      BY DEF P!_assert_name_free, PresetsInv, Plans
    <2>2. Keeps(p, todo[p])
      <3>1. \A k \in P!Keys : P!View(p, k) = rows[k] BY <2>1 DEF P!View, Untouched
      <3>2. \A k \in References : rows[k] # NoRow => P!Target(k, rows[k]) \in P!Keys /\ k \in P!Keys
        BY TargetType, PresetCell DEF PresetsInv, PresetTypes, P!Keys, References
      <3>3. \A k \in References : k \in P!Keys BY DEF P!Keys, References
      <3> QED BY <3>1, <3>2, <3>3 DEF Keeps, PresetsInv, PresetRowsAgree
    <2> QED BY <1>2, <2>1, <2>2, PresetsGo DEF P!_assert_name_free
  <1> QED BY <1>1, <1>2

\* The rules that _add_rules inserts.
LEMMA FactoryRules ==
    ASSUME PresetsGiven, NEW x \in Presets, NEW r, r.id \in Nat
    PROVE  P!_add_rules(x, r.id) \in Seq(PresetStatements(r))
  <1>1. ASSUME NEW n \in 1 .. Factory
        PROVE  P!Insert(<<x, n>>, [id |-> r.id, factory |-> TRUE]) \in PresetStatements(r)
    BY DEF P!Insert, P!Statement, PresetStatements, PresetsGiven, P!Rules, RuleRow
  <1> DEFINE S == PresetStatements(r)
             f == P!_add_rules(x, r.id)
  <1>2. f \in [1 .. Factory -> S] BY <1>1 DEF P!_add_rules
  <1> HIDE DEF S, f
  <1>3. f \in Seq(S) BY <1>2 DEF PresetsGiven
  <1> QED BY <1>3 DEF S, f

\* A statement that deletes nothing becomes others.
LEMMA Expands ==
    ASSUME PresetsGiven, PresetsInv, NEW p \in Requests,
           NEW kind, kind \notin {"delete", "cascade"},
           P!At(p, kind), UNCHANGED <<rows, written, request, started>>,
           NEW plan \in Seq(PresetStatements(request[p])),
           P!Go(p, "writing", plan \o Tail(todo[p]))
    PROVE  PresetsInv'
  <1> DEFINE S == PresetStatements(request[p])
             t == Tail(todo[p])
             new == plan \o t
  <1>1. /\ pc[p] = "writing" /\ pc[p] # "idle" /\ todo[p] # <<>>
        /\ Head(todo[p]).kind \notin {"delete", "cascade"}
    BY DEF P!At
  <1>2. todo[p] \in Seq(S) /\ t \in Seq(S) BY <1>1, PlannedAhead
  <1>3. \A n \in DOMAIN todo[p] : todo[p][n].kind \in {"delete", "cascade"} =>
           \E m \in DOMAIN new : new[m] = todo[p][n]
    <2> SUFFICES ASSUME NEW n \in DOMAIN todo[p], todo[p][n].kind \in {"delete", "cascade"}
                 PROVE  \E m \in DOMAIN new : new[m] = todo[p][n]
      OBVIOUS
    <2>1. PICK i \in DOMAIN t : t[i] = todo[p][n] BY <1>1, <1>2, InTail
    <2> HIDE DEF S, t
    <2>2. Len(plan) + i \in DOMAIN new /\ new[Len(plan) + i] = t[i]
      BY <1>2, InSecond DEF S
    <2> QED BY <2>1, <2>2
  <1>4. new \in Seq(S)
    <2> HIDE DEF t
    <2> QED BY <1>2
  <1> HIDE DEF new
  <1>5. Keeps(p, new) BY <1>1, <1>3, KeepsOn
  <1> HIDE DEF S
  <1> QED BY <1>1, <1>4, <1>5, PresetsGo DEF new, t, S

\* The synchronization reads which presets of the catalogue are missing.
LEMMA PresetsReadCatalogue ==
    ASSUME PresetsGiven, PresetsInv, NEW p \in Requests, P!_chiavi_e_nomi_del_tenant(p)
    PROVE  PresetsInv'
  <1> DEFINE missing == {n \in DOMAIN BUILTIN_PRESETS : \A x \in Presets : P!Exists(rows[x]) =>
                            BUILTIN_PRESETS[n] \notin {rows[x].builtin, rows[x].name}}
             plan(new) == [n \in DOMAIN BUILTIN_PRESETS |->
                  IF n \in missing THEN P!Statement("install", new[n], BUILTIN_PRESETS[n])
                  ELSE P!Statement("skip", Null, Null)]
  <1>1. PICK new \in [missing -> {x \in Presets : P!Free(x)}] :
           P!Go(p, "writing", plan(new) \o Tail(todo[p]))
    BY DEF P!_chiavi_e_nomi_del_tenant
  <1>2. plan(new) \in Seq(PresetStatements(request[p]))
    <2>1. ASSUME NEW n \in DOMAIN BUILTIN_PRESETS
          PROVE  plan(new)[n] \in PresetStatements(request[p])
      <3>1. CASE n \in missing
        <4>1. new[n] \in Presets /\ BUILTIN_PRESETS[n] \in Factories
          BY <3>1, <1>1 DEF Factories
        <4> QED BY <3>1, <4>1 DEF P!Statement, PresetStatements
      <3>2. CASE n \notin missing BY <3>2 DEF P!Statement, PresetStatements
      <3> QED BY <3>1, <3>2
    <2>2. PICK m \in Nat : DOMAIN BUILTIN_PRESETS = 1 .. m BY DEF PresetsGiven
    <2> DEFINE f == plan(new)
               S == PresetStatements(request[p])
    <2>3. f \in [1 .. m -> S] BY <2>1, <2>2
    <2> HIDE DEF f, S
    <2>4. f \in Seq(S) BY <2>2, <2>3
    <2> QED BY <2>4 DEF f, S
  <1> HIDE DEF plan, missing
  <1>3. P!At(p, "read") /\ UNCHANGED <<rows, written, request, started>>
    BY DEF P!_chiavi_e_nomi_del_tenant
  <1> QED BY <1>1, <1>2, <1>3, Expands

\* The synchronization inserts a preset of the catalogue and its rules.
LEMMA PresetsInstall ==
    ASSUME PresetsGiven, PresetsInv, NEW p \in Requests, P!install_builtin_preset(p)
    PROVE  PresetsInv'
  <1> DEFINE S == PresetStatements(request[p])
             s == Head(todo[p])
             row == [id |-> request[p].id, builtin |-> s.row, name |-> s.row]
             first == <<P!Insert(s.key, row)>>
             rest == P!_add_rules(s.key, request[p].id)
  <1>1. P!At(p, "install") /\ UNCHANGED <<rows, written, request, started>>
        /\ P!Go(p, "writing", first \o rest \o Tail(todo[p]))
    BY DEF P!install_builtin_preset
  <1>2. s \in S /\ request[p] \in PresetRequest
    BY <1>1, PlannedAhead DEF P!At, PresetsInv, PresetTypes
  <1>3. s.key \in Presets /\ s.row \in Factories /\ s.row \in Labels /\ request[p].id \in Nat
    BY <1>1, <1>2 DEF P!At, PresetStatements, Labels, PresetRequest
  <1>4. row \in PresetRow /\ row.id = request[p].id /\ row.builtin = row.name
    BY <1>3 DEF PresetRow
  <1>5. P!Insert(s.key, row) \in S
    BY <1>3, <1>4 DEF P!Insert, P!Statement, PresetStatements
  <1>6. rest \in Seq(S) BY <1>3, FactoryRules
  <1> HIDE DEF S, row, rest
  <1>7. first \in Seq(S) BY <1>5
  <1> HIDE DEF first
  <1>8. first \o rest \in Seq(S) BY <1>6, <1>7
  <1> QED BY <1>1, <1>8, Expands DEF S

\* A preset of the catalogue that is not missing.
LEMMA PresetsSkip ==
    ASSUME PresetsGiven, PresetsInv, NEW p \in Requests, P!skip(p)
    PROVE  PresetsInv'
  <1>1. /\ pc[p] = "writing" /\ pc[p] # "idle" /\ todo[p] # <<>>
        /\ Head(todo[p]).kind \notin {"delete", "cascade"}
        /\ P!Go(p, "writing", Tail(todo[p])) /\ UNCHANGED <<rows, written, request, started>>
    BY DEF P!skip, P!At
  <1> QED BY <1>1, Passed, PresetsGo

\* An order of a finite set has each of its elements.
LEMMA OrderHasAll ==
    ASSUME NEW S, IsFiniteSet(S), NEW order \in P!Bijection(1 .. P!Cardinality(S), S)
    PROVE  /\ \E n \in Nat : DOMAIN order = 1 .. n
           /\ \A n \in DOMAIN order : order[n] \in S
           /\ \A k \in S : \E n \in DOMAIN order : order[n] = k
  <1>1. P!Cardinality(S) \in Nat BY FS_CardinalityType, SameCardinality
  <1> QED BY <1>1 DEF P!Bijection, P!Injection, P!Surjection

\* The rows that a purge finds.
LEMMA FoundRows ==
    ASSUME PresetsGiven, PresetTypes, NEW s, NEW k \in P!Found(s)
    PROVE  k \in References /\ rows[k] # NoRow /\ k \in P!Keys /\ rows[k].id \in Nat
  <1>1. k \in References /\ rows[k] # NoRow BY DEF P!Found, References
  <1>2. k \in P!Keys BY <1>1 DEF P!Keys, References
  <1> QED BY <1>1, <1>2, TargetType DEF PresetTypes

\* A purge plans to delete what it finds.
LEMMA PresetsPurge ==
    ASSUME PresetsGiven, PresetsInv, NEW p \in Requests, P!purge(p)
    PROVE  PresetsInv'
  <1> DEFINE S == PresetStatements(request[p])
             s == Head(todo[p])
             t == Tail(todo[p])
             dels(order) == [n \in DOMAIN order |-> P!Delete(order[n], rows[order[n]].id)]
  <1>1. PICK order \in P!Bijection(1 .. P!Cardinality(P!Found(s)), P!Found(s)) :
            P!Go(p, "writing", dels(order) \o t)
    BY DEF P!purge
  <1>2. /\ pc[p] = "writing" /\ pc[p] # "idle" /\ todo[p] # <<>>
        /\ s.kind \in {"purge", "cascade"}
        /\ UNCHANGED <<rows, written, request, started>>
    BY DEF P!purge, P!At
  <1>3. IsFiniteSet(P!Found(s))
    BY FS_Subset, FoundRows DEF PresetsGiven, PresetsInv
  <1>4. /\ \E n \in Nat : DOMAIN order = 1 .. n
        /\ \A n \in DOMAIN order : order[n] \in P!Found(s)
        /\ \A k \in P!Found(s) : \E n \in DOMAIN order : order[n] = k
    BY <1>3, OrderHasAll
  <1>5. todo[p] \in Seq(S) /\ s \in S /\ t \in Seq(S) BY <1>2, PlannedAhead
  <1> DEFINE d == dels(order)
             new == d \o t
  <1>6. d \in Seq(S) /\ DOMAIN d = DOMAIN order
    <2>1. ASSUME NEW n \in DOMAIN order PROVE d[n] \in S
      <3>1. order[n] \in References /\ rows[order[n]].id \in Nat
        BY <1>4, FoundRows DEF PresetsInv
      <3> QED BY <3>1 DEF P!Delete, P!Statement, PresetStatements
    <2>2. PICK m \in Nat : DOMAIN order = 1 .. m BY <1>4
    <2>3. d \in [1 .. m -> S] BY <2>1, <2>2
    <2>4. DOMAIN d = DOMAIN order OBVIOUS
    <2> HIDE DEF d, S
    <2> QED BY <2>2, <2>3, <2>4
  <1>7. Keeps(p, new)
    <2> SUFFICES ASSUME NEW k \in References, P!View(p, k) # NoRow,
                        ~P!Exists(P!View(p, P!Target(k, P!View(p, k))))
                 PROVE  /\ written[p][k] = Same
                        /\ \E n \in DOMAIN new :
                              new[n] \in {P!Cascade(P!Target(k, rows[k])), P!Delete(k, rows[k].id)}
      BY DEF Keeps
    <2>1. Going(p, k) BY <1>2 DEF PresetsInv, Refers
    <2>2. PICK n \in DOMAIN todo[p] :
             todo[p][n] \in {P!Cascade(P!Target(k, rows[k])), P!Delete(k, rows[k].id)}
      BY <2>1 DEF Going
    <2>3. CASE todo[p][n] = s
      <3>1. s = P!Cascade(P!Target(k, rows[k]))
        BY <1>2, <2>2, <2>3 DEF P!Delete, P!Cascade, P!Statement
      <3>2. rows[k] # NoRow BY <2>1 DEF Going, P!View
      <3>3. k \in P!Found(s) BY <3>1, <3>2 DEF P!Found, References, P!Cascade, P!Statement
      <3>4. PICK m \in DOMAIN order : order[m] = k BY <1>4, <3>3
      <3>5. m \in DOMAIN d /\ d[m] = P!Delete(k, rows[k].id) BY <1>6, <3>4
      <3> HIDE DEF S, d, t, s
      <3>6. m \in DOMAIN new /\ new[m] = d[m] BY <1>5, <1>6, <3>5, InFirst
      <3> QED BY <2>1, <3>5, <3>6 DEF Going
    <2>4. CASE todo[p][n] # s
      <3>1. PICK i \in DOMAIN t : t[i] = todo[p][n] BY <1>2, <1>5, <2>4, InTail
      <3> HIDE DEF S, d, t, s
      <3>2. Len(d) + i \in DOMAIN new /\ new[Len(d) + i] = t[i]
        BY <1>5, <1>6, <3>1, InSecond
      <3> QED BY <2>1, <2>2, <3>1, <3>2 DEF Going
    <2> QED BY <2>3, <2>4
  <1>8. new \in Seq(S)
    <2> HIDE DEF S, d, t
    <2> QED BY <1>5, <1>6
  <1> HIDE DEF new, S
  <1> QED BY <1>1, <1>2, <1>7, <1>8, PresetsGo DEF new, S

-----------------------------------------------------------------------------
(* Steps that write a row. *)

\* Two presets differ one from the other.
LEMMA DifferBoth == ASSUME NEW a, NEW b, Differ(a, b) PROVE Differ(b, a)
  BY DEF Differ

\* The written rows after a write.
LEMMA WrittenAfter ==
    ASSUME PresetsGiven, PresetTypes, NEW p \in Requests,
           NEW k \in P!Keys, NEW row \in KeptAs(k), written' = [written EXCEPT ![p][k] = row]
    PROVE  /\ written'[p][k] = row /\ row # Same
           /\ \A j \in P!Keys \ {k} : written'[p][j] = written[p][j]
           /\ \A q \in Requests \ {p} : written'[q] = written[q]
  <1>1. row # Same BY CellsAre
  <1> QED BY <1>1 DEF PresetTypes

\* What the row may be beside those of another transaction.
Beside(p, q, k, row) ==
    /\ k \in Presets /\ row \in PresetRow =>
          \A y \in Presets \ {k} : written[q][y] \in PresetRow => Differ(row, written[q][y])
    /\ k \in Presets => \A j \in References : Inserted(q, j) => P!Target(j, written[q][j]) # k
    /\ k \in References /\ row # NoRow /\ row.id = request[p].id =>
          written[q][P!Target(k, row)] = Same

LEMMA PresetsWrite ==
    ASSUME PresetsGiven, PresetsInv, NEW p \in Requests, pc[p] = "writing",
           UNCHANGED <<rows, request, started>>,
           P!Go(p, "writing", Tail(todo[p])), Tail(todo[p]) \in Seq(PresetStatements(request[p])),
           NEW k \in P!Keys, NEW row \in KeptAs(k), written' = [written EXCEPT ![p][k] = row],
           P!Others(p, k) = {}, \A q \in Requests \ {p} : Beside(p, q, k, row),
           Distinct(p)', Stems(p)', Refers(p)'
    PROVE  PresetsInv'
  <1>1. /\ written'[p][k] = row /\ row # Same
        /\ \A j \in P!Keys \ {k} : written'[p][j] = written[p][j]
        /\ \A q \in Requests \ {p} : written'[q] = written[q]
        /\ \A q \in Requests \ {p}, j \in P!Keys : P!View(q, j)' = P!View(q, j)
    <2>1. PresetTypes BY DEF PresetsInv
    <2>3. /\ written'[p][k] = row /\ row # Same
          /\ \A j \in P!Keys \ {k} : written'[p][j] = written[p][j]
          /\ \A q \in Requests \ {p} : written'[q] = written[q]
      BY <2>1, WrittenAfter
    <2>4. \A q \in Requests \ {p}, j \in P!Keys : P!View(q, j)' = P!View(q, j) BY <2>3
                                                                                  DEF P!View
    <2> QED BY <2>3, <2>4
  <1>2. /\ pc' = [pc EXCEPT ![p] = "writing"] /\ todo' = [todo EXCEPT ![p] = Tail(todo[p])]
        /\ pc'[p] = "writing" /\ todo'[p] = Tail(todo[p])
        /\ \A q \in Requests \ {p} : pc'[q] = pc[q] /\ todo'[q] = todo[q]
    BY DEF P!Go, PresetsInv, PresetTypes
  <1>3. PresetTypes'
    <2>1. written' \in [Requests -> [P!Keys -> PresetCells \cup {Same}]]
      BY CellsAre DEF PresetsInv, PresetTypes
    <2>2. \A q \in Requests, j \in P!Keys : written'[q][j] \in KeptAs(j) \cup {Same}
      BY <1>1 DEF PresetsInv, PresetTypes
    <2> QED BY <1>2, <2>1, <2>2 DEF PresetsInv, PresetTypes
  <1>4. PresetRowsAgree' BY DEF PresetsInv, PresetRowsAgree
  <1>5. ASSUME NEW q \in Requests PROVE Distinct(q)' /\ Stems(q)' /\ Refers(q)'
    <2>1. CASE q # p
      <3>1. Distinct(q)' BY <1>1, <2>1, PresetCell DEF PresetsInv, Distinct
      <3>2. Stems(q)' BY <1>1, <2>1 DEF PresetsInv, Stems, Inserted
      <3>3. Refers(q)' BY <1>1, <1>2, <2>1 DEF PresetsInv, Refers, Going, P!View
      <3> QED BY <3>1, <3>2, <3>3
    <2> QED BY <2>1
  <1>6. ASSUME NEW q \in Requests PROVE Plans(q)'
    <2>1. CASE q = p BY <1>2, <2>1 DEF Plans
    <2>2. CASE q # p BY <1>1, <1>2, <2>2 DEF PresetsInv, Plans, Drops, Untouched
    <2> QED BY <2>1, <2>2
  <1>7. ASSUME NEW q \in Requests \ {p} PROVE PresetsApart(p, q)' /\ PresetsApart(q, p)'
    <2>0. Beside(p, q, k, row) /\ PresetsApart(p, q) /\ PresetsApart(q, p)
          /\ written[q][k] = Same
      BY <1>7 DEF PresetsInv, P!Others
    <2>1. \A j \in P!Keys : written'[p][j] = Same \/ written'[q][j] = Same
      BY <1>1, <2>0 DEF PresetsApart
    <2>2. ASSUME NEW x \in Presets, NEW y \in Presets, x # y,
                 written'[p][x] \in PresetRow, written'[q][y] \in PresetRow
          PROVE  Differ(written'[p][x], written'[q][y]) /\ Differ(written'[q][y], written'[p][x])
      <3>0. x \in P!Keys /\ y \in P!Keys BY DEF P!Keys
      <3>1. CASE x = k BY <1>1, <2>0, <2>2, <3>1, DifferBoth DEF Beside
      <3>2. CASE x # k BY <1>1, <2>0, <2>2, <3>0, <3>2, DifferBoth DEF PresetsApart
      <3> QED BY <3>1, <3>2
    <2>3. ASSUME NEW x \in Presets, NEW j \in References, Inserted(p, j)',
                 P!Target(j, written'[p][j]) = x
          PROVE  written'[q][x] = Same
      <3>0. j \in P!Keys BY DEF P!Keys, References
      <3>1. CASE j = k BY <1>1, <2>0, <2>3, <3>1 DEF Beside, Inserted
      <3>2. CASE j # k BY <1>1, <2>0, <2>3, <3>0, <3>2 DEF PresetsApart, Inserted
      <3> QED BY <3>1, <3>2
    <2>4. ASSUME NEW x \in Presets, NEW j \in References, Inserted(q, j)',
                 P!Target(j, written'[q][j]) = x
          PROVE  written'[p][x] = Same
      <3>0. Inserted(q, j) /\ P!Target(j, written[q][j]) = x /\ x \in P!Keys
        BY <1>1, <2>4 DEF Inserted, P!Keys
      <3>1. x # k BY <2>0, <3>0 DEF Beside
      <3> QED BY <1>1, <2>0, <3>0, <3>1 DEF PresetsApart
    <2>5. PresetsApart(p, q)' BY <2>1, <2>2, <2>3 DEF PresetsApart
    <2>6. PresetsApart(q, p)' BY <2>1, <2>2, <2>4 DEF PresetsApart
    <2> QED BY <2>5, <2>6
  <1>8. ASSUME NEW q \in Requests, NEW r \in Requests, q # r PROVE PresetsApart(q, r)'
    <2>1. CASE q # p /\ r # p BY <1>1, <1>8, <2>1 DEF PresetsInv, PresetsApart, Inserted
    <2> QED BY <1>7, <1>8, <2>1
  <1> QED BY <1>3, <1>4, <1>5, <1>6, <1>8 DEF PresetsInv

\* A row of a preset that no key refuses.
LEMMA WritesPreset ==
    ASSUME PresetsGiven, PresetsInv, NEW p \in Requests, pc[p] = "writing", todo[p] # <<>>,
           Head(todo[p]).kind \notin {"delete", "cascade"},
           UNCHANGED <<rows, request, started>>, NEW x \in Presets, NEW row \in PresetRow,
           row.builtin \in {Null, row.name} \/ (P!Exists(rows[x]) /\ rows[x].builtin = row.builtin),
           P!Write(p, x, row)
    PROVE  PresetsInv'
  <1>1. CASE P!Violates(p, x, row) BY <1>1, PresetRefused DEF P!Write
  <1>2. CASE ~P!Violates(p, x, row)
    <2>1. /\ written' = [written EXCEPT ![p][x] = row] /\ P!Go(p, "writing", Tail(todo[p]))
          /\ P!Others(p, x) = {} /\ P!Sharing(p, Presets, "name", row.name) = {}
          /\ P!Referring(p, x) = {}
      BY <1>2 DEF P!Write, P!Awaited
    <2>2. /\ Keeps(p, Tail(todo[p])) /\ Tail(todo[p]) \in Seq(PresetStatements(request[p]))
      BY Passed
    <2>3. x \in P!Keys /\ row \in KeptAs(x) /\ P!Exists(row) BY PresetCell
    <2>4. PresetTypes BY DEF PresetsInv
    <2>5. /\ written'[p][x] = row /\ row # Same /\ P!View(p, x)' = row
          /\ \A j \in P!Keys \ {x} : written'[p][j] = written[p][j] /\ P!View(p, j)' = P!View(p, j)
          /\ \A q \in Requests \ {p} : written'[q] = written[q]
      <3>1. /\ written'[p][x] = row /\ row # Same
            /\ \A j \in P!Keys \ {x} : written'[p][j] = written[p][j]
            /\ \A q \in Requests \ {p} : written'[q] = written[q]
        BY <2>1, <2>3, <2>4, WrittenAfter
      <3> QED BY <3>1 DEF P!View
    <2>6. \A y \in Presets \ {x} : Differ(row, P!View(p, y))
      BY <1>2, <2>3 DEF P!Violates, Differ
    <2>7. Distinct(p)'
      <3>1. \A y \in Presets : y # x => P!View(p, y)' = P!View(p, y)
        BY <2>5 DEF P!Keys
      <3> QED BY <2>5, <2>6, <3>1, DifferBoth DEF Distinct, PresetsInv
    <2>8. Stems(p)'
      <3>1. x \notin References BY PresetCell
      <3> QED BY <2>5, <3>1 DEF Stems, Inserted, PresetsInv, P!Keys, References
    <2>9. Refers(p)'
      <3> SUFFICES ASSUME NEW k \in References, P!View(p, k)' # NoRow
                   PROVE  P!Exists(P!View(p, P!Target(k, P!View(p, k))))' \/ Going(p, k)'
        BY DEF Refers
      <3>1. k \in P!Keys /\ k # x /\ P!View(p, k)' = P!View(p, k) /\ written'[p][k] = written[p][k]
        BY <2>5, PresetCell DEF P!Keys, References
      <3>2. P!Target(k, P!View(p, k)) \in Presets
        BY <2>4, <3>1, ViewCell, TargetType
      <3>3. ASSUME NEW y \in Presets, P!Exists(P!View(p, y)) PROVE P!Exists(P!View(p, y)')
        BY <2>3, <2>5, <3>3 DEF P!Keys
      <3>4. todo'[p] = Tail(todo[p]) BY <2>1, <2>4 DEF P!Go, PresetTypes
      <3> QED BY <2>2, <3>1, <3>2, <3>3, <3>4 DEF Keeps, Going
    <2>10. ASSUME NEW q \in Requests \ {p} PROVE Beside(p, q, x, row)
      <3>1. ASSUME NEW y \in Presets \ {x}, written[q][y] \in PresetRow
            PROVE  Differ(row, written[q][y])
        <4> DEFINE other == written[q][y]
        <4>1. y \in P!Keys /\ other # Same /\ P!Exists(other)
          BY <3>1, PresetCell, CellsAre DEF PresetsGiven, PresetCells, PresetRecords
        <4>2. /\ other.name # row.name
              /\ P!Exists(rows[y]) => rows[y].name # row.name
          BY <2>1, <4>1 DEF P!Sharing
        <4>3. ASSUME row.builtin # Null, row.builtin = other.builtin PROVE FALSE
          <5>1. written[p][y] = Same /\ written[q][x] = Same
            BY <2>1, <2>3, <4>1 DEF PresetsInv, PresetsApart, P!Others
          <5>2. CASE P!Exists(rows[y]) /\ rows[y].builtin = other.builtin
            BY <2>6, <4>3, <5>1, <5>2, <2>3 DEF P!View, Differ
          <5>3. CASE P!Exists(rows[x]) /\ rows[x].builtin = row.builtin
            <6>1. Differ(P!View(q, x), P!View(q, y)) BY DEF PresetsInv, Distinct
            <6>2. P!View(q, x) = rows[x] /\ P!View(q, y) = other BY <4>1, <5>1 DEF P!View
            <6> QED BY <4>1, <4>3, <5>3, <6>1, <6>2 DEF Differ
          <5>4. CASE other.builtin \in {Null, other.name} /\ row.builtin \in {Null, row.name}
            BY <4>2, <4>3, <5>4
          <5> QED BY <3>1, <5>2, <5>3, <5>4 DEF PresetsInv, Stems
        <4> QED BY <4>2, <4>3 DEF Differ
      <3>2. ASSUME NEW j \in References, Inserted(q, j) PROVE P!Target(j, written[q][j]) # x
        BY <2>1, <3>2 DEF P!Referring, Inserted, References
      <3>3. x \notin References BY PresetCell
      <3> QED BY <3>1, <3>2, <3>3 DEF Beside
    <2> QED BY <2>1, <2>2, <2>3, <2>7, <2>8, <2>9, <2>10, PresetsWrite
  <1> QED BY <1>1, <1>2

\* A rule or an application that no key refuses.
LEMMA WritesReference ==
    ASSUME PresetsGiven, PresetsInv, NEW p \in Requests, pc[p] = "writing", todo[p] # <<>>,
           Head(todo[p]).kind \notin {"delete", "cascade"},
           UNCHANGED <<rows, request, started>>,
           NEW k \in References, NEW row \in KeptAs(k), row # NoRow,
           \/ row.id = request[p].id
           \/ rows[k] # NoRow /\ rows[k].id = row.id /\ P!Target(k, rows[k]) = P!Target(k, row),
           P!Write(p, k, row)
    PROVE  PresetsInv'
  <1>1. CASE P!Violates(p, k, row) BY <1>1, PresetRefused DEF P!Write
  <1>2. CASE ~P!Violates(p, k, row)
    <2> DEFINE x == P!Target(k, row)
    <2>1. /\ written' = [written EXCEPT ![p][k] = row] /\ P!Go(p, "writing", Tail(todo[p]))
          /\ P!Others(p, k) = {} /\ P!Exists(P!View(p, x))
          /\ row.id = request[p].id /\ P!Exists(rows[x]) => P!Others(p, x) = {}
      BY <1>2 DEF P!Write, P!Awaited, P!Violates, References
    <2>2. /\ Keeps(p, Tail(todo[p])) /\ Tail(todo[p]) \in Seq(PresetStatements(request[p]))
      BY Passed
    <2>3. x \in Presets /\ k \in P!Keys /\ x \in P!Keys /\ k # x /\ k \notin Presets
      BY TargetType, PresetCell DEF P!Keys
    <2>4. PresetTypes BY DEF PresetsInv
    <2>5. /\ written'[p][k] = row /\ row # Same
          /\ \A j \in P!Keys \ {k} : written'[p][j] = written[p][j]
          /\ \A q \in Requests \ {p} : written'[q] = written[q]
      BY <2>1, <2>3, <2>4, WrittenAfter
    <2>6. P!View(p, k)' = row /\ \A j \in P!Keys \ {k} : P!View(p, j)' = P!View(p, j)
      BY <2>5 DEF P!View
    <2>7. \A y \in Presets : y \in P!Keys /\ P!View(p, y)' = P!View(p, y)
      BY <2>3, <2>6 DEF P!Keys
    <2>8. Distinct(p)' BY <2>7 DEF Distinct, PresetsInv
    <2>9. Stems(p)'
      <3>1. \A y \in Presets : written'[p][y] = written[p][y] BY <2>3, <2>5, <2>7
      <3>2. \A j \in References : j # k => written'[p][j] = written[p][j]
        BY <2>5 DEF P!Keys, References
      <3> QED BY <2>5, <3>1, <3>2 DEF Stems, Inserted, PresetsInv
    <2>10. Refers(p)'
      <3> SUFFICES ASSUME NEW j \in References, P!View(p, j)' # NoRow
                   PROVE  P!Exists(P!View(p, P!Target(j, P!View(p, j))))' \/ Going(p, j)'
        BY DEF Refers
      <3>1. CASE j = k BY <2>1, <2>3, <2>6, <2>7, <3>1
      <3>2. CASE j # k
        <4>1. j \in P!Keys /\ P!View(p, j)' = P!View(p, j) /\ written'[p][j] = written[p][j]
          BY <2>5, <2>6, <3>2 DEF P!Keys, References
        <4>2. P!Target(j, P!View(p, j)) \in Presets
          BY <2>4, <4>1, ViewCell, TargetType
        <4>3. todo'[p] = Tail(todo[p]) BY <2>1, <2>4 DEF P!Go, PresetTypes
        <4> QED BY <2>2, <2>7, <4>1, <4>2, <4>3 DEF Keeps, Going
      <3> QED BY <3>1, <3>2
    <2>11. ASSUME NEW q \in Requests \ {p} PROVE Beside(p, q, k, row)
      <3>1. ASSUME row.id = request[p].id PROVE written[q][x] = Same
        <4>1. CASE P!Exists(rows[x]) BY <2>1, <3>1, <4>1 DEF P!Others
        <4>2. CASE ~P!Exists(rows[x])
          <5>1. written[p][x] # Same BY <2>1, <4>2 DEF P!View
          <5> QED BY <2>3, <5>1 DEF PresetsInv, PresetsApart
        <4> QED BY <4>1, <4>2
      <3> QED BY <2>3, <3>1 DEF Beside
    <2> QED BY <2>1, <2>2, <2>3, <2>8, <2>9, <2>10, <2>11, PresetsWrite
  <1> QED BY <1>1, <1>2

\* A row of nobody's tables.
LEMMA PresetsLock ==
    ASSUME PresetsGiven, PresetsInv, NEW p \in Requests, P!lock_tenant_settings(p)
    PROVE  PresetsInv'
  <1> DEFINE row == rows[TenantRow]
  <1>1. /\ pc[p] = "writing" /\ pc[p] # "idle" /\ todo[p] # <<>> /\ P!Others(p, TenantRow) = {}
        /\ Head(todo[p]).kind \notin {"delete", "cascade"}
        /\ written' = [written EXCEPT ![p][TenantRow] = row]
        /\ P!Go(p, "writing", Tail(todo[p])) /\ UNCHANGED <<rows, request, started>>
    BY DEF P!lock_tenant_settings, P!At
  <1>2. /\ Keeps(p, Tail(todo[p])) /\ Tail(todo[p]) \in Seq(PresetStatements(request[p]))
    BY <1>1, Passed
  <1>3. /\ TenantRow \in P!Keys /\ row \in KeptAs(TenantRow)
        /\ TenantRow \notin Presets \cup References
    BY DEF PresetsInv, PresetTypes, P!Keys, PresetsGiven
  <1>4. PresetTypes BY DEF PresetsInv
  <1>5. /\ \A j \in P!Keys \ {TenantRow} : written'[p][j] = written[p][j]
        /\ \A q \in Requests \ {p} : written'[q] = written[q]
    <2> HIDE DEF row
    <2> QED BY <1>1, <1>3, <1>4, WrittenAfter
  <1>6. \A j \in Presets \cup References :
           j \in P!Keys /\ written'[p][j] = written[p][j] /\ P!View(p, j)' = P!View(p, j)
    BY <1>1, <1>3, <1>5 DEF P!Keys, References, P!View
  <1>7. Distinct(p)' BY <1>6 DEF Distinct, PresetsInv
  <1>8. Stems(p)' BY <1>1, <1>6 DEF Stems, Inserted, PresetsInv
  <1>9. Refers(p)'
    <2> SUFFICES ASSUME NEW j \in References, P!View(p, j)' # NoRow
                 PROVE  P!Exists(P!View(p, P!Target(j, P!View(p, j))))' \/ Going(p, j)'
      BY DEF Refers
    <2>1. j \in P!Keys /\ P!View(p, j)' = P!View(p, j) /\ written'[p][j] = written[p][j]
      BY <1>6
    <2>2. P!Target(j, P!View(p, j)) \in Presets BY <1>4, <2>1, ViewCell, TargetType
    <2>3. todo'[p] = Tail(todo[p]) BY <1>1, <1>4 DEF P!Go, PresetTypes
    <2> QED BY <1>1, <1>2, <1>6, <2>1, <2>2, <2>3 DEF Keeps, Going
  <1>10. \A q \in Requests \ {p} : Beside(p, q, TenantRow, row) BY <1>3 DEF Beside
  <1> HIDE DEF row
  <1> QED BY <1>1, <1>2, <1>3, <1>7, <1>8, <1>9, <1>10, PresetsWrite

\* A row that goes: the plan that is left has what refers to it, if it is a preset.
LEMMA Removes ==
    ASSUME PresetsGiven, PresetsInv, NEW p \in Requests, pc[p] = "writing",
           UNCHANGED <<rows, request, started>>, NEW k \in Presets \cup References,
           P!Others(p, k) = {}, k \in Presets => P!Referring(p, k) = {},
           written' = [written EXCEPT ![p][k] = NoRow],
           P!Go(p, "writing", Tail(todo[p])), Tail(todo[p]) \in Seq(PresetStatements(request[p])),
           Refers(p)'
    PROVE  PresetsInv'
  <1>1. k \in P!Keys /\ NoRow \in KeptAs(k) BY DEF KeptAs, P!Keys, References
  <1>2. PresetTypes BY DEF PresetsInv
  <1>3. /\ written'[p][k] = NoRow
        /\ \A j \in P!Keys \ {k} : written'[p][j] = written[p][j]
        /\ \A q \in Requests \ {p} : written'[q] = written[q]
    BY <1>1, <1>2 DEF PresetTypes
  <1>4. NoRow # Same /\ NoRow \notin PresetRow /\ ~P!Exists(NoRow)
    BY DEF PresetsGiven, PresetCells, PresetRecords, P!Exists
  <1>5. \A y \in Presets :
           y \in P!Keys /\ (P!View(p, y)' = P!View(p, y) \/ ~P!Exists(P!View(p, y)'))
    BY <1>3, <1>4 DEF P!View, P!Keys
  <1>6. Distinct(p)' BY <1>5 DEF Distinct, Differ, PresetsInv
  <1>7. Stems(p)' BY <1>3, <1>4 DEF Stems, Inserted, PresetsInv, P!Keys, References
  <1>8. ASSUME NEW q \in Requests \ {p} PROVE Beside(p, q, k, NoRow)
    <2>1. ASSUME k \in Presets, NEW j \in References, Inserted(q, j)
          PROVE  P!Target(j, written[q][j]) # k
      BY <2>1 DEF P!Referring, Inserted, References
    <2> QED BY <1>4, <2>1 DEF Beside
  <1> QED BY <1>1, <1>3, <1>6, <1>7, <1>8, PresetsWrite

\* The deletion of a preset.
LEMMA DeletesPreset ==
    ASSUME PresetsGiven, PresetsInv, NEW p \in Requests, P!delete(p), pc[p] = "writing", Drops(p)
    PROVE  PresetsInv'
  <1>1. PICK x \in Presets, id \in Nat : todo[p] = <<P!Delete(x, id), P!Cascade(x)>> /\ Untouched(p)
    BY DEF Drops
  <1> DEFINE s == Head(todo[p])
             t == Tail(todo[p])
  <1>2. s = P!Delete(x, id) /\ t = <<P!Cascade(x)>>
    <2>1. ASSUME NEW a, NEW b PROVE Head(<<a, b>>) = a /\ Tail(<<a, b>>) = <<b>> OBVIOUS
    <2> QED BY <1>1, <2>1
  <1>3. s.key = x BY <1>2 DEF P!Delete, P!Statement
  <1>4. UNCHANGED <<rows, request, started>> /\ P!Go(p, "writing", t) /\ pc[p] # "idle"
    BY DEF P!delete
  <1>5. t \in Seq(PresetStatements(request[p]))
    <2>1. P!Cascade(x) \in PresetStatements(request[p])
      BY DEF P!Cascade, P!Statement, PresetStatements
    <2>2. ASSUME NEW S, NEW a \in S PROVE <<a>> \in Seq(S) OBVIOUS
    <2> QED BY <1>2, <2>1, <2>2
  <1>6. PresetTypes /\ PresetRowsAgree BY DEF PresetsInv
  <1>7. \A j \in P!Keys : P!View(p, j) = rows[j] BY <1>1 DEF Untouched, P!View
  <1>8. ASSUME NEW j \in References, rows[j] # NoRow
        PROVE  /\ j \in P!Keys /\ P!Target(j, rows[j]) \in P!Keys
               /\ P!Target(j, rows[j]) \in Presets /\ P!Exists(rows[P!Target(j, rows[j])])
    BY <1>6, <1>8, TargetType DEF PresetTypes, PresetRowsAgree, P!Keys, References
  <1>9. CASE P!Committed(x, s.row.id)
    <2>1. /\ P!Others(p, x) = {} /\ P!Referring(p, x) = {}
          /\ written' = [written EXCEPT ![p][x] = NoRow]
      BY <1>3, <1>9 DEF P!delete
    <2>2. x \in P!Keys /\ NoRow \in KeptAs(x) BY DEF KeptAs, P!Keys
    <2>3. /\ written'[p][x] = NoRow
          /\ \A j \in P!Keys \ {x} : written'[p][j] = written[p][j]
      BY <1>6, <2>1, <2>2, WrittenAfter
    <2>4. Refers(p)'
      <3> SUFFICES ASSUME NEW j \in References, P!View(p, j)' # NoRow
                   PROVE  P!Exists(P!View(p, P!Target(j, P!View(p, j))))' \/ Going(p, j)'
        BY DEF Refers
      <3>1. j \in P!Keys /\ j # x BY PresetCell DEF P!Keys, References
      <3>2. P!View(p, j)' = rows[j] /\ written'[p][j] = Same
        BY <1>1, <1>4, <2>3, <3>1 DEF P!View, Untouched
      <3>3. CASE P!Target(j, rows[j]) = x
        <4>1. todo'[p] = <<P!Cascade(x)>> BY <1>2, <1>4, <1>6 DEF P!Go, PresetTypes
        <4>2. rows'[j] = rows[j] BY <1>4
        <4>3. 1 \in DOMAIN todo'[p] /\ todo'[p][1] = P!Cascade(x) BY <4>1
        <4> QED BY <3>2, <3>3, <4>2, <4>3 DEF Going, P!Cascade, P!Statement
      <3>4. CASE P!Target(j, rows[j]) # x
        <4> DEFINE y == P!Target(j, rows[j])
        <4>1. y \in P!Keys /\ P!Exists(rows[y]) BY <1>8, <3>2
        <4>2. written'[p][y] = Same BY <1>1, <2>3, <3>4, <4>1 DEF Untouched
        <4>3. P!View(p, y)' = rows[y] BY <1>4, <3>2, <4>2 DEF P!View
        <4> QED BY <1>4, <3>2, <4>1, <4>2 DEF P!View
      <3> QED BY <3>3, <3>4
    <2> QED BY <1>4, <1>5, <2>1, <2>4, Removes
  <1>10. CASE ~P!Committed(x, s.row.id)
    <2>1. UNCHANGED written BY <1>3, <1>10 DEF P!delete
    <2>2. Keeps(p, t)
      <3>1. \A j \in References : j \in P!Keys BY DEF P!Keys, References
      <3> HIDE DEF t
      <3> QED BY <1>7, <1>8, <3>1 DEF Keeps
    <2> QED BY <1>4, <1>5, <2>1, <2>2, PresetsGo
  <1> QED BY <1>9, <1>10

\* The deletion of a rule or an application.
LEMMA DeletesReference ==
    ASSUME PresetsGiven, PresetsInv, NEW p \in Requests, P!delete(p), pc[p] = "writing", ~Drops(p)
    PROVE  PresetsInv'
  <1> DEFINE s == Head(todo[p])
             t == Tail(todo[p])
             S == PresetStatements(request[p])
  <1>1. /\ UNCHANGED <<rows, request, started>> /\ P!Go(p, "writing", t) /\ pc[p] # "idle"
        /\ todo[p] # <<>> /\ s.kind = "delete"
    BY DEF P!delete, P!At
  <1>2. todo[p] \in Seq(S) BY DEF PresetsInv, Plans
  <1>3. PresetTypes BY DEF PresetsInv
  <1>4. s \in S /\ t \in Seq(S) BY <1>1, <1>2, <1>3, PresetHead
  <1>5. s.key \in References /\ s.row \in [id : Nat] BY <1>1, <1>4 DEF PresetStatements
  <1>6. s = P!Delete(s.key, s.row.id)
    <2>1. s \in [kind : {"delete"}, key : References, row : [id : Nat]]
      BY <1>1, <1>4 DEF PresetStatements
    <2> HIDE DEF s
    <2> QED BY <2>1 DEF P!Delete, P!Statement
  <1>7. s.key \in P!Keys /\ s.key \notin Presets BY <1>5, PresetCell DEF P!Keys, References
  \* What was going and is not the row still is.
  <1>8. ASSUME NEW j \in References, Going(p, j), j # s.key \/ ~P!Committed(s.key, s.row.id),
               P!View(p, j) # NoRow
        PROVE  \E n \in DOMAIN t :
                  t[n] \in {P!Cascade(P!Target(j, rows[j])), P!Delete(j, rows[j].id)}
    <2>1. PICK n \in DOMAIN todo[p] :
             todo[p][n] \in {P!Cascade(P!Target(j, rows[j])), P!Delete(j, rows[j].id)}
      BY <1>8 DEF Going
    <2>2. todo[p][n] # s
      <3>1. CASE todo[p][n] = P!Cascade(P!Target(j, rows[j]))
        BY <1>1, <3>1 DEF P!Cascade, P!Statement
      <3>2. CASE todo[p][n] = P!Delete(j, rows[j].id) /\ todo[p][n] = s
        <4>1. j = s.key /\ s.row.id = rows[j].id BY <3>2 DEF P!Delete, P!Statement
        <4>2. rows[j] # NoRow /\ j \in P!Keys BY <1>8 DEF Going, P!View, P!Keys, References
        <4>3. P!Exists(rows[j]) BY <1>3, <4>2, TargetType DEF PresetTypes
        <4> QED BY <1>8, <4>1, <4>3 DEF P!Committed
      <3> QED BY <2>1, <3>1, <3>2
    <2>3. PICK m \in DOMAIN t : t[m] = todo[p][n] BY <1>1, <1>2, <2>2, InTail
    <2> QED BY <2>1, <2>3
  <1>9. CASE P!Committed(s.key, s.row.id)
    <2>1. PICK k \in References :
             /\ k = s.key /\ k \in P!Keys /\ k \notin Presets
             /\ P!Others(p, k) = {} /\ written' = [written EXCEPT ![p][k] = NoRow]
      BY <1>5, <1>7, <1>9 DEF P!delete
    <2>2. NoRow # Same BY DEF PresetsGiven, PresetCells
    <2>3. written'[p][k] = NoRow /\ \A j \in P!Keys \ {k} : written'[p][j] = written[p][j]
      BY <1>3, <2>1 DEF PresetTypes
    <2>4. P!View(p, k)' = NoRow /\ \A j \in P!Keys \ {k} : P!View(p, j)' = P!View(p, j)
      BY <1>1, <2>1, <2>2, <2>3 DEF P!View
    <2>5. todo'[p] = t BY <1>1, <1>3 DEF P!Go, PresetTypes
    <2>6. Refers(p)'
      <3> SUFFICES ASSUME NEW j \in References, P!View(p, j)' # NoRow
                   PROVE  P!Exists(P!View(p, P!Target(j, P!View(p, j))))' \/ Going(p, j)'
        BY DEF Refers
      <3>1. j # k /\ j \in P!Keys BY <2>4 DEF P!Keys, References
      <3>2. P!View(p, j)' = P!View(p, j) /\ written'[p][j] = written[p][j] BY <2>3, <2>4, <3>1
      <3>3. P!Target(j, P!View(p, j)) \in Presets BY <1>3, <3>1, <3>2, ViewCell, TargetType
      <3>4. \A y \in Presets : P!View(p, y)' = P!View(p, y) BY <2>1, <2>4 DEF P!Keys
      <3>5. P!Exists(P!View(p, P!Target(j, P!View(p, j)))) \/ Going(p, j)
        BY <3>2 DEF PresetsInv, Refers
      <3>6. CASE P!Exists(P!View(p, P!Target(j, P!View(p, j)))) BY <3>2, <3>3, <3>4, <3>6
      <3>7. CASE Going(p, j)
        <4>1. \E n \in DOMAIN t :
                 t[n] \in {P!Cascade(P!Target(j, rows[j])), P!Delete(j, rows[j].id)}
          BY <1>8, <2>1, <3>1, <3>2, <3>7
        <4> HIDE DEF t
        <4> QED BY <1>1, <2>5, <3>2, <3>7, <4>1 DEF Going
      <3> QED BY <3>5, <3>6, <3>7
    <2> HIDE DEF s, t, S
    <2> QED BY <1>1, <1>4, <2>1, <2>6, Removes DEF t, S
  <1>10. CASE ~P!Committed(s.key, s.row.id)
    <2>1. UNCHANGED written BY <1>10 DEF P!delete
    <2>2. Keeps(p, t)
      <3> SUFFICES ASSUME NEW j \in References, P!View(p, j) # NoRow,
                          ~P!Exists(P!View(p, P!Target(j, P!View(p, j))))
                   PROVE  /\ written[p][j] = Same
                          /\ \E n \in DOMAIN t :
                                t[n] \in {P!Cascade(P!Target(j, rows[j])), P!Delete(j, rows[j].id)}
        BY DEF Keeps
      <3>1. Going(p, j) BY DEF PresetsInv, Refers
      <3>2. \E n \in DOMAIN t : t[n] \in {P!Cascade(P!Target(j, rows[j])), P!Delete(j, rows[j].id)}
        BY <1>8, <1>10, <3>1
      <3> QED BY <3>1, <3>2 DEF Going
    <2> QED BY <1>1, <1>4, <2>1, <2>2, PresetsGo
  <1> QED BY <1>9, <1>10

\* A deletion.
LEMMA PresetsDelete ==
    ASSUME PresetsGiven, PresetsInv, NEW p \in Requests, P!delete(p) PROVE PresetsInv'
  <1>1. pc[p] = "writing" BY DEF P!delete, P!At
  <1> QED BY <1>1, DeletesPreset, DeletesReference

\* An insertion.
LEMMA PresetsInsert ==
    ASSUME PresetsGiven, PresetsInv, NEW p \in Requests, P!insert(p) PROVE PresetsInv'
  <1> DEFINE s == Head(todo[p])
  <1>1. /\ pc[p] = "writing" /\ pc[p] # "idle" /\ todo[p] # <<>> /\ s.kind = "insert"
        /\ s.kind \notin {"delete", "cascade"}
        /\ UNCHANGED <<rows, request, started>>
        /\ P!Write(p, s.key, s.row) \/ (P!Go(p, "conflict", <<>>) /\ UNCHANGED written)
    BY DEF P!insert, P!At
  <1>2. s \in PresetStatements(request[p]) BY <1>1, PlannedAhead
  <1>3. \/ s.key \in Presets /\ s.row \in PresetRow /\ s.row.builtin \in {Null, s.row.name}
        \/ /\ s.key \in P!Rules /\ s.row \in RuleRow /\ s.row.id = request[p].id
        \/ /\ s.key \in P!Applications /\ s.row \in ApplicationRow /\ s.row.id = request[p].id
    BY <1>1, <1>2 DEF PresetStatements
  <1>4. PICK k, row : k = s.key /\ row = s.row OBVIOUS
  <1>5. CASE P!Write(p, k, row)
    <2>1. CASE k \in Presets /\ row \in PresetRow /\ row.builtin \in {Null, row.name}
      BY <1>1, <1>5, <2>1, WritesPreset
    <2>2. CASE /\ \/ k \in P!Rules /\ row \in RuleRow
                  \/ k \in P!Applications /\ row \in ApplicationRow
               /\ row.id = request[p].id
      <3>1. k \in References /\ row \in KeptAs(k) /\ row # NoRow
        BY <2>2 DEF References, KeptAs, PresetsGiven, PresetRecords
      <3> QED BY <1>1, <1>5, <2>2, <3>1, WritesReference
    <2> QED BY <1>3, <1>4, <2>1, <2>2
  <1>6. CASE P!Go(p, "conflict", <<>>) /\ UNCHANGED written BY <1>1, <1>6, PresetRefused
  <1> QED BY <1>1, <1>4, <1>5, <1>6

\* An update.
LEMMA PresetsUpdate ==
    ASSUME PresetsGiven, PresetsInv, NEW p \in Requests, P!update(p) PROVE PresetsInv'
  <1> DEFINE s == Head(todo[p])
  <1>1. /\ pc[p] = "writing" /\ pc[p] # "idle" /\ todo[p] # <<>> /\ s.kind = "update"
        /\ s.kind \notin {"delete", "cascade"}
        /\ UNCHANGED <<rows, request, started>>
        /\ \/ /\ P!Committed(s.key, s.row.id)
              /\ P!Write(p, s.key, P!Updated(rows[s.key], s.row.columns))
           \/ P!Go(p, "conflict", <<>>) /\ UNCHANGED written
    BY DEF P!update, P!At
  <1>2. s \in PresetStatements(request[p]) BY <1>1, PlannedAhead
  <1>3. \/ s.key \in Presets /\ s.row.columns \in [name : Labels]
        \/ s.key \in P!Rules /\ s.row.columns \in [factory : BOOLEAN]
    BY <1>1, <1>2 DEF PresetStatements
  <1>4. PICK k, row : k = s.key /\ row = P!Updated(rows[k], s.row.columns) OBVIOUS
  <1>5. CASE P!Committed(k, s.row.id) /\ P!Write(p, k, row)
    <2>1. CASE k \in Presets /\ s.row.columns \in [name : Labels]
      <3>1. P!Exists(rows[k]) /\ rows[k] \in PresetRow
        BY <1>5, <2>1, PresetCell DEF P!Committed, PresetsInv, PresetTypes
      <3>2. row \in PresetRow /\ row.builtin = rows[k].builtin
        <4> DEFINE columns == s.row.columns
        <4>1. row = [f \in {"id", "builtin", "name"} |->
                        IF f \in {"name"} THEN columns[f] ELSE rows[k][f]]
          BY <1>4, <2>1, <3>1 DEF P!Updated, PresetRow
        <4>2. columns["name"] \in Labels BY <2>1
        <4> HIDE DEF columns
        <4> QED BY <3>1, <4>1, <4>2 DEF PresetRow
      <3> QED BY <1>1, <1>5, <2>1, <3>1, <3>2, WritesPreset
    <2>2. CASE k \in P!Rules /\ s.row.columns \in [factory : BOOLEAN]
      <3>0. k \in References /\ k \in P!Keys BY <2>2 DEF References, P!Keys
      <3>1. rows[k] \in RuleRow /\ rows[k] # NoRow /\ KeptAs(k) = RuleRow \cup {NoRow}
        BY <1>5, <2>2, <3>0
           DEF P!Committed, P!Exists, PresetsInv, PresetTypes, KeptAs, PresetsGiven
      <3>2. row \in RuleRow /\ row.id = rows[k].id
        <4> DEFINE columns == s.row.columns
        <4>1. row = [f \in {"id", "factory"} |->
                        IF f \in {"factory"} THEN columns[f] ELSE rows[k][f]]
          BY <1>4, <2>2, <3>1 DEF P!Updated, RuleRow
        <4>2. columns["factory"] \in BOOLEAN BY <2>2
        <4> HIDE DEF columns
        <4> QED BY <3>1, <4>1, <4>2 DEF RuleRow
      <3>3. P!Target(k, rows[k]) = P!Target(k, row) BY <2>2 DEF P!Target
      <3>4. row \in KeptAs(k) /\ row # NoRow BY <3>1, <3>2 DEF PresetsGiven, PresetRecords
      <3> QED BY <1>1, <1>5, <3>0, <3>1, <3>2, <3>3, <3>4, WritesReference
    <2> QED BY <1>3, <1>4, <2>1, <2>2
  <1>6. CASE P!Go(p, "conflict", <<>>) /\ UNCHANGED written BY <1>1, <1>6, PresetRefused
  <1> QED BY <1>1, <1>4, <1>5, <1>6

-----------------------------------------------------------------------------
(* The beginning and the end of a request. *)

\* A request arrives with its plan.
LEMMA PresetsBegin ==
    ASSUME PresetsGiven, PresetsInv, NEW p \in Requests, NEW op \in PresetOps,
           NEW about \in Presets \cup {Null}, NEW ask \in Labels \cup P!Lists,
           NEW place \in {"naming", "writing"}, NEW plan, P!Begin(p, op, about, ask, place, plan),
           \/ \A r : r.id = started + 1 => plan \in Seq(PresetStatements(r))
           \/ /\ place = "writing"
              /\ \E x \in Presets, id \in Nat : plan = <<P!Delete(x, id), P!Cascade(x)>>
    PROVE  PresetsInv'
  <1> DEFINE r == [op |-> op, about |-> about, ask |-> ask, id |-> started + 1]
  <1>1. /\ pc[p] = "idle" /\ started' = started + 1 /\ started + 1 \in 0 .. MaxRequests
        /\ started \in Nat /\ UNCHANGED <<rows, written>>
        /\ request' = [request EXCEPT ![p] = r]
        /\ pc' = [pc EXCEPT ![p] = place] /\ todo' = [todo EXCEPT ![p] = plan]
    BY DEF P!Begin, P!Go, PresetsInv, PresetTypes, PresetsGiven
  <1>2. r \in PresetRequest /\ r # NoRequest
    BY <1>1 DEF PresetRequest, PresetsGiven
  <1>3. r.id = started + 1 OBVIOUS
  <1> HIDE DEF r
  <1>4. /\ request'[p] = r /\ pc'[p] = place /\ todo'[p] = plan
        /\ \A q \in Requests \ {p} :
              request'[q] = request[q] /\ pc'[q] = pc[q] /\ todo'[q] = todo[q]
    BY <1>1 DEF PresetsInv, PresetTypes
  <1>5. Untouched(p) BY <1>1 DEF PresetsInv, Plans
  <1>6. \A q \in Requests, k \in P!Keys : P!View(q, k)' = P!View(q, k) BY <1>1 DEF P!View
  <1>7. PresetTypes' BY <1>1, <1>2, <1>4 DEF PresetsInv, PresetTypes
  <1>8. PresetRowsAgree' BY <1>1 DEF PresetsInv, PresetRowsAgree
  <1>9. ASSUME NEW q \in Requests PROVE Distinct(q)' /\ Stems(q)'
    <2>1. Distinct(q)' BY <1>6, PresetCell DEF PresetsInv, Distinct
    <2>2. CASE q = p
      <3>1. \A k \in Presets \cup References : written'[p][k] = Same
        BY <1>1, <1>5 DEF Untouched, P!Keys, References
      <3>2. Same \notin PresetRow BY DEF PresetsGiven, PresetCells, PresetRecords
      <3>3. Stems(p)' BY <3>1, <3>2 DEF Stems
      <3> QED BY <2>1, <2>2, <3>3
    <2>3. CASE q # p
      <3>1. Stems(q)' BY <1>1, <1>4, <2>3 DEF PresetsInv, Stems, Inserted
      <3> QED BY <2>1, <3>1
    <2> QED BY <2>2, <2>3
  <1>10. ASSUME NEW q \in Requests PROVE Plans(q)'
    <2>1. CASE q = p
      <3>1. Untouched(p)' BY <1>1, <1>5 DEF Untouched
      <3>2. plan \in Seq(PresetStatements(r)) \/
               (/\ place = "writing"
                /\ \E x \in Presets, id \in Nat : plan = <<P!Delete(x, id), P!Cascade(x)>>)
        BY <1>3
      <3> QED BY <1>4, <2>1, <3>1, <3>2 DEF Plans, Drops
    <2>2. CASE q # p BY <1>1, <1>4, <2>2 DEF PresetsInv, Plans, Drops, Untouched
    <2> QED BY <2>1, <2>2
  <1>11. ASSUME NEW q \in Requests PROVE Refers(q)'
    <2>1. CASE q = p
      <3>1. \A k \in P!Keys : P!View(p, k)' = rows[k] BY <1>1, <1>5 DEF Untouched, P!View
      <3>2. ASSUME NEW k \in References, rows[k] # NoRow
            PROVE  /\ P!Target(k, rows[k]) \in P!Keys /\ P!Exists(rows[P!Target(k, rows[k])])
        BY <3>2, TargetType DEF PresetsInv, PresetTypes, PresetRowsAgree, P!Keys, References
      <3>3. \A k \in References : k \in P!Keys BY DEF P!Keys, References
      <3> QED BY <2>1, <3>1, <3>2, <3>3 DEF Refers
    <2>2. CASE q # p BY <1>1, <1>4, <2>2 DEF PresetsInv, Refers, Going, P!View
    <2> QED BY <2>1, <2>2
  <1>12. ASSUME NEW q \in Requests, NEW s \in Requests, q # s PROVE PresetsApart(q, s)'
    <2>1. \A k \in References : ~Inserted(p, k)' BY <1>1, <1>5
                                                    DEF Inserted, Untouched, P!Keys, References
    <2>2. \A k \in References : q # p => (Inserted(q, k)' <=> Inserted(q, k))
      BY <1>1, <1>4 DEF Inserted
    <2>3. PresetsApart(q, s) BY <1>12 DEF PresetsInv
    <2> QED BY <1>1, <2>1, <2>2, <2>3 DEF PresetsApart
  <1> QED BY <1>7, <1>8, <1>9, <1>10, <1>11, <1>12 DEF PresetsInv

\* A commit shows the rows of its transaction to all.
LEMMA CommitsPresets ==
    ASSUME PresetsGiven, PresetsInv, NEW p \in Requests, P!commit(p)
    PROVE  PresetsInv'
  <1>1. /\ request' = [request EXCEPT ![p] = NoRequest] /\ pc' = [pc EXCEPT ![p] = "idle"]
        /\ todo' = [todo EXCEPT ![p] = <<>>] /\ todo[p] = <<>> /\ pc[p] = "writing"
        /\ written' = [written EXCEPT ![p] = [k \in P!Keys |-> Same]]
        /\ rows' = [k \in P!Keys |-> P!View(p, k)] /\ UNCHANGED started
    BY DEF P!commit, P!Finish, P!Go
  <1>2. /\ request'[p] = NoRequest /\ pc'[p] = "idle" /\ todo'[p] = <<>>
        /\ \A k \in P!Keys : written'[p][k] = Same /\ rows'[k] = P!View(p, k)
        /\ \A q \in Requests \ {p} : /\ request'[q] = request[q] /\ pc'[q] = pc[q]
                                     /\ todo'[q] = todo[q] /\ written'[q] = written[q]
    BY <1>1 DEF PresetsInv, PresetTypes
  <1>3. PresetTypes BY DEF PresetsInv
  <1>4. \A k \in P!Keys : P!View(p, k) \in KeptAs(k) BY <1>3, ViewCell
  <1>5. \A k \in Presets \cup References : k \in P!Keys BY DEF P!Keys, References
  <1>6. \A k \in References : P!View(p, k) # NoRow =>
           P!Target(k, P!View(p, k)) \in Presets /\ P!Exists(P!View(p, P!Target(k, P!View(p, k))))
    <2>1. \A k \in References : ~Going(p, k) BY <1>1 DEF Going
    <2> QED BY <1>1, <1>4, <1>5, <2>1, TargetType DEF PresetsInv, Refers
  <1>7. /\ \A k \in P!Keys : P!View(p, k)' = P!View(p, k)
        /\ \A q \in Requests \ {p}, k \in P!Keys :
              P!View(q, k)' = IF written[q][k] = Same THEN P!View(p, k) ELSE written[q][k]
    BY <1>2 DEF P!View
  <1>8. PresetTypes'
    <2>1. rows' \in [P!Keys -> PresetCells] BY <1>1, <1>4, CellsAre
    <2>2. [k \in P!Keys |-> Same] \in [P!Keys -> PresetCells \cup {Same}] OBVIOUS
    <2>3. written' \in [Requests -> [P!Keys -> PresetCells \cup {Same}]]
      BY <1>1, <1>3, <2>2 DEF PresetTypes
    <2>4. \A q \in Requests, k \in P!Keys : written'[q][k] \in KeptAs(k) \cup {Same}
      BY <1>2, <1>3 DEF PresetTypes
    <2>5. \A k \in P!Keys : rows'[k] \in KeptAs(k) BY <1>2, <1>4
    <2> QED BY <1>1, <1>2, <1>3, <2>1, <2>3, <2>4, <2>5 DEF PresetTypes
  <1>9. PresetRowsAgree'
    BY <1>2, <1>5, <1>6 DEF PresetRowsAgree, PresetsInv, Distinct
  \* Another's rows beside those committed.
  <1>10. ASSUME NEW q \in Requests \ {p}
         PROVE  PresetsApart(p, q) /\ PresetsApart(q, p) /\ q # p
    BY <1>10 DEF PresetsInv
  <1>11. ASSUME NEW q \in Requests \ {p} PROVE Distinct(q)'
    <2> SUFFICES ASSUME NEW x \in Presets, NEW y \in Presets, x # y
                 PROVE  Differ(P!View(q, x)', P!View(q, y)')
      BY DEF Distinct, Differ, P!Exists
    <2>1. Differ(P!View(p, x), P!View(p, y)) /\ Differ(P!View(q, x), P!View(q, y))
      BY DEF PresetsInv, Distinct
    <2>2. ASSUME NEW a \in Presets, NEW b \in Presets, a # b,
                 written[q][a] # Same, written[p][b] # Same
          PROVE  Differ(written[q][a], written[p][b])
      <3>1. written[q][a] \in PresetRow \cup {NoRow, Unborn}
            /\ written[p][b] \in PresetRow \cup {NoRow, Unborn}
        BY <1>3, <1>5, <2>2, PresetCell DEF PresetTypes
      <3> QED BY <1>10, <2>2, <3>1, PresetCell DEF PresetsApart, Differ
    <2>3. CASE written[q][x] = Same /\ written[q][y] = Same
      BY <1>5, <1>7, <2>1, <2>3
    <2>4. CASE written[q][x] # Same /\ written[q][y] # Same
      BY <1>5, <1>7, <2>1, <2>4 DEF P!View
    <2>5. CASE written[q][x] # Same /\ written[q][y] = Same
      BY <1>5, <1>7, <2>1, <2>2, <2>5 DEF P!View
    <2>6. CASE written[q][x] = Same /\ written[q][y] # Same
      BY <1>5, <1>7, <2>1, <2>2, <2>6, DifferBoth DEF P!View
    <2> QED BY <2>3, <2>4, <2>5, <2>6
  <1>12. ASSUME NEW q \in Requests \ {p} PROVE Stems(q)'
    <2>1. \A k \in Presets \cup References : written[q][k] # Same => rows'[k] = rows[k]
      BY <1>2, <1>5, <1>10 DEF PresetsApart, P!View
    <2>2. Same \notin PresetRow BY DEF PresetsGiven, PresetCells, PresetRecords
    <2> QED BY <1>2, <2>1, <2>2 DEF PresetsInv, Stems, Inserted
  <1>13. ASSUME NEW q \in Requests \ {p} PROVE Refers(q)'
    <2> SUFFICES ASSUME pc[q] = "writing", NEW k \in References, P!View(q, k)' # NoRow
                 PROVE  P!Exists(P!View(q, P!Target(k, P!View(q, k))))' \/ Going(q, k)'
      BY <1>2 DEF Refers
    <2>0. k \in P!Keys BY <1>5
    <2>1. CASE written[q][k] # Same
      <3>1. P!View(q, k)' = written[q][k] /\ P!View(q, k) = written[q][k] /\ written[q][k] # NoRow
        BY <1>7, <2>0, <2>1 DEF P!View
      <3>2. PICK x \in Presets : x = P!Target(k, written[q][k])
        BY <1>3, <2>0, <2>1, <3>1, TargetType DEF PresetTypes
      <3>3. P!Exists(P!View(q, x)) BY <2>1, <3>1, <3>2 DEF PresetsInv, Refers, Going
      <3>4. P!Exists(P!View(q, x)')
        <4>1. CASE written[q][x] # Same \/ written[p][x] = Same
          BY <1>5, <1>7, <3>3, <4>1 DEF P!View
        <4>2. CASE written[q][x] = Same /\ written[p][x] # Same
          <5>1. ~Inserted(q, k) BY <1>10, <3>2, <4>2 DEF PresetsApart
          <5>2. rows[k] # NoRow /\ P!Target(k, rows[k]) = x
            BY <2>1, <3>1, <3>2, <5>1 DEF PresetsInv, Stems
          <5>3. P!View(p, k) = rows[k] BY <1>10, <2>0, <2>1 DEF PresetsApart, P!View
          <5> QED BY <1>5, <1>6, <1>7, <4>2, <5>2, <5>3
        <4> QED BY <4>1, <4>2
      <3> QED BY <3>1, <3>2, <3>4
    <2>2. CASE written[q][k] = Same
      <3>1. P!View(q, k)' = P!View(p, k) /\ P!View(p, k) # NoRow BY <1>7, <2>0, <2>2
      <3>2. PICK x \in Presets : x = P!Target(k, P!View(p, k)) /\ P!Exists(P!View(p, x))
        BY <1>6, <3>1
      <3>3. CASE written[q][x] = Same BY <1>5, <1>7, <3>1, <3>2, <3>3
      <3>4. CASE written[q][x] # Same
        <4>1. ~Inserted(p, k) BY <1>10, <2>0, <3>2, <3>4 DEF PresetsApart, P!View, Inserted
        <4>2. rows[k] # NoRow /\ rows[k].id = P!View(p, k).id /\ P!Target(k, rows[k]) = x
          BY <3>1, <3>2, <4>1 DEF PresetsInv, Stems, P!View
        <4>3. P!View(q, k) = rows[k] BY <2>2 DEF P!View
        <4>4. P!Exists(P!View(q, x)) \/ Going(q, k) BY <4>2, <4>3 DEF PresetsInv, Refers
        <4>5. CASE P!Exists(P!View(q, x))
          BY <1>5, <1>7, <3>1, <3>2, <3>4, <4>5 DEF P!View
        <4>6. CASE Going(q, k)
          <5>1. rows'[k] = P!View(p, k) /\ written'[q] = written[q] /\ todo'[q] = todo[q]
            BY <1>2, <2>0
          <5> QED BY <2>2, <3>2, <4>2, <4>6, <5>1 DEF Going
        <4> QED BY <4>4, <4>5, <4>6
      <3> QED BY <3>3, <3>4
    <2> QED BY <2>1, <2>2
  <1>14. ASSUME NEW q \in Requests PROVE Distinct(q)' /\ Refers(q)' /\ Plans(q)' /\ Stems(q)'
    <2>1. CASE q = p
      <3>1. Distinct(p)' BY <1>5, <1>7 DEF Distinct, PresetsInv
      <3>2. Refers(p)' BY <1>2 DEF Refers
      <3>3. \A S : <<>> \in Seq(S) OBVIOUS
      <3>4. Plans(p)' BY <1>2, <3>3 DEF Plans, Untouched
      <3>5. Same \notin PresetRow BY DEF PresetsGiven, PresetCells, PresetRecords
      <3>6. Stems(p)' BY <1>2, <1>5, <3>5 DEF Stems
      <3> QED BY <2>1, <3>1, <3>2, <3>4, <3>6
    <2>2. CASE q # p
      <3>1. Plans(q)' BY <1>2, <2>2 DEF PresetsInv, Plans, Drops, Untouched
      <3> QED BY <1>11, <1>12, <1>13, <2>2, <3>1
    <2> QED BY <2>1, <2>2
  <1>15. ASSUME NEW q \in Requests, NEW r \in Requests, q # r PROVE PresetsApart(q, r)'
    <2>1. \A k \in References : ~Inserted(p, k)' BY <1>2, <1>5 DEF Inserted
    <2>2. \A x \in Presets : written'[p][x] \notin PresetRow /\ written'[p][x] = Same
      BY <1>2, <1>5 DEF PresetsGiven, PresetCells, PresetRecords
    <2>3. CASE q = p BY <1>2, <2>1, <2>2, <2>3 DEF PresetsApart
    <2>4. CASE r = p BY <1>2, <2>2, <2>4 DEF PresetsApart
    <2>5. CASE q # p /\ r # p BY <1>2, <1>15, <2>5 DEF PresetsInv, PresetsApart, Inserted
    <2> QED BY <2>3, <2>4, <2>5
  <1> QED BY <1>8, <1>9, <1>14, <1>15 DEF PresetsInv

\* A plan of one statement.
LEMMA OneStatement ==
    ASSUME NEW S, NEW a \in S PROVE <<a>> \in Seq(S)
  OBVIOUS

\* Requests on one preset: create, rename, delete.
LEMMA PresetArrives ==
    ASSUME PresetsGiven, PresetsInv, NEW p \in Requests, NEW x \in Presets,
           \/ \E name \in PresetNames : P!create_preset(p, x, name) \/ P!update_preset(p, x, name)
           \/ P!delete_preset(p, x)
    PROVE  PresetsInv'
  <1>0. /\ started + 1 \in Nat /\ Null \in Labels /\ PresetNames \subseteq Labels
        /\ P!Exists(rows[x]) => rows[x] \in PresetRow
    <2>1. started + 1 \in Nat BY DEF PresetsInv, PresetTypes, PresetsGiven
    <2>2. Null \in Labels /\ PresetNames \subseteq Labels BY DEF Labels
    <2>3. P!Exists(rows[x]) => rows[x] \in PresetRow BY PresetCell DEF PresetsInv, PresetTypes
    <2> QED BY <2>1, <2>2, <2>3
  <1>1. ASSUME NEW name \in PresetNames, P!create_preset(p, x, name) PROVE PresetsInv'
    <2> DEFINE row == [id |-> started + 1, builtin |-> Null, name |-> name]
    <2>1. P!Begin(p, "create_preset", x, name, "naming", <<P!Insert(x, row)>>)
      BY <1>1 DEF P!create_preset
    <2>2. ASSUME NEW r, r.id = started + 1
          PROVE  <<P!Insert(x, row)>> \in Seq(PresetStatements(r))
      <3>1. row \in PresetRow /\ row.id = r.id /\ row.builtin = Null
        BY <1>0, <2>2 DEF PresetRow
      <3> HIDE DEF row
      <3>2. P!Insert(x, row) \in PresetStatements(r)
        BY <3>1 DEF P!Insert, P!Statement, PresetStatements
      <3> QED BY <3>2, OneStatement
    <2>3. "create_preset" \in PresetOps BY DEF PresetOps
    <2> HIDE DEF row
    <2> QED BY <1>0, <2>1, <2>2, <2>3, PresetsBegin
  <1>2. ASSUME NEW name \in PresetNames, P!update_preset(p, x, name) PROVE PresetsInv'
    <2> DEFINE plan == <<P!Update(x, rows[x].id, [name |-> name])>>
    <2>1. P!Begin(p, "update_preset", x, name, "naming", plan) /\ rows[x] \in PresetRow
      BY <1>0, <1>2 DEF P!update_preset
    <2>2. ASSUME NEW r, r.id = started + 1 PROVE plan \in Seq(PresetStatements(r))
      <3>1. P!Update(x, rows[x].id, [name |-> name]) \in PresetStatements(r)
        BY <1>0, <2>1 DEF P!Update, P!Statement, PresetStatements, PresetRow
      <3> QED BY <3>1, OneStatement
    <2>3. "update_preset" \in PresetOps BY DEF PresetOps
    <2> HIDE DEF plan
    <2> QED BY <1>0, <2>1, <2>2, <2>3, PresetsBegin
  <1>3. ASSUME P!delete_preset(p, x) PROVE PresetsInv'
    <2>1. P!Begin(p, "delete_preset", x, Null, "writing", <<P!Delete(x, rows[x].id), P!Cascade(x)>>)
          /\ rows[x].id \in Nat
      BY <1>0, <1>3 DEF P!delete_preset, PresetRow
    <2>2. "delete_preset" \in PresetOps BY DEF PresetOps
    <2>3. PICK plan : plan = <<P!Delete(x, rows[x].id), P!Cascade(x)>> OBVIOUS
    <2> QED BY <1>0, <2>1, <2>2, <2>3, PresetsBegin
  <1> QED BY <1>1, <1>2, <1>3

\* A request to reset a preset.
LEMMA PresetResets ==
    ASSUME PresetsGiven, PresetsInv, NEW p \in Requests, NEW x \in Presets,
           P!reset_preset_to_builtin(p, x)
    PROVE  PresetsInv'
  <1> DEFINE row == rows[x]
             rename == IF row.name = row.builtin THEN <<>>
                       ELSE <<P!Update(x, row.id, [name |-> row.builtin])>>
             rest == P!_add_rules(x, started + 1)
             plan == <<P!Purge(x)>> \o rename \o rest
  <1>1. P!Exists(row) /\ P!Begin(p, "reset_preset", x, row.builtin, "naming", plan)
    BY DEF P!reset_preset_to_builtin
  <1>2. row \in PresetRow /\ row.builtin \in Labels /\ started + 1 \in Nat
    <2>1. started + 1 \in Nat BY DEF PresetsInv, PresetTypes, PresetsGiven
    <2>2. row \in PresetRow BY <1>1, PresetCell DEF PresetsInv, PresetTypes
    <2> QED BY <2>1, <2>2 DEF PresetRow
  <1>3. ASSUME NEW r, r.id = started + 1 PROVE plan \in Seq(PresetStatements(r))
    <2> DEFINE S == PresetStatements(r)
    <2>1. P!Purge(x) \in S BY DEF P!Purge, P!Statement, PresetStatements
    <2>2. P!Update(x, row.id, [name |-> row.builtin]) \in S
      BY <1>2 DEF P!Update, P!Statement, PresetStatements, PresetRow
    <2>3. rest \in Seq(S) BY <1>2, <1>3, FactoryRules
    <2>4. <<P!Purge(x)>> \in Seq(S) /\ rename \in Seq(S)
      <3> HIDE DEF S
      <3> QED BY <2>1, <2>2
    <2> HIDE DEF S, rename, rest
    <2>5. <<P!Purge(x)>> \o rename \o rest \in Seq(S) BY <2>3, <2>4
    <2> QED BY <2>5 DEF S
  <1>4. "reset_preset" \in PresetOps BY DEF PresetOps
  <1> HIDE DEF plan, row
  <1> QED BY <1>1, <1>2, <1>3, <1>4, PresetsBegin

\* The command that synchronizes the catalogue.
LEMMA CatalogueArrives ==
    ASSUME PresetsGiven, PresetsInv, NEW p \in Requests, P!sync_builtin_presets(p)
    PROVE  PresetsInv'
  <1>1. P!Begin(p, "sync_builtin", Null, Null, "writing", P!sync_statements)
    BY DEF P!sync_builtin_presets
  <1>2. \A r : P!sync_statements \in Seq(PresetStatements(r))
    <2> SUFFICES ASSUME NEW r PROVE P!sync_statements \in Seq(PresetStatements(r)) OBVIOUS
    <2>1. P!Statement("lock", TenantRow, Null) \in PresetStatements(r)
          /\ P!Statement("read", Null, Null) \in PresetStatements(r)
      BY DEF P!Statement, PresetStatements
    <2>2. ASSUME NEW S, NEW a \in S, NEW b \in S PROVE <<a, b>> \in Seq(S) OBVIOUS
    <2> QED BY <2>1, <2>2 DEF P!sync_statements
  <1>3. "sync_builtin" \in PresetOps /\ Null \in Labels BY DEF PresetOps, Labels
  <1> QED BY <1>1, <1>2, <1>3, PresetsBegin

\* A request on one rule.
LEMMA RuleArrives ==
    ASSUME PresetsGiven, PresetsInv, NEW p \in Requests, NEW x \in Presets, NEW n \in Priorities,
           P!create_preset_rule(p, x, n) \/ P!update_preset_rule(p, x, n)
    PROVE  PresetsInv'
  <1>0. Null \in Labels /\ started + 1 \in Nat /\ <<x, n>> \in P!Rules /\ <<x, n>> \in P!Keys
    BY DEF Labels, PresetsInv, PresetTypes, PresetsGiven, P!Rules, P!Keys
  <1>1. ASSUME P!create_preset_rule(p, x, n) PROVE PresetsInv'
    <2> DEFINE s == P!Insert(<<x, n>>, [id |-> started + 1, factory |-> FALSE])
    <2>1. P!Begin(p, "create_preset_rule", x, Null, "writing", <<s>>)
      BY <1>1 DEF P!create_preset_rule
    <2>2. \A r : r.id = started + 1 => s \in PresetStatements(r)
      BY <1>0 DEF P!Insert, P!Statement, PresetStatements, RuleRow
    <2> HIDE DEF s
    <2>3. \A r : r.id = started + 1 => <<s>> \in Seq(PresetStatements(r)) BY <2>2, OneStatement
    <2>4. "create_preset_rule" \in PresetOps BY DEF PresetOps
    <2> QED BY <1>0, <2>1, <2>3, <2>4, PresetsBegin
  <1>2. ASSUME P!update_preset_rule(p, x, n) PROVE PresetsInv'
    <2> DEFINE k == <<x, n>>
               s == P!Update(k, rows[k].id, [factory |-> FALSE])
    <2>1. P!Begin(p, "update_preset_rule", x, Null, "writing", <<s>>) /\ rows[k] # NoRow
      BY <1>2 DEF P!update_preset_rule
    <2>2. rows[k].id \in Nat
      BY <1>0, <2>1, TargetType DEF References, PresetsInv, PresetTypes
    <2>3. \A r : s \in PresetStatements(r)
      BY <1>0, <2>2 DEF P!Update, P!Statement, PresetStatements
    <2> HIDE DEF s
    <2>4. \A r : <<s>> \in Seq(PresetStatements(r)) BY <2>3, OneStatement
    <2>5. "update_preset_rule" \in PresetOps BY DEF PresetOps
    <2> QED BY <1>0, <2>1, <2>4, <2>5, PresetsBegin
  <1> QED BY <1>1, <1>2

\* A request for the presets of a receiver.
LEMMA ListArrives ==
    ASSUME PresetsGiven, PresetsInv, NEW p \in Requests, NEW list \in P!Lists,
           P!set_receiver_presets(p, list)
    PROVE  PresetsInv'
  <1> DEFINE row(n) == [id |-> started + 1, preset |-> list[n]]
             new == [n \in DOMAIN list |-> P!Insert(<<Receiver, n - 1>>, row(n))]
  <1>1. P!Begin(p, "set_receiver_presets", Null, list, "writing", <<P!Purge(Null)>> \o new)
    BY DEF P!set_receiver_presets
  <1>2. started + 1 \in Nat BY DEF PresetsInv, PresetTypes, PresetsGiven
  <1>3. PICK m \in 0 .. P!Cardinality(Positions) : list \in [1 .. m -> Presets] BY DEF P!Lists
  <1>4. m \in Nat /\ \A n \in 1 .. m : n - 1 \in Positions
    <2>1. PICK c \in Nat : Positions = 0 .. c - 1 BY DEF PresetsGiven
    <2>2. P!Cardinality(Positions) = c
      <3>1. c = 0 \/ (c - 1 \in Int /\ 0 <= c - 1) BY <2>1
      <3>2. Cardinality(0 .. c - 1) = IF 0 > c - 1 THEN 0 ELSE (c - 1) - 0 + 1
        BY <2>1, FS_Interval
      <3> QED BY <2>1, <3>2, SameCardinality
    <2> QED BY <1>3, <2>1, <2>2
  <1>5. ASSUME NEW r, r.id = started + 1 PROVE <<P!Purge(Null)>> \o new \in Seq(PresetStatements(r))
    <2> DEFINE S == PresetStatements(r)
    <2>1. P!Purge(Null) \in S BY DEF P!Purge, P!Statement, PresetStatements
    <2>2. ASSUME NEW n \in 1 .. m PROVE P!Insert(<<Receiver, n - 1>>, row(n)) \in S
      <3>1. row(n) \in ApplicationRow /\ row(n).id = r.id
        BY <1>2, <1>3, <1>5 DEF ApplicationRow
      <3>2. <<Receiver, n - 1>> \in P!Applications BY <1>4 DEF P!Applications
      <3> HIDE DEF row
      <3> QED BY <3>1, <3>2 DEF P!Insert, P!Statement, PresetStatements
    <2> HIDE DEF row
    <2>3. new \in [1 .. m -> S] BY <1>3, <2>2
    <2> HIDE DEF S, new
    <2>4. new \in Seq(S) BY <1>4, <2>3
    <2>5. <<P!Purge(Null)>> \in Seq(S) BY <2>1
    <2>6. <<P!Purge(Null)>> \o new \in Seq(S) BY <2>4, <2>5
    <2> QED BY <2>6 DEF S
  <1>6. "set_receiver_presets" \in PresetOps BY DEF PresetOps
  <1> DEFINE plan == <<P!Purge(Null)>> \o new
  <1>7. \A r : r.id = started + 1 => plan \in Seq(PresetStatements(r)) BY <1>5
  <1>8. P!Begin(p, "set_receiver_presets", Null, list, "writing", plan) BY <1>1
  <1> HIDE DEF plan
  <1> QED BY <1>6, <1>7, <1>8, PresetsBegin

-----------------------------------------------------------------------------
\* The invariant at the start.
LEMMA PresetsStart == ASSUME PresetsGiven, P!Init PROVE PresetsInv
  <1>1. rows = InitialPresets /\ started = 0 /\ \A p \in Requests :
           /\ pc[p] = "idle" /\ todo[p] = <<>> /\ request[p] = NoRequest
           /\ \A k \in P!Keys : written[p][k] = Same
    BY DEF P!Init
  <1>2. \A p \in Requests, k \in P!Keys : P!View(p, k) = InitialPresets[k] BY <1>1 DEF P!View
  <1>3. \A k \in Presets \cup References : k \in P!Keys BY DEF P!Keys, References
  <1>4. PresetTypes
    <2>1. [k \in P!Keys |-> Same] \in [P!Keys -> PresetCells \cup {Same}] OBVIOUS
    <2>2. written \in [Requests -> [P!Keys -> PresetCells \cup {Same}]] BY <2>1 DEF P!Init
    <2> QED BY <1>1, <2>2 DEF PresetTypes, P!Init, PresetsGiven
  <1>5. PresetRowsAgree BY <1>1 DEF PresetRowsAgree, PresetsGiven
  <1>6. ASSUME NEW p \in Requests PROVE Distinct(p) /\ Refers(p) /\ Plans(p) /\ Stems(p)
    <2>1. Distinct(p) BY <1>2, <1>3 DEF Distinct, PresetsGiven
    <2>2. Refers(p) BY <1>1 DEF Refers
    <2>3. \A S : <<>> \in Seq(S) OBVIOUS
    <2>4. Plans(p) BY <1>1, <2>3 DEF Plans, Untouched
    <2>5. Same \notin PresetRow BY DEF PresetsGiven, PresetCells, PresetRecords
    <2>6. Stems(p) BY <1>1, <1>3, <2>5 DEF Stems
    <2> QED BY <2>1, <2>2, <2>4, <2>6
  <1>7. ASSUME NEW p \in Requests, NEW q \in Requests PROVE PresetsApart(p, q)
    <2>1. Same \notin PresetRow BY DEF PresetsGiven, PresetCells, PresetRecords
    <2> QED BY <1>1, <1>3, <2>1 DEF PresetsApart, Inserted
  <1> QED BY <1>4, <1>5, <1>6, <1>7 DEF PresetsInv

\* Every step keeps the invariant.
LEMMA PresetsStay == ASSUME PresetsGiven, PresetsInv, [P!Next]_P!vars PROVE PresetsInv'
  <1>1. ASSUME NEW p \in Requests, P!Arrival(p) PROVE PresetsInv'
    BY <1>1, PresetArrives, PresetResets, CatalogueArrives, RuleArrives, ListArrives
       DEF P!Arrival
  <1>2. ASSUME NEW p \in Requests, P!Step(p) PROVE PresetsInv'
    <2>1. CASE P!_assert_name_free(p)
      <3>1. P!Finish(p) \/ P!Go(p, "writing", todo[p]) BY <2>1 DEF P!_assert_name_free
      <3> QED BY <2>1, <3>1, PresetsRead
    <2>2. CASE P!rollback(p) BY <2>2, PresetsFinish DEF P!rollback
    <2> QED BY <1>2, <2>1, <2>2, PresetsLock, PresetsReadCatalogue, PresetsInstall,
               PresetsSkip, PresetsInsert, PresetsUpdate,
               PresetsDelete, PresetsPurge, CommitsPresets DEF P!Step
  <1>3. CASE UNCHANGED P!vars
    <2>1. UNCHANGED <<rows, written, request, pc, todo, started>> BY <1>3 DEF P!vars, P!txVars
    <2>2. \A p \in Requests, k \in P!Keys : P!View(p, k)' = P!View(p, k) BY <2>1 DEF P!View
    <2>3. PresetTypes' /\ PresetRowsAgree'
      BY <2>1 DEF PresetsInv, PresetTypes, PresetRowsAgree
    <2>4. \A p \in Requests : Distinct(p)' /\ Refers(p)' /\ Plans(p)' /\ Stems(p)'
      BY <2>1
         DEF PresetsInv, Distinct, Refers, Going, Plans, Drops, Untouched, Stems, Inserted, P!View
    <2>5. \A p, q \in Requests : p # q => PresetsApart(p, q)'
      BY <2>1 DEF PresetsInv, PresetsApart, Inserted
    <2> QED BY <2>3, <2>4, <2>5 DEF PresetsInv
  <1> QED BY <1>1, <1>2, <1>3 DEF P!Next

\* The invariant is stronger than the types.
LEMMA PresetsMean == ASSUME PresetsGiven, PresetsInv PROVE P!TypeOK
  BY DEF PresetsInv, PresetTypes, PresetRowsAgree, Differ, References, P!TypeOK

\* A behaviour of the presets keeps the invariant.
LEMMA PresetsInvariant ==
    ASSUME PresetsGiven PROVE Spec => [](scope = "presets" => PresetsInv)
  <1>1. ASSUME Init PROVE scope = "presets" => PresetsInv
    BY <1>1, PresetsStart DEF Init
  <1>2. ASSUME scope = "presets" => PresetsInv, [Next]_vars
        PROVE  (scope = "presets" => PresetsInv)'
    <2>1. scope' = scope BY <1>2 DEF Next, vars
    <2>2. scope = "presets" => [P!Next]_P!vars
      BY <1>2 DEF Next, vars, ofDirectory, P!vars, P!txVars
    <2> QED BY <1>2, <2>1, <2>2, PresetsStay
  <1> QED BY <1>1, <1>2, PTL DEF Spec

\* The variables have their types, and the committed rows keep the unique keys of the
\* presets and the foreign keys of their rules and applications.
THEOREM PresetsTyped ==
    ASSUME PresetsGiven PROVE Spec => [](scope = "presets" => P!TypeOK)
  <1>1. (scope = "presets" => PresetsInv) => (scope = "presets" => P!TypeOK) BY PresetsMean
  <1> QED BY <1>1, PresetsInvariant, PTL
================================================================================
