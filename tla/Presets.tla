------------------------------ MODULE Presets -------------------------------
(***************************************************************************)
(* The severity presets of a tenant: copies of a catalogue or presets of   *)
(* its own, the rules of each, and the list of those one receiver applies. *)
(* A handler replaces many rows at once, by a DELETE of those it finds and *)
(* insertions, while others do the same: what keeps the rows of two        *)
(* requests apart are the unique keys and, for the catalogue, the lock on  *)
(* the tenant.                                                             *)
(*                                                                         *)
(* A row is reached by a key: a preset by itself, a rule by its preset and *)
(* its priority, an application by its position.  Its id is the number of  *)
(* the request that inserted it.  How rules are numbered is in Rules.      *)
(***************************************************************************)
EXTENDS Naturals, Sequences, FiniteSets, Functions

CONSTANTS
    Presets,            \* identities of presets, those to be created included
    BUILTIN_PRESETS,    \* the names of the catalogue, which are also its keys here
    Names,              \* names a client may ask for
    Priorities,         \* priorities of rules
    Factory,            \* rules of a preset of the catalogue, at the priorities from 1
    Positions,          \* positions in the list of the receiver, from 0
    Receiver, TenantRow,
    InitialRows,        \* the rows at the start
    Requests,           \* requests in flight
    MaxRequests,        \* requests that ever arrive
    Unborn,             \* a preset yet to be created
    NoRow, NoRequest, Same, Null

Rules == Presets \X Priorities
Applications == {Receiver} \X Positions
Keys == {TenantRow} \cup Presets \cup Rules \cup Applications

VARIABLES
    rows,           \* the committed rows
    written,        \* what each transaction has written and not committed
    request,        \* the request each transaction serves
    pc,             \* where it stands
    todo,           \* the statements it has yet to execute
    contested,      \* the commits of others that concern what the request is about
    started         \* requests that have arrived

txVars == <<written, request, pc, todo>>
vars == <<rows, txVars, contested, started>>

Exists(row) == row \notin {NoRow, Unborn}

\* A row as transaction p sees it.
View(p, k) == IF written[p][k] = Same THEN rows[k] ELSE written[p][k]

Go(p, place, statements) ==
    /\ pc' = [pc EXCEPT ![p] = place]
    /\ todo' = [todo EXCEPT ![p] = statements]

Finish(p) ==
    /\ written' = [written EXCEPT ![p] = [k \in Keys |-> Same]]
    /\ request' = [request EXCEPT ![p] = NoRequest]
    /\ Go(p, "idle", <<>>)

\* about is a preset; ask, a name or a list of presets.
Begin(p, op, about, ask, place, statements) ==
    /\ pc[p] = "idle" /\ started < MaxRequests
    /\ started' = started + 1
    /\ request' = [request EXCEPT ![p] = [op |-> op, about |-> about, ask |-> ask,
                                          id |-> started + 1]]
    /\ contested' = [contested EXCEPT ![p] = {}]
    /\ Go(p, place, statements)
    /\ UNCHANGED <<rows, written>>

Statement(kind, k, row) == [kind |-> kind, key |-> k, row |-> row]
Insert(k, row) == Statement("insert", k, row)
Update(k, id, columns) == Statement("update", k, [id |-> id, columns |-> columns])
Delete(k, id) == Statement("delete", k, [id |-> id])
\* A DELETE of the rules of a preset, or of all applications, that the statement finds.
Purge(k) == Statement("purge", k, Null)
\* The foreign keys ON DELETE CASCADE.
Cascade(k) == Statement("cascade", k, Null)

-----------------------------------------------------------------------------
(* The requests.  Each begins by reading without a lock. *)

Free(x) ==
    /\ rows[x] = Unborn
    /\ \A q \in Requests : request[q] # NoRequest =>
          /\ request[q].about # x /\ written[q][x] = Same
          /\ \A n \in DOMAIN todo[q] : todo[q][n].key # x

create_preset(p, x, name) ==
    /\ Free(x)
    /\ Begin(p, "create_preset", x, name, "naming",
             <<Insert(x, [id |-> started + 1, builtin |-> Null, name |-> name])>>)

update_preset(p, x, name) ==
    /\ Exists(rows[x]) /\ rows[x].name # name
    /\ Begin(p, "update_preset", x, name, "naming", <<Update(x, rows[x].id, [name |-> name])>>)

\* A name another preset has refuses the request before it writes.
_assert_name_free(p) ==
    /\ pc[p] = "naming"
    /\ IF \E y \in Presets \ {request[p].about} : Exists(rows[y]) /\ rows[y].name = request[p].ask
       THEN Finish(p)
       ELSE Go(p, "writing", todo[p]) /\ UNCHANGED <<written, request>>
    /\ UNCHANGED <<rows, contested, started>>

delete_preset(p, x) ==
    /\ Exists(rows[x])
    /\ Begin(p, "delete_preset", x, Null, "writing", <<Delete(x, rows[x].id), Cascade(x)>>)

_add_rules(x, id) == [n \in 1 .. Factory |-> Insert(<<x, n>>, [id |-> id, factory |-> TRUE])]

\* The name is the factory's again, if it is not as it has been read; the old rules go
\* before the new ones come.
reset_preset_to_builtin(p, x) ==
    LET row == rows[x]
        rename == IF row.name = row.builtin THEN <<>>
                  ELSE <<Update(x, row.id, [name |-> row.builtin])>>
    IN  /\ Exists(row) /\ row.builtin # Null
        /\ Begin(p, "reset_preset", x, row.builtin, "naming",
                 <<Purge(x)>> \o rename \o _add_rules(x, started + 1))

\* Mistake: the presets are looked for without the lock.
sync_statements_unlocked == <<Statement("read", Null, Null)>>

sync_statements == <<Statement("lock", TenantRow, Null), Statement("read", Null, Null)>>

sync_builtin_presets(p) == Begin(p, "sync_builtin", Null, Null, "writing", sync_statements)

create_preset_rule(p, x, n) ==
    /\ Exists(rows[x]) /\ rows[<<x, n>>] = NoRow
    /\ Begin(p, "create_preset_rule", x, Null, "writing",
             <<Insert(<<x, n>>, [id |-> started + 1, factory |-> FALSE])>>)

update_preset_rule(p, x, n) ==
    /\ rows[<<x, n>>] # NoRow /\ rows[<<x, n>>].factory
    /\ Begin(p, "update_preset_rule", x, Null, "writing",
             <<Update(<<x, n>>, rows[<<x, n>>].id, [factory |-> FALSE])>>)

\* The list is complete and in order; the old one goes before the new one comes.
set_receiver_presets(p, list) ==
    /\ \A n \in DOMAIN list : Exists(rows[list[n]])
    /\ Begin(p, "set_receiver_presets", Null, list, "writing",
             <<Purge(Null)>> \o
             [n \in DOMAIN list |-> Insert(<<Receiver, n - 1>>, [id |-> started + 1, preset |-> list[n]])])

-----------------------------------------------------------------------------
(* The statements.  One that must wait for another transaction is not enabled. *)

Others(p, k) == {q \in Requests \ {p} : written[q][k] # Same}

\* The preset a row refers to.
Target(k, row) == IF k \in Rules THEN k[1] ELSE row.preset

\* Others that have inserted what refers to the preset: they hold a key share lock on it.
Referring(p, x) ==
    {q \in Requests \ {p} : \E k \in Rules \cup Applications :
        /\ written[q][k] \notin {Same, NoRow} /\ written[q][k].id = request[q].id
        /\ Target(k, written[q][k]) = x}

\* Others that write, or have written, a row with the same value in a unique column.
Sharing(p, keys, field, value) ==
    {q \in Requests \ {p} : \E k \in keys :
        /\ written[q][k] # Same
        /\ \E row \in {rows[k], written[q][k]} : Exists(row) /\ row[field] = value}

\* Whom the writing of a row must wait for.
Awaited(p, k, row) ==
    Others(p, k) \cup
    (IF k \in Presets THEN Sharing(p, Presets, "name", row.name) \cup Referring(p, k) ELSE {}) \cup
    (IF k \in Applications THEN Sharing(p, Applications, "preset", row.preset) ELSE {}) \cup
    (IF k \in Rules \cup Applications /\ row.id = request[p].id /\ Exists(rows[Target(k, row)])
     THEN Others(p, Target(k, row)) ELSE {})

\* Whether the unique and foreign keys refuse the row.
Violates(p, k, row) ==
    \/ k \in Presets /\ \E y \in Presets \ {k} :
          LET other == View(p, y)
          IN  Exists(other) /\ \/ other.name = row.name
                               \/ row.builtin # Null /\ other.builtin = row.builtin
    \/ k \in Rules \cup Applications /\ ~Exists(View(p, Target(k, row)))
    \/ k \in Applications /\ \E n \in Applications \ {k} :
          View(p, n) # NoRow /\ View(p, n).preset = row.preset

At(p, kind) == pc[p] = "writing" /\ todo[p] # <<>> /\ Head(todo[p]).kind = kind

\* The row as it will be; a violation refuses the request.
Write(p, k, row) ==
    /\ Awaited(p, k, row) = {}
    /\ IF Violates(p, k, row) THEN Go(p, "conflict", <<>>) /\ UNCHANGED written
       ELSE /\ written' = [written EXCEPT ![p][k] = row]
            /\ Go(p, "writing", Tail(todo[p]))

insert(p) ==
    LET s == Head(todo[p])
    IN  /\ At(p, "insert")
        /\ IF Others(p, s.key) = {} /\ Exists(View(p, s.key))
           THEN Go(p, "conflict", <<>>) /\ UNCHANGED written
           ELSE Write(p, s.key, s.row)
        /\ UNCHANGED <<rows, request, contested, started>>

Committed(k, id) == Exists(rows[k]) /\ rows[k].id = id

\* The row with some of its columns set.
Updated(row, columns) ==
    [f \in DOMAIN row |-> IF f \in DOMAIN columns THEN columns[f] ELSE row[f]]

\* An update of a row that is gone fails.
update(p) ==
    LET s == Head(todo[p])
    IN  /\ At(p, "update")
        /\ IF Committed(s.key, s.row.id) THEN Write(p, s.key, Updated(rows[s.key], s.row.columns))
           ELSE Go(p, "conflict", <<>>) /\ UNCHANGED written
        /\ UNCHANGED <<rows, request, contested, started>>

\* A deletion of a row that is gone does nothing.
delete(p) ==
    LET s == Head(todo[p])
    IN  /\ At(p, "delete")
        /\ IF Committed(s.key, s.row.id)
           THEN /\ Others(p, s.key) = {}
                /\ s.key \in Presets => Referring(p, s.key) = {}
                /\ written' = [written EXCEPT ![p][s.key] = NoRow]
           ELSE UNCHANGED written
        /\ Go(p, "writing", Tail(todo[p]))
        /\ UNCHANGED <<rows, request, contested, started>>

\* What a statement that deletes many rows finds when it starts.
Found(s) ==
    {k \in Rules \cup Applications : rows[k] # NoRow /\
        CASE s.kind = "cascade" -> Target(k, rows[k]) = s.key
          [] s.kind = "purge" /\ s.key = Null -> k \in Applications
          [] OTHER -> k \in Rules /\ k[1] = s.key}

purge(p) ==
    LET s == Head(todo[p])
    IN  /\ At(p, "purge") \/ At(p, "cascade")
        /\ \E order \in Bijection(1 .. Cardinality(Found(s)), Found(s)) :
               Go(p, "writing", [n \in DOMAIN order |-> Delete(order[n], rows[order[n]].id)]
                                \o Tail(todo[p]))
        /\ UNCHANGED <<rows, written, request, contested, started>>

lock_tenant_settings(p) ==
    /\ At(p, "lock") /\ Others(p, TenantRow) = {}
    /\ written' = [written EXCEPT ![p][TenantRow] = rows[TenantRow]]
    /\ Go(p, "writing", Tail(todo[p]))
    /\ UNCHANGED <<rows, request, contested, started>>

\* The presets of the catalogue that the tenant has neither by their key nor by their name
\* are to be installed, each with a new identity, and the others are skipped.
_chiavi_e_nomi_del_tenant(p) ==
    LET missing == {n \in DOMAIN BUILTIN_PRESETS : \A x \in Presets : Exists(rows[x]) =>
                       BUILTIN_PRESETS[n] \notin {rows[x].builtin, rows[x].name}}
    IN  /\ At(p, "read")
        /\ \E new \in [missing -> {x \in Presets : Free(x)}] :
              /\ IsInjective(new)
              /\ Go(p, "writing", [n \in DOMAIN BUILTIN_PRESETS |->
                    IF n \in missing THEN Statement("install", new[n], BUILTIN_PRESETS[n])
                    ELSE Statement("skip", Null, Null)] \o Tail(todo[p]))
        /\ UNCHANGED <<rows, written, request, contested, started>>

\* A preset of the catalogue is inserted with its rules.
install_builtin_preset(p) ==
    LET s == Head(todo[p])
        id == request[p].id
        preset == [id |-> id, builtin |-> s.row, name |-> s.row]
    IN  /\ At(p, "install")
        /\ Go(p, "writing",
              <<Insert(s.key, preset)>> \o _add_rules(s.key, id) \o Tail(todo[p]))
        /\ UNCHANGED <<rows, written, request, contested, started>>

skip(p) ==
    /\ At(p, "skip") /\ Go(p, "writing", Tail(todo[p]))
    /\ UNCHANGED <<rows, written, request, contested, started>>

Naming == {"create_preset", "update_preset", "reset_preset"}

\* Whether the commit of request r concerns what request s is about: a name, a preset or
\* the list of the receiver.  One synchronisation does not concern another.
Contests(r, s) ==
    \/ s.op \in Naming /\ r.op \in Naming \cup {"sync_builtin"}
    \/ s.op = "sync_builtin" /\ r.op \in Naming
    \/ s.about # Null /\ r.about = s.about
    \/ s.op = "set_receiver_presets" /\ r.op \in {"set_receiver_presets", "delete_preset"}

\* A replacement that a deletion has overtaken passes that on to those its own commit concerns.
commit(p) ==
    /\ pc[p] = "writing" /\ todo[p] = <<>>
    /\ rows' = [k \in Keys |-> View(p, k)]
    /\ contested' = [q \in Requests |->
                        IF request[q] # NoRequest /\ Contests(request[p], request[q])
                        THEN contested[q] \cup {request[p].op} \cup
                                 (contested[p] \cap {"delete_preset"})
                        ELSE contested[q]]
    /\ Finish(p)
    /\ UNCHANGED started

\* The end of a refused request, a client that goes away, the victim of a deadlock.
rollback(p) ==
    /\ pc[p] # "idle"
    /\ Finish(p)
    /\ UNCHANGED <<rows, contested, started>>

-----------------------------------------------------------------------------
Init ==
    /\ rows = InitialRows
    /\ written = [p \in Requests |-> [k \in Keys |-> Same]]
    /\ request = [p \in Requests |-> NoRequest]
    /\ pc = [p \in Requests |-> "idle"]
    /\ todo = [p \in Requests |-> <<>>]
    /\ contested = [p \in Requests |-> {}]
    /\ started = 0

Lists == {list \in UNION {[1 .. n -> Presets] : n \in 0 .. Cardinality(Positions)} : IsInjective(list)}

Arrival(p) ==
    \/ \E x \in Presets :
          \/ \E name \in Names : create_preset(p, x, name) \/ update_preset(p, x, name)
          \/ delete_preset(p, x) \/ reset_preset_to_builtin(p, x)
          \/ \E n \in Priorities : create_preset_rule(p, x, n) \/ update_preset_rule(p, x, n)
    \/ sync_builtin_presets(p)
    \/ \E list \in Lists : set_receiver_presets(p, list)

Step(p) ==
    \/ _assert_name_free(p) \/ lock_tenant_settings(p) \/ _chiavi_e_nomi_del_tenant(p)
    \/ install_builtin_preset(p) \/ skip(p)
    \/ insert(p) \/ update(p) \/ delete(p) \/ purge(p) \/ commit(p) \/ rollback(p)

Next == \E p \in Requests : Arrival(p) \/ Step(p)

Spec == Init /\ [][Next]_vars

-----------------------------------------------------------------------------
(* Properties. *)

\* The variables have their types, no two presets share a name or a key of the catalogue,
\* and what rules and applications refer to exists.
TypeOK ==
    /\ \A x, y \in Presets : x # y /\ Exists(rows[x]) /\ Exists(rows[y]) =>
          /\ rows[x].name # rows[y].name
          /\ rows[x].builtin # Null => rows[x].builtin # rows[y].builtin
    /\ \A k \in Rules \cup Applications : rows[k] # NoRow => Exists(rows[Target(k, rows[k])])
    /\ \A p \in Requests : pc[p] \in {"idle", "naming", "writing", "conflict"}
    /\ \A p \in Requests : pc[p] = "idle" <=> request[p] = NoRequest
    /\ started \in 0 .. MaxRequests

\* A constraint refuses a request only when the commit of another has come in between, of
\* one that names a preset or changes the same rows: two synchronisations at once both
\* succeed, and a replacement does not meet the rows it replaces.
RefusalsHaveACause == \A p \in Requests : pc[p] = "conflict" => contested[p] # {}

\* A reset leaves the rules and the name of the factory, and a replacement of the
\* receiver's list the presets it was given, unless another has changed the same preset or
\* the list since it began.  Two replacements never mix, except where the deletion of a
\* preset, before or between them, has emptied a position: the second leaves its own list or
\* the first's.
PresetsAsAsked ==
    \A p \in Requests : pc[p] = "writing" /\ todo[p] = <<>> =>
        LET r == request[p]
            row(n) == View(p, <<Receiver, n>>)
            list == [n \in Positions |-> IF row(n) = NoRow THEN Null ELSE row(n).preset]
            asked == [n \in Positions |-> IF n < Len(r.ask) THEN r.ask[n + 1] ELSE Null]
        IN  /\ r.op = "reset_preset" /\ contested[p] = {} =>
                  /\ View(p, r.about).name = r.ask
                  /\ \A n \in Priorities :
                        IF n \in 1 .. Factory THEN View(p, <<r.about, n>>).factory
                        ELSE View(p, <<r.about, n>>) = NoRow
            /\ r.op = "set_receiver_presets" /\ "delete_preset" \notin contested[p] =>
                  \/ list = asked
                  \/ contested[p] # {} /\ \A n \in Positions : row(n) = rows[<<Receiver, n>>]
=============================================================================
