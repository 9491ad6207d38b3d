------------------------------ MODULE Routing ------------------------------
(***************************************************************************)
(* Where a notification goes: the channels bound to its group, what its    *)
(* receiver overrides, and the requests that change both while ingestions  *)
(* read them, in three statements and without locks.                       *)
(*                                                                         *)
(* One group and one receiver.  A row has an id, the number of the request *)
(* that inserted it; an update names the row by its id and writes only the *)
(* columns that differ from what the request has read.  PostgreSQL runs    *)
(* the transactions at READ COMMITTED.                                     *)
(***************************************************************************)
EXTENDS Naturals, Sequences, FiniteSets, Functions

CONSTANTS
    Channels,       \* identities of channels, those to be created included
    Severities,     \* severities, by their rank
    InitialRows,    \* the tables at the start
    Requests,       \* requests in flight
    MaxRequests,    \* requests that ever arrive
    Operations,     \* the operations that arrive
    Unborn,         \* a channel yet to be created
    NoRow, NoRequest, Same, Null

Tables == {"channel", "binding", "override"}
Pairs == {"binding", "override"}

VARIABLES
    rows,           \* the committed rows of each table, by channel
    deliveries,     \* the committed deliveries: the channel and the request
    written,        \* what each transaction has written and not committed
    inserted,       \* the deliveries each transaction has inserted
    purged,         \* the deliveries each transaction has deleted
    request,        \* the request each transaction serves
    pc,             \* where it stands
    todo,           \* the statements it has yet to execute
    read,           \* what an ingestion has read
    overtaken,      \* the commits of others since it arrived
    started         \* requests that have arrived

txVars == <<written, inserted, purged, request, pc, todo, read>>
vars == <<rows, deliveries, txVars, overtaken, started>>

Exists(row) == row \notin {NoRow, Unborn}

\* A row as transaction p sees it.
View(p, t, c) == IF written[p][t][c] = Same THEN rows[t][c] ELSE written[p][t][c]

-----------------------------------------------------------------------------
(* The rule: which channels a notification goes to. *)

threshold(binding, override) ==
    IF override # NoRow /\ override.mode = "override" THEN override.min ELSE binding.min

\* Mistake: a muted channel is one whose own threshold is not passed.
select_unmuted(bindings, overrides, channels, severity) ==
    {c \in DOMAIN bindings :
        /\ severity >= threshold(bindings[c], overrides[c])
        /\ Exists(channels[c]) /\ channels[c].enabled}

\* The channels of the enabled bindings, those the receiver mutes, whose threshold is
\* not reached or that are disabled apart.
select_target_channels(bindings, overrides, channels, severity) ==
    {c \in DOMAIN bindings :
        /\ overrides[c] # NoRow => overrides[c].mode # "mute"
        /\ severity >= threshold(bindings[c], overrides[c])
        /\ Exists(channels[c]) /\ channels[c].enabled}

\* An override without a threshold, on a channel the notification could reach.
Unusable(bindings, overrides) ==
    \E c \in DOMAIN bindings :
        overrides[c] # NoRow /\ overrides[c].mode = "override" /\ overrides[c].min = Null

EnabledBindings == [c \in {d \in Channels : rows.binding[d] # NoRow /\ rows.binding[d].enabled}
                       |-> rows.binding[c]]

\* Whether the tables, as they are, send a notification of this severity to the channel.
Wanted(c, severity) ==
    /\ rows.binding[c] # NoRow /\ rows.binding[c].enabled
    /\ Exists(rows.channel[c]) /\ rows.channel[c].enabled
    /\ CASE rows.override[c] = NoRow -> rows.binding[c].min <= severity
         [] rows.override[c] # NoRow /\ rows.override[c].mode = "mute" -> FALSE
         [] OTHER -> rows.override[c].min # Null /\ rows.override[c].min <= severity

Configured(severity) == {c \in Channels : Wanted(c, severity)}

-----------------------------------------------------------------------------
(* Transactions. *)

Go(p, place, statements) ==
    /\ pc' = [pc EXCEPT ![p] = place]
    /\ todo' = [todo EXCEPT ![p] = statements]

\* The transaction is over, with or without its writes.
Finish(p) ==
    /\ written' = [written EXCEPT ![p] = [t \in Tables |-> [c \in Channels |-> Same]]]
    /\ inserted' = [inserted EXCEPT ![p] = {}]
    /\ purged' = [purged EXCEPT ![p] = {}]
    /\ request' = [request EXCEPT ![p] = NoRequest]
    /\ read' = [read EXCEPT ![p] = Null]
    /\ Go(p, "idle", <<>>)

\* ask is the row to be stored; its id is the number of the request.
Begin(p, op, c, ask, place, statements) ==
    /\ pc[p] = "idle" /\ started < MaxRequests /\ op \in Operations
    /\ started' = started + 1
    /\ request' = [request EXCEPT ![p] =
                      [op |-> op, channel |-> c, ask |-> ask, id |-> started + 1]]
    /\ overtaken' = [overtaken EXCEPT ![p] = <<>>]
    /\ Go(p, place, statements)
    /\ UNCHANGED <<rows, deliveries, written, inserted, purged>>

Insert(t, c, row) == [kind |-> "insert", table |-> t, channel |-> c, id |-> row.id, row |-> row]
Update(t, c, id, columns) ==
    [kind |-> "update", table |-> t, channel |-> c, id |-> id, row |-> columns]
Delete(t, c, id) == [kind |-> "delete", table |-> t, channel |-> c, id |-> id, row |-> Null]
\* Delete what the statement finds.
Purge(t, c) == [kind |-> "purge", table |-> t, channel |-> c, id |-> Null, row |-> Null]

\* The statements that make the row read what is asked: none when nothing differs.
Flush(t, c, row, ask) ==
    LET changed == {f \in DOMAIN ask : ask[f] # row[f]}
    IN  IF changed = {} THEN <<>> ELSE <<Update(t, c, row.id, [f \in changed |-> ask[f]])>>

-----------------------------------------------------------------------------
(* The requests.  Each begins by reading without a lock. *)

create_channel(p, c, enabled) ==
    /\ rows.channel[c] = Unborn
    /\ \A q \in Requests : request[q] # NoRequest => request[q].channel # c
    /\ Begin(p, "create_channel", c, Null, "writing",
             <<Insert("channel", c, [id |-> started + 1, enabled |-> enabled])>>)
    /\ UNCHANGED read

update_channel(p, c, enabled) ==
    /\ Exists(rows.channel[c])
    /\ Begin(p, "update_channel", c, Null, "writing",
             Flush("channel", c, rows.channel[c], [enabled |-> enabled]))
    /\ UNCHANGED read

\* Nothing is deleted with a channel by the database.
delete_channel(p, c) ==
    /\ Exists(rows.channel[c])
    /\ Begin(p, "delete_channel", c, Null, "writing",
             <<Purge("binding", c), Purge("override", c), Purge("delivery", c),
               Delete("channel", c, rows.channel[c].id)>>)
    /\ UNCHANGED read

\* A threshold is kept only with the mode that has one.
_override_min_severity(mode, min) == IF mode = "override" THEN min ELSE Null

bind_group_channel(p, c, min, enabled) ==
    /\ Exists(rows.channel[c])
    /\ Begin(p, "bind_group_channel", c, [min |-> min, enabled |-> enabled], "reading", <<>>)
    /\ UNCHANGED read

create_receiver_override(p, c, mode, min) ==
    /\ Exists(rows.channel[c])
    /\ mode = "override" => min # Null
    /\ Begin(p, "create_receiver_override", c,
             [mode |-> mode, min |-> _override_min_severity(mode, min)], "reading", <<>>)
    /\ UNCHANGED read

\* min and enabled are Null when the client does not send them.
update_group_channel_binding(p, c, min, enabled) ==
    LET row == rows.binding[c]
    IN  /\ row # NoRow
        /\ Begin(p, "update_group_channel_binding", c, Null, "writing",
                 Flush("binding", c, row,
                       [min |-> IF min = Null THEN row.min ELSE min,
                        enabled |-> IF enabled = Null THEN row.enabled ELSE enabled]))
        /\ UNCHANGED read

\* What the client does not send is taken from the row, and a threshold the mode does
\* not have is dropped.
update_receiver_override(p, c, mode, min) ==
    LET row == rows.override[c]
        new == IF mode = Null THEN row.mode ELSE mode
        limit == IF min = Null THEN row.min ELSE min
    IN  /\ row # NoRow
        /\ new = "override" => limit # Null
        /\ Begin(p, "update_receiver_override", c, Null, "writing",
                 Flush("override", c, row,
                       [mode |-> new, min |-> _override_min_severity(new, limit)]))
        /\ UNCHANGED read

unbind_group_channel(p, c) ==
    /\ rows.binding[c] # NoRow
    /\ Begin(p, "unbind_group_channel", c, Null, "writing",
             <<Delete("binding", c, rows.binding[c].id)>>)
    /\ UNCHANGED read

delete_receiver_override(p, c) ==
    /\ rows.override[c] # NoRow
    /\ Begin(p, "delete_receiver_override", c, Null, "writing",
             <<Delete("override", c, rows.override[c].id)>>)
    /\ UNCHANGED read

TableOf(op) == IF op = "bind_group_channel" THEN "binding" ELSE "override"

WithId(id, columns) ==
    [f \in {"id"} \cup DOMAIN columns |-> IF f = "id" THEN id ELSE columns[f]]

\* The pair is looked up once the channel is there: stored when it is new, else changed.
read_pair(p) ==
    LET r == request[p]
        t == TableOf(r.op)
        row == rows[t][r.channel]
    IN  /\ pc[p] = "reading"
        /\ Go(p, "writing",
              IF row # NoRow THEN Flush(t, r.channel, row, r.ask)
              ELSE <<Insert(t, r.channel, WithId(r.id, r.ask))>>)
        /\ UNCHANGED <<rows, deliveries, written, inserted, purged, request, read, overtaken,
                       started>>

\* After a violation the savepoint is undone and the pair is looked up again: somebody has
\* stored it, or the channel is gone.
reread_pair(p) ==
    LET r == request[p]
        row == rows[TableOf(r.op)][r.channel]
    IN  IF row = NoRow THEN Go(p, "refused", <<>>)
        ELSE Go(p, "writing", Flush(TableOf(r.op), r.channel, row, r.ask))

look_again(p) ==
    /\ pc[p] = "rereading"
    /\ reread_pair(p)
    /\ UNCHANGED <<rows, deliveries, written, inserted, purged, request, read, overtaken,
                   started>>

-----------------------------------------------------------------------------
(* The statements.  One that must wait for another transaction is not enabled. *)

\* Others that have written the row of the pair.
Holders(p, t, c) == {q \in Requests \ {p} : written[q][t][c] # Same}

\* Others that have inserted a row that refers to the channel, or have deleted one: the
\* first have a key share lock on the channel, the second on what refers to it.
Referring(p, c) ==
    {q \in Requests \ {p} :
        \/ c \in inserted[q] \/ \E d \in purged[q] : d[1] = c
        \/ \E t \in Pairs :
              /\ written[q][t][c] # Same
              /\ written[q][t][c] = NoRow \/ rows[t][c] = NoRow}

\* An insertion waits for whoever stores or deletes the same pair, and for whoever deletes
\* the channel.  The pair may be there by then, and the channel may be gone.
insert(p) ==
    LET s == Head(todo[p])
        c == s.channel
    IN  /\ pc[p] = "writing" /\ todo[p] # <<>> /\ s.kind = "insert" /\ s.table # "delivery"
        /\ Holders(p, s.table, c) = {}
        /\ {q \in Holders(p, "channel", c) : written[q].channel[c] = NoRow} = {}
        /\ IF s.table \in Pairs /\ (rows[s.table][c] # NoRow \/ rows.channel[c] = NoRow)
           THEN Go(p, "rereading", <<>>) /\ UNCHANGED written
           ELSE /\ written' = [written EXCEPT ![p][s.table][c] = s.row]
                /\ Go(p, "writing", Tail(todo[p]))
        /\ UNCHANGED <<rows, deliveries, inserted, purged, request, read, overtaken, started>>

\* The row with some of its columns set.
Updated(row, columns) ==
    [f \in DOMAIN row |-> IF f \in DOMAIN columns THEN columns[f] ELSE row[f]]

\* An update of a row that is gone fails.
update(p) ==
    LET s == Head(todo[p])
        c == s.channel
        there == Exists(rows[s.table][c]) /\ rows[s.table][c].id = s.id
    IN  /\ pc[p] = "writing" /\ todo[p] # <<>> /\ s.kind = "update"
        /\ there => Holders(p, s.table, c) = {}
        /\ IF there
           THEN /\ written' = [written EXCEPT ![p][s.table][c] = Updated(rows[s.table][c], s.row)]
                /\ Go(p, "writing", Tail(todo[p]))
           ELSE Go(p, "refused", <<>>) /\ UNCHANGED written
        /\ UNCHANGED <<rows, deliveries, inserted, purged, request, read, overtaken, started>>

\* The rows a DELETE by channel removes are those committed when it starts.
purge(p) ==
    LET s == Head(todo[p])
        c == s.channel
    IN  /\ pc[p] = "writing" /\ todo[p] # <<>> /\ s.kind = "purge"
        /\ IF s.table = "delivery"
           THEN /\ purged' = [purged EXCEPT ![p] = {d \in deliveries : d[1] = c}]
                /\ Go(p, "writing", Tail(todo[p]))
           ELSE /\ Go(p, "writing",
                      IF rows[s.table][c] = NoRow THEN Tail(todo[p])
                      ELSE <<Delete(s.table, c, rows[s.table][c].id)>> \o Tail(todo[p]))
                /\ UNCHANGED purged
        /\ UNCHANGED <<rows, deliveries, written, inserted, request, read, overtaken, started>>

\* Mistake: the foreign keys of the bindings and of the deliveries are dropped.
Referred_never(p, c) == FALSE

\* What refers to the channel and is still there refuses its deletion.
Referred(p, c) ==
    \/ \E t \in Pairs : View(p, t, c) # NoRow
    \/ \E d \in deliveries \ purged[p] : d[1] = c

\* A deletion of a row that is gone does nothing.
delete(p) ==
    LET s == Head(todo[p])
        c == s.channel
        there == Exists(rows[s.table][c]) /\ rows[s.table][c].id = s.id
    IN  /\ pc[p] = "writing" /\ todo[p] # <<>> /\ s.kind = "delete"
        /\ there => Holders(p, s.table, c) = {}
        /\ s.table = "channel" => Referring(p, c) = {}
        /\ IF there /\ s.table = "channel" /\ Referred(p, c)
           THEN Go(p, "refused", <<>>) /\ UNCHANGED written
           ELSE /\ written' = IF there THEN [written EXCEPT ![p][s.table][c] = NoRow] ELSE written
                /\ Go(p, "writing", Tail(todo[p]))
        /\ UNCHANGED <<rows, deliveries, inserted, purged, request, read, overtaken, started>>

commit(p) ==
    /\ pc[p] = "writing" /\ todo[p] = <<>>
    /\ rows' = [t \in Tables |-> [c \in Channels |-> View(p, t, c)]]
    /\ deliveries' = (deliveries \ purged[p]) \cup {<<c, request[p].id>> : c \in inserted[p]}
    /\ overtaken' = [q \in Requests |->
                        IF q = p \/ pc[q] = "idle" THEN overtaken[q]
                        ELSE Append(overtaken[q], request[p].op)]
    /\ Finish(p)
    /\ UNCHANGED started

\* The end of a refused request, a client that goes away, the victim of a deadlock.
rollback(p) ==
    /\ pc[p] # "idle"
    /\ Finish(p)
    /\ UNCHANGED <<rows, deliveries, overtaken, started>>

-----------------------------------------------------------------------------
(* An ingestion, after its notification is written; the job of the surveillance does *)
(* the same.                                                                          *)

\* before is history: the targets as configured when the ingestion begins.
read_bindings(p, severity) ==
    /\ Begin(p, "ingest", Null, severity, IF DOMAIN EnabledBindings = {} THEN "writing"
                                          ELSE "overrides", <<>>)
    /\ read' = [read EXCEPT ![p] = [bindings |-> EnabledBindings, overrides |-> Null,
                                    targets |-> {}, before |-> Configured(severity)]]

read_overrides(p) ==
    /\ pc[p] = "overrides"
    /\ read' = [read EXCEPT ![p].overrides = rows.override]
    /\ Go(p, "channels", <<>>)
    /\ UNCHANGED <<rows, deliveries, written, inserted, purged, request, overtaken, started>>

\* The elements of a finite set one after the other.
InOrder(S) == CHOOSE f \in Bijection(1 .. Cardinality(S), S) : TRUE

\* One pending delivery for each target, in the same transaction.
create_deliveries_for_notification(p) ==
    LET targets == select_target_channels(read[p].bindings, read[p].overrides,
                                          rows.channel, request[p].ask)
    IN  /\ pc[p] = "channels"
        /\ IF Unusable(read[p].bindings, read[p].overrides)
           THEN Go(p, "refused", <<>>) /\ UNCHANGED read
           ELSE /\ read' = [read EXCEPT ![p].targets = targets]
                /\ Go(p, "writing", [i \in 1 .. Cardinality(targets) |->
                                        Insert("delivery", InOrder(targets)[i],
                                               [id |-> request[p].id])])
        /\ UNCHANGED <<rows, deliveries, written, inserted, purged, request, overtaken, started>>

\* A delivery waits for whoever deletes its channel, and fails when it is gone.
_add_deliveries(p) ==
    LET s == Head(todo[p])
        c == s.channel
    IN  /\ pc[p] = "writing" /\ todo[p] # <<>> /\ s.kind = "insert" /\ s.table = "delivery"
        /\ {q \in Holders(p, "channel", c) : written[q].channel[c] = NoRow} = {}
        /\ IF rows.channel[c] = NoRow THEN Go(p, "refused", <<>>) /\ UNCHANGED inserted
           ELSE /\ inserted' = [inserted EXCEPT ![p] = @ \cup {c}]
                /\ Go(p, "writing", Tail(todo[p]))
        /\ UNCHANGED <<rows, deliveries, written, purged, request, read, overtaken, started>>

-----------------------------------------------------------------------------
Init ==
    /\ rows = InitialRows
    /\ deliveries = {}
    /\ written = [p \in Requests |-> [t \in Tables |-> [c \in Channels |-> Same]]]
    /\ inserted = [p \in Requests |-> {}]
    /\ purged = [p \in Requests |-> {}]
    /\ request = [p \in Requests |-> NoRequest]
    /\ pc = [p \in Requests |-> "idle"]
    /\ todo = [p \in Requests |-> <<>>]
    /\ read = [p \in Requests |-> Null]
    /\ overtaken = [p \in Requests |-> <<>>]
    /\ started = 0

OnChannels(p) ==
    \E c \in Channels :
        \/ \E enabled \in BOOLEAN : create_channel(p, c, enabled) \/ update_channel(p, c, enabled)
        \/ delete_channel(p, c)

OnBindings(p) ==
    \E c \in Channels :
        \/ \E min \in Severities, enabled \in BOOLEAN : bind_group_channel(p, c, min, enabled)
        \/ \E min \in Severities \cup {Null}, enabled \in BOOLEAN \cup {Null} :
               update_group_channel_binding(p, c, min, enabled)
        \/ unbind_group_channel(p, c)

OnOverrides(p) ==
    \E c \in Channels :
        \/ \E mode \in {"mute", "override"}, min \in Severities \cup {Null} :
               create_receiver_override(p, c, mode, min)
        \/ \E mode \in {"mute", "override", Null}, min \in Severities \cup {Null} :
               update_receiver_override(p, c, mode, min)
        \/ delete_receiver_override(p, c)

Statement(p) ==
    read_pair(p) \/ look_again(p) \/ insert(p) \/ update(p) \/ purge(p) \/ delete(p)

Ingestion(p) ==
    \/ \E severity \in Severities : read_bindings(p, severity)
    \/ read_overrides(p) \/ create_deliveries_for_notification(p) \/ _add_deliveries(p)

Next ==
    \E p \in Requests :
        OnChannels(p) \/ OnBindings(p) \/ OnOverrides(p) \/ Statement(p) \/ Ingestion(p)
        \/ commit(p) \/ rollback(p)

Spec == Init /\ [][Next]_vars

-----------------------------------------------------------------------------
(* Properties. *)

\* The variables have their types, and what is committed refers to channels that exist.
TypeOK ==
    /\ \A c \in Channels : rows.channel[c] \in {NoRow, Unborn} =>
          rows.binding[c] = NoRow /\ rows.override[c] = NoRow /\ \A d \in deliveries : d[1] # c
    /\ \A c \in Channels : rows.override[c] # NoRow =>
          /\ rows.override[c].mode \in {"mute", "override"}
          /\ rows.override[c].min \in Severities \cup {Null}
    /\ \A c \in Channels : rows.binding[c] # NoRow => rows.binding[c].min \in Severities
    /\ \A p \in Requests : pc[p] \in {"idle", "reading", "rereading", "writing", "overrides",
                                      "channels", "refused"}
    /\ \A p \in Requests : pc[p] = "idle" <=> request[p] = NoRequest
    /\ started \in 0 .. MaxRequests

\* An ingestion that one commit overtakes chooses its channels by the tables as they were
\* before it or as they are after it, though it reads them in three statements: a deleted
\* channel takes its mute with it, and is looked at last.
FollowsOneConfiguration ==
    \A p \in Requests :
        create_deliveries_for_notification(p) /\ Len(overtaken[p]) <= 1 /\ pc'[p] # "refused" =>
            read'[p].targets \in {read[p].before, Configured(request[p].ask)}

RoutedByOneConfiguration == [][FollowsOneConfiguration]_vars

Deletions == {"delete_channel", "unbind_group_channel", "delete_receiver_override"}
Insertions == {"bind_group_channel", "create_receiver_override", "ingest"}

\* A request that finds its row or its channel is refused only when another has deleted
\* it, and the deletion of a channel only when another has stored what refers to it: who
\* saves the same pair twice at once is not.
RefusalsHaveACause ==
    \A p \in Requests : pc[p] = "refused" =>
        \/ Range(overtaken[p]) \cap
               (IF request[p].op = "delete_channel" THEN Insertions ELSE Deletions) # {}
        \/ request[p].op = "ingest" /\ Unusable(read[p].bindings, read[p].overrides)

\* What the resolver asserts (outbound_resolver.py:42-46): an override that sets a
\* threshold has one, since the handlers refuse it otherwise.
OverrideIsComplete ==
    \A c \in Channels :
        rows.override[c] # NoRow /\ rows.override[c].mode = "override"
            => rows.override[c].min # Null
=============================================================================
