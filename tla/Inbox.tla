------------------------------- MODULE Inbox -------------------------------
(***************************************************************************)
(* What people do with the notifications that have arrived: they list them *)
(* page by page, mark them read and verified, one at a time or all at      *)
(* once, and delete them, while others arrive and the retention removes    *)
(* the old ones.  Every change leaves an event in the audit, in the same   *)
(* transaction; the audit is listed and exported in the same way.          *)
(***************************************************************************)
EXTENDS Naturals, Sequences, FiniteSets, Functions, FiniteSetsExt

CONSTANTS
    Notifications,  \* numbers of notifications, those to arrive included
    Present,        \* those there at the start
    ReceivedAt,     \* the instant at which each was received
    Deliveries,     \* numbers of deliveries
    NotificationOf, \* the notification of each
    Groups,         \* groups of receivers
    GroupOf,        \* the group of each notification's receiver
    Users,          \* who acts
    Limit,          \* rows in a page
    ExportMax,      \* EXPORT_MAX_ROWS
    Requests,       \* requests in flight
    MaxRequests,    \* requests that ever arrive
    Unborn,         \* a notification yet to arrive
    NoRow, NoRequest, Same, Null

VARIABLES
    rows,           \* the committed notifications
    trail,          \* the events of the audit, in the order of their commits
    member,         \* the groups of the one who lists, a member
    written,        \* what each transaction has written and not committed
    request,        \* the request each transaction serves
    pc,             \* where it stands
    todo,           \* the notifications it has yet to write
    started,        \* requests that have arrived
    listing         \* the pages somebody has asked for

txVars == <<written, request, pc, todo>>
vars == <<rows, trail, member, txVars, started, listing>>

Exists(row) == row \notin {NoRow, Unborn}
Arrived == [status |-> "unread", read_by |-> Null, verified |-> FALSE, verified_by |-> Null]

-----------------------------------------------------------------------------
(* Writing. *)

Holders(p, n) == {q \in Requests \ {p} : written[q][n] # Same}

Go(p, place, ids) ==
    /\ pc' = [pc EXCEPT ![p] = place]
    /\ todo' = [todo EXCEPT ![p] = ids]

Finish(p) ==
    /\ written' = [written EXCEPT ![p] = [n \in Notifications |-> Same]]
    /\ request' = [request EXCEPT ![p] = NoRequest]
    /\ Go(p, "idle", {})

\* at is the instant of the transaction, which its events will bear.
Begin(p, op, actor, columns, groups, place, ids) ==
    /\ pc[p] = "idle" /\ started < MaxRequests
    /\ started' = started + 1
    /\ request' = [request EXCEPT ![p] =
                      [op |-> op, actor |-> actor, columns |-> columns, groups |-> groups,
                       ids |-> ids, at |-> started + 1]]
    /\ Go(p, place, ids)
    /\ UNCHANGED <<rows, trail, member, written, listing>>

\* The columns that change, with their actor, by the row as it was read.
Changes(row, actor, status, verified) ==
    LET value == [status |-> status, read_by |-> IF status = "read" THEN actor ELSE Null,
                  verified |-> verified, verified_by |-> IF verified = TRUE THEN actor ELSE Null]
    IN  [c \in (IF status \in {Null, row.status} THEN {} ELSE {"status", "read_by"}) \cup
               (IF verified \in {Null, row.verified} THEN {} ELSE {"verified", "verified_by"})
           |-> value[c]]

\* By whoever may write to the group of the notification.  A mark that changes nothing
\* writes nothing.
mark_notification_status(p, n, actor, status, verified) ==
    /\ Exists(rows[n])
    /\ LET columns == Changes(rows[n], actor, status, verified)
       IN  Begin(p, "mark", actor, columns, Null, "writing",
                 IF DOMAIN columns = {} THEN {} ELSE {n})

\* The groups of a member are read first; an administrator has all of them.
bulk_mark_read(p, actor) ==
    \E groups \in {Groups, member} : Begin(p, "bulk", actor, Null, groups, "scanning", {})

delete_notification(p, n, actor) ==
    /\ Exists(rows[n])
    /\ Begin(p, "delete", actor, Null, Null, "writing", {n})

\* The UPDATE starts from the rows that are unread when it starts.
bulk_scan(p) ==
    LET found == {n \in Notifications :
                     Exists(rows[n]) /\ rows[n].status = "unread" /\ GroupOf[n] \in request[p].groups}
    IN  /\ pc[p] = "scanning"
        /\ request' = [request EXCEPT ![p].ids = found]
        /\ Go(p, "writing", found)
        /\ UNCHANGED <<rows, trail, member, written, started, listing>>

\* A row that another has changed meanwhile is looked at again.
still_unread(n) == Exists(rows[n]) /\ rows[n].status = "unread"

\* The row with some of its columns set.
Updated(row, columns) ==
    [c \in DOMAIN row |-> IF c \in DOMAIN columns THEN columns[c] ELSE row[c]]

\* The row as the statement leaves it, or Same if it leaves it alone.
After(p, n) ==
    CASE request[p].op = "delete" -> IF Exists(rows[n]) THEN NoRow ELSE Same
      [] request[p].op = "bulk" ->
           IF still_unread(n)
           THEN Updated(rows[n], [status |-> "read", read_by |-> request[p].actor])
           ELSE Same
      [] OTHER -> Updated(rows[n], request[p].columns)

\* Each row is written once nobody else holds it.  A mark fails when its row is gone.
write(p, n) ==
    /\ pc[p] = "writing" /\ n \in todo[p] /\ Holders(p, n) = {}
    /\ IF request[p].op = "mark" /\ ~Exists(rows[n]) THEN Finish(p)
       ELSE /\ written' = [written EXCEPT ![p][n] = After(p, n)]
            /\ Go(p, "writing", todo[p] \ {n})
            /\ UNCHANGED request
    /\ UNCHANGED <<rows, trail, member, started, listing>>

\* Mistake: the ids come from a SELECT before the UPDATE.
marked_ids_selected(p) == request[p].ids

\* The ids the UPDATE returns.
marked_ids(p) == {n \in request[p].ids : written[p][n] # Same}

Event(p, k, about, field, value) ==
    [at |-> request[p].at, id |-> 2 * request[p].at + k, about |-> about, field |-> field,
     value |-> value, actor |-> request[p].actor, kept |-> TRUE]

\* One event for each fact of a mark, one for all that a bulk read has marked.  A deletion
\* has its event although the row is already gone.
_audit_before_flush(p) ==
    LET r == request[p]
    IN  CASE r.op = "bulk" ->
               IF marked_ids(p) = {} THEN <<>>
               ELSE <<Event(p, 0, marked_ids(p), "status", "read")>>
          [] r.op = "delete" -> <<Event(p, 0, r.ids, "deleted", TRUE)>>
          [] OTHER ->
               (IF "status" \in DOMAIN r.columns
                THEN <<Event(p, 0, r.ids, "status", r.columns.status)>> ELSE <<>>) \o
               (IF "verified" \in DOMAIN r.columns
                THEN <<Event(p, 1, r.ids, "verified", r.columns.verified)>> ELSE <<>>)

commit(p) ==
    /\ pc[p] = "writing" /\ todo[p] = {}
    /\ rows' = [n \in Notifications |-> IF written[p][n] = Same THEN rows[n] ELSE written[p][n]]
    /\ trail' = trail \o _audit_before_flush(p)
    /\ Finish(p)
    /\ UNCHANGED <<member, started, listing>>

rollback(p) ==
    /\ pc[p] # "idle"
    /\ Finish(p)
    /\ UNCHANGED <<rows, trail, member, started, listing>>

-----------------------------------------------------------------------------
(* What happens around. *)

\* An ingestion commits; another, received later, may have committed before.
arrive(n) ==
    /\ rows[n] = Unborn
    /\ rows' = [rows EXCEPT ![n] = Arrived]
    /\ UNCHANGED <<trail, member, txVars, started, listing>>

\* The retention removes what is old, or a receiver goes with its notifications.
purge_old_notifications(n) ==
    /\ Exists(rows[n]) /\ \A p \in Requests : written[p][n] = Same
    /\ rows' = [rows EXCEPT ![n] = NoRow]
    /\ UNCHANGED <<trail, member, txVars, started, listing>>

\* What the audit has said is history: the event is no longer in the table.
purge_audit_events(i) ==
    /\ trail[i].kept
    /\ trail' = [trail EXCEPT ![i].kept = FALSE]
    /\ UNCHANGED <<rows, member, txVars, started, listing>>

change_groups(groups) ==
    /\ member' = groups
    /\ UNCHANGED <<rows, trail, txVars, started, listing>>

-----------------------------------------------------------------------------
(* Reading page by page.  A row has a key, an instant and its number. *)

\* Mistake: the cursor is the instant alone.
Below_instant(key, cursor) == cursor # Null => key[1] < cursor[1]

Below(key, cursor) ==
    cursor # Null => key[1] < cursor[1] \/ (key[1] = cursor[1] /\ key[2] < cursor[2])

\* The notifications of the groups one may see, with the status one asks for.
_apply_filters(filter, groups) ==
    {<<ReceivedAt[n], n>> : n \in {m \in Notifications :
        /\ Exists(rows[m]) /\ GroupOf[m] \in groups
        /\ filter # Null => rows[m].status = filter}}

\* Their deliveries, in the order of the notifications.
DeliveriesOf(groups) ==
    {<<ReceivedAt[NotificationOf[d]], d>> : d \in {e \in Deliveries :
        Exists(rows[NotificationOf[e]]) /\ GroupOf[NotificationOf[e]] \in groups}}

\* The events that the table still has.
_base_query == {<<e.at, e.id>> : e \in {f \in Range(trail) : f.kept}}

\* The keys of what a list selects.
Selected(source, filter, groups) ==
    CASE source = "notifications" -> _apply_filters(filter, groups)
      [] source = "deliveries" -> DeliveriesOf(groups)
      [] source \in {"audit", "export"} -> _base_query

\* ORDER BY: the latest first.
Later(j, k) == j[1] > k[1] \/ (j[1] = k[1] /\ j[2] > k[2])

\* The first rows under the cursor: as many are later than each as come before it.
First(keys, cursor, limit) ==
    LET under == {k \in keys : Below(k, cursor)}
        found == Cardinality(under)
    IN  [i \in 1 .. IF found < limit THEN found ELSE limit |->
            CHOOSE k \in under : Cardinality({j \in under : Later(j, k)}) = i - 1]

Listing(source, filter, groups) ==
    /\ listing = Null
    /\ listing' = [source |-> source, filter |-> filter, groups |-> groups, cursor |-> Null,
                   listed |-> <<>>, steady |-> Null,
                   place |-> IF groups = Null THEN "access" ELSE "rows"]
    /\ UNCHANGED <<rows, trail, member, txVars, started>>

list_notifications(filter) == Listing("notifications", filter, Null)
list_deliveries == Listing("deliveries", Null, Null)
list_audit_events == Listing("audit", Null, Groups)

\* The rows are counted before the first byte is sent.
export_audit_events ==
    /\ Cardinality(Selected("export", Null, Groups)) <= ExportMax
    /\ Listing("export", Null, Groups)

\* The groups of a member are read anew for each page; without any, there is nothing.
accessible_group_ids ==
    /\ listing # Null /\ listing.place = "access"
    /\ listing' = [listing EXCEPT !.groups = member,
                                  !.place = IF member = {} THEN "refused" ELSE "rows"]
    /\ UNCHANGED <<rows, trail, member, txVars, started>>

\* steady is history: what every page so far has selected.
Steady(keys) == IF listing.steady = Null THEN keys ELSE listing.steady \cap keys

\* One row more than the page says whether there is another.
More(found) == Len(found) > Limit

\* A page: its rows, and the key of the last one as the next cursor.
_paginated ==
    LET l == listing
        keys == Selected(l.source, l.filter, l.groups)
        found == First(keys, l.cursor, Limit + 1)
        page == SubSeq(found, 1, IF More(found) THEN Limit ELSE Len(found))
    IN  /\ l # Null /\ l.place = "rows" /\ l.source # "export"
        /\ listing' = [l EXCEPT
             !.listed = @ \o page, !.steady = Steady(keys),
             !.cursor = IF More(found) THEN page[Len(page)] ELSE @,
             !.place = CASE ~More(found) -> "end"
                         [] More(found) /\ l.source = "audit" -> "rows"
                         [] OTHER -> "access"]
        /\ UNCHANGED <<rows, trail, member, txVars, started>>

\* A block of the export, each in a session of its own, until one is not full or the
\* maximum is reached.
_righe ==
    LET l == listing
        keys == Selected(l.source, Null, l.groups)
        block == First(keys, l.cursor, Limit)
        listed == l.listed \o block
    IN  /\ l # Null /\ l.place = "rows" /\ l.source = "export"
        /\ listing' = [l EXCEPT
             !.listed = listed, !.steady = Steady(keys),
             !.cursor = IF block = <<>> THEN @ ELSE block[Len(block)],
             !.place = CASE Len(block) < Limit -> "end"
                         [] Len(block) = Limit /\ Len(listed) >= ExportMax -> "maximum"
                         [] OTHER -> "rows"]
        /\ UNCHANGED <<rows, trail, member, txVars, started>>

-----------------------------------------------------------------------------
Init ==
    /\ rows = [n \in Notifications |-> IF n \in Present THEN Arrived ELSE Unborn]
    /\ trail = <<>>
    /\ member = Groups
    /\ written = [p \in Requests |-> [n \in Notifications |-> Same]]
    /\ request = [p \in Requests |-> NoRequest]
    /\ pc = [p \in Requests |-> "idle"]
    /\ todo = [p \in Requests |-> {}]
    /\ started = 0
    /\ listing = Null

Arrival(p) ==
    \E actor \in Users :
        \/ bulk_mark_read(p, actor)
        \/ \E n \in Notifications :
              \/ \E status \in {"read", "unread", Null}, verified \in BOOLEAN \cup {Null} :
                     mark_notification_status(p, n, actor, status, verified)
              \/ delete_notification(p, n, actor)

Step(p) ==
    bulk_scan(p) \/ commit(p) \/ rollback(p) \/ \E n \in Notifications : write(p, n)

Around ==
    \/ \E n \in Notifications : arrive(n) \/ purge_old_notifications(n)
    \/ \E i \in DOMAIN trail : purge_audit_events(i)
    \/ \E groups \in SUBSET Groups : change_groups(groups)

Reading ==
    \/ \E filter \in {"unread", Null} : list_notifications(filter)
    \/ list_deliveries \/ list_audit_events \/ export_audit_events
    \/ accessible_group_ids \/ _paginated \/ _righe

Next == (\E p \in Requests : Arrival(p) \/ Step(p)) \/ Around \/ Reading

Spec == Init /\ [][Next]_vars

-----------------------------------------------------------------------------
(* Properties. *)

\* The variables have their types, and no two transactions have written the same row.
TypeOK ==
    /\ \A n \in Notifications : Exists(rows[n]) =>
          /\ DOMAIN rows[n] = DOMAIN Arrived
          /\ rows[n].read_by # Null <=> rows[n].status = "read"
          /\ rows[n].verified_by # Null <=> rows[n].verified
    /\ \A p, q \in Requests, n \in Notifications :
          p # q => written[p][n] = Same \/ written[q][n] = Same
    /\ \A p \in Requests : pc[p] \in {"idle", "scanning", "writing"}
    /\ \A p \in Requests : pc[p] = "idle" <=> request[p] = NoRequest
    /\ started \in 0 .. MaxRequests

\* Who turns the pages to the end has met, once and in order, every row that every page
\* could have shown, whatever arrives, changes or goes between two pages.  Only an export
\* that stops at its maximum may miss some: events of transactions that began before it
\* and committed after its count take their place.
ListedOnce ==
    listing # Null =>
        /\ \A i, j \in DOMAIN listing.listed : i < j => Later(listing.listed[i], listing.listed[j])
        /\ listing.place = "end" => listing.steady \subseteq Range(listing.listed)

\* What the audit said last of a field, in the order of the commits.
Said(n, field) ==
    LET about == {i \in DOMAIN trail : trail[i].field = field /\ n \in trail[i].about}
    IN  IF about = {} THEN Null ELSE trail[Max(about)]

\* A notification is read, or verified, as the last event about it says and by its actor,
\* however marks, bulk reads and deletions overlap.
TrailTellsTheState ==
    \A n \in Notifications : Exists(rows[n]) =>
        /\ IF Said(n, "status") = Null THEN rows[n].status = "unread"
           ELSE /\ rows[n].status = Said(n, "status").value
                /\ rows[n].read_by = IF rows[n].status = "read" THEN Said(n, "status").actor ELSE Null
        /\ IF Said(n, "verified") = Null THEN ~rows[n].verified
           ELSE /\ rows[n].verified = Said(n, "verified").value
                /\ rows[n].verified_by = IF rows[n].verified THEN Said(n, "verified").actor ELSE Null
=============================================================================
