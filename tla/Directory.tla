----------------------------- MODULE Directory ------------------------------
(***************************************************************************)
(* Who belongs to a tenant: the invitations and the accounts they become,  *)
(* the groups, and the users associated to each.  Every check made before  *)
(* a transaction writes may be stale when it does; what remains are the    *)
(* unique constraints, the foreign keys and the lock on an invitation.     *)
(*                                                                         *)
(* A row is reached by a key: an account by its e-mail, an invitation and  *)
(* a group by themselves, an association by the two it joins.  Its id is   *)
(* the number of the request that inserted it.                             *)
(***************************************************************************)
EXTENDS Naturals, Sequences, FiniteSets, Functions

CONSTANTS
    Emails,         \* addresses
    Invitations,    \* invitations, those to be sent included
    EmailOf,        \* whom each invites
    Groups,         \* groups, those to be created included
    Names,          \* names of groups
    InitialRows,    \* the rows at the start
    Requests,       \* requests in flight
    MaxRequests,    \* requests that ever arrive
    Unborn,         \* a row yet to be inserted
    NoRow, NoRequest, Same, Null

Members == Emails \X Groups
Keys == Emails \cup Invitations \cup Groups \cup Members

VARIABLES
    rows,           \* the committed rows
    expired,        \* the invitations whose time is over
    written,        \* what each transaction has written and not committed
    request,        \* the request each transaction serves
    pc,             \* where it stands
    todo,           \* the statements it has yet to execute
    contested,      \* whether another has changed what the request is about
    started         \* requests that have arrived

txVars == <<written, request, pc, todo>>
vars == <<rows, expired, txVars, contested, started>>

Exists(row) == row \notin {NoRow, Unborn}

Go(p, place, statements) ==
    /\ pc' = [pc EXCEPT ![p] = place]
    /\ todo' = [todo EXCEPT ![p] = statements]

Finish(p) ==
    /\ written' = [written EXCEPT ![p] = [k \in Keys |-> Same]]
    /\ request' = [request EXCEPT ![p] = NoRequest]
    /\ Go(p, "idle", <<>>)

\* about is an invitation, a group or an e-mail; ask, the groups of an account, in the
\* order of the client.
Begin(p, op, about, ask, place, statements) ==
    /\ pc[p] = "idle" /\ started < MaxRequests
    /\ started' = started + 1
    /\ request' = [request EXCEPT ![p] = [op |-> op, about |-> about, ask |-> ask,
                                          id |-> started + 1]]
    /\ contested' = [contested EXCEPT ![p] = FALSE]
    /\ Go(p, place, statements)
    /\ UNCHANGED <<rows, expired, written>>

\* A step that only reads.
Reading(p, place, next, statements) ==
    /\ pc[p] = place
    /\ Go(p, next, statements)
    /\ UNCHANGED <<rows, expired, written, request, contested, started>>

\* The orders in which a statement may find the rows of a set.
Orders(S) == Bijection(1 .. Cardinality(S), S)

Insert(k, row) == [kind |-> "insert", key |-> k, row |-> row]
Lock(k) == [kind |-> "lock", key |-> k, row |-> Null]
Update(k, columns) == [kind |-> "update", key |-> k, row |-> columns]
Delete(k, id) == [kind |-> "delete", key |-> k, row |-> [id |-> id]]
\* The foreign keys of the associations, ON DELETE CASCADE.
Cascade(g) == [kind |-> "cascade", key |-> g, row |-> Null]

-----------------------------------------------------------------------------
(* Invitations. *)

find_user_by_email(e) == rows[e] # NoRow

create_invitation(p, i) ==
    /\ rows[i] = Unborn /\ \A q \in Requests : request[q] # NoRequest => request[q].about # i
    /\ ~find_user_by_email(EmailOf[i])
    /\ Begin(p, "create_invitation", i, <<>>, "writing",
             <<Insert(i, [id |-> started + 1, accepted |-> FALSE])>>)

\* Whether it has been accepted is read without a lock.
revoke_invitation(p, i) ==
    /\ Exists(rows[i]) /\ ~rows[i].accepted
    /\ Begin(p, "revoke_invitation", i, <<>>, "writing", <<Delete(i, rows[i].id)>>)

find_invitation(i) == Exists(rows[i]) /\ ~rows[i].accepted /\ i \notin expired

accept_invitation(p, i) ==
    /\ find_invitation(i)
    /\ Begin(p, "accept_invitation", i, <<>>, "registered", <<>>)

\* Mistake: the invitation found before the transaction will do.
acceptance_unlocked(i, id) ==
    <<Insert(EmailOf[i], [id |-> id, via |-> i]), Update(i, [accepted |-> TRUE])>>

\* The invitation is locked and looked at again; the account is inserted before the
\* invitation is updated.
acceptance(i, id) ==
    <<Lock(i), Insert(EmailOf[i], [id |-> id, via |-> i]), Update(i, [accepted |-> TRUE])>>

\* The address is looked for in a transaction of its own.
check_registered(p) ==
    LET i == request[p].about
    IN  /\ pc[p] = "registered"
        /\ IF find_user_by_email(EmailOf[i]) THEN Reading(p, "registered", "refused", <<>>)
           ELSE Reading(p, "registered", "writing", acceptance(i, request[p].id))

-----------------------------------------------------------------------------
(* Accounts and their groups. *)

Associate(e, groups, id) == [n \in DOMAIN groups |-> Insert(<<e, groups[n]>>, [id |-> id])]

create_user(p, e, groups) ==
    /\ ~find_user_by_email(e)
    /\ Begin(p, "create_user", e, groups, "groups", <<>>)

update_user(p, e, groups) ==
    /\ Exists(rows[e])
    /\ Begin(p, "update_user", e, groups, "groups", <<>>)

\* What the account needs before its associations: the row, or a look at the old ones.
_assert_groups_exist(p) ==
    LET r == request[p]
    IN  /\ pc[p] = "groups"
        /\ IF \E n \in DOMAIN r.ask : ~Exists(rows[r.ask[n]])
           THEN Reading(p, "groups", "refused", <<>>)
           ELSE \/ /\ r.op = "update_user"
                   /\ Reading(p, "groups", "replacing", <<>>)
                \/ /\ r.op = "create_user"
                   /\ Reading(p, "groups", "writing",
                              <<Insert(r.about, [id |-> r.id, via |-> Null])>> \o
                              Associate(r.about, r.ask, r.id))

\* Mistake: one flush, which inserts before it deletes.
replacement_one_flush(deletes, inserts) == inserts \o deletes

\* The deletions are flushed first: the same pair may come back.
replacement(deletes, inserts) == deletes \o inserts

_replace_user_groups(p) ==
    LET r == request[p]
        old == {g \in Groups : rows[<<r.about, g>>] # NoRow}
    IN  /\ pc[p] = "replacing"
        /\ \E order \in Orders(old) :
               Reading(p, "replacing", "writing",
                       replacement([n \in DOMAIN order |->
                                       Delete(<<r.about, order[n]>>,
                                              rows[<<r.about, order[n]>>].id)],
                                   Associate(r.about, r.ask, r.id)))

-----------------------------------------------------------------------------
(* Groups. *)

create_group(p, g, name) ==
    /\ rows[g] = Unborn /\ \A q \in Requests : request[q] # NoRequest => request[q].about # g
    /\ Begin(p, "create_group", g, <<>>, "writing",
             <<Insert(g, [id |-> started + 1, name |-> name])>>)

update_group(p, g, name) ==
    /\ Exists(rows[g])
    /\ Begin(p, "update_group", g, <<>>, "writing",
             IF name = rows[g].name THEN <<>> ELSE <<Update(g, [name |-> name])>>)

\* The name is confirmed on the row as it is read.
delete_group(p, g, confirm) ==
    /\ Exists(rows[g]) /\ rows[g].name = confirm
    /\ Begin(p, "delete_group", g, <<>>, "writing", <<Delete(g, rows[g].id), Cascade(g)>>)

-----------------------------------------------------------------------------
(* The statements.  One that must wait for another transaction is not enabled. *)

Others(p, k) == {q \in Requests \ {p} : written[q][k] # Same}

\* Others that give a group this name, or take it away from one.
Naming(p, name) ==
    {q \in Requests \ {p} : \E g \in Groups :
        /\ written[q][g] # Same
        /\ \E row \in {rows[g], written[q][g]} : Exists(row) /\ row.name = name}

\* Who associates a user to a group holds a key share lock on it.
Associating(p, g) ==
    {q \in Requests \ {p} : \E e \in Emails : written[q][<<e, g>>] \notin {Same, NoRow}}

\* Whom the writing of a row must wait for: those with the same key or the same name, who
\* deletes or renames the group the row refers to, and who refers to the group it renames.
Awaited(p, k, row) ==
    Others(p, k) \cup
    (IF k \in Groups /\ "name" \in DOMAIN row THEN Naming(p, row.name) ELSE {}) \cup
    (IF k \in Groups THEN Associating(p, k) ELSE {}) \cup
    (IF k \in Members /\ Exists(rows[k[2]]) THEN Others(p, k[2]) ELSE {})

\* Whether the constraints refuse the row.
Violates(p, k, row) ==
    \/ k \in Emails \cup Members /\ rows[k] # NoRow /\ written[p][k] # NoRow
    \/ k \in Members /\ ~Exists(rows[k[2]])
    \/ k \in Groups /\ \E g \in Groups \ {k} : Exists(rows[g]) /\ rows[g].name = row.name

Statement(p, kind) == pc[p] = "writing" /\ todo[p] # <<>> /\ Head(todo[p]).kind = kind

\* The row as it will be; a violation refuses the request.
Write(p, k, row) ==
    IF row # NoRow /\ Violates(p, k, row) THEN Go(p, "conflict", <<>>) /\ UNCHANGED written
    ELSE /\ written' = [written EXCEPT ![p][k] = row]
         /\ Go(p, "writing", Tail(todo[p]))

insert(p) ==
    LET s == Head(todo[p])
    IN  /\ Statement(p, "insert") /\ Awaited(p, s.key, s.row) = {}
        /\ Write(p, s.key, s.row)
        /\ UNCHANGED <<rows, expired, request, contested, started>>

\* An acceptance goes on only with an invitation that is there and not accepted.
lock(p) ==
    LET i == Head(todo[p]).key
    IN  /\ Statement(p, "lock") /\ Others(p, i) = {}
        /\ IF Exists(rows[i]) /\ ~rows[i].accepted
           THEN /\ written' = [written EXCEPT ![p][i] = rows[i]]
                /\ Go(p, "writing", Tail(todo[p]))
           ELSE Go(p, "refused", <<>>) /\ UNCHANGED written
        /\ UNCHANGED <<rows, expired, request, contested, started>>

\* The row with some of its columns set.
Updated(row, columns) ==
    [c \in DOMAIN row |-> IF c \in DOMAIN columns THEN columns[c] ELSE row[c]]

\* An update of a row that is gone fails.
update(p) ==
    LET s == Head(todo[p])
    IN  /\ Statement(p, "update")
        /\ IF ~Exists(rows[s.key]) THEN Go(p, "refused", <<>>) /\ UNCHANGED written
           ELSE /\ Awaited(p, s.key, s.row) = {}
                /\ Write(p, s.key, Updated(rows[s.key], s.row))
        /\ UNCHANGED <<rows, expired, request, contested, started>>

\* A deletion of a row that is gone does nothing.
delete(p) ==
    LET s == Head(todo[p])
        there == Exists(rows[s.key]) /\ rows[s.key].id = s.row.id
    IN  /\ Statement(p, "delete")
        /\ there => Others(p, s.key) = {}
        /\ s.key \in Groups => Associating(p, s.key) = {}
        /\ IF there THEN Write(p, s.key, NoRow)
           ELSE Go(p, "writing", Tail(todo[p])) /\ UNCHANGED written
        /\ UNCHANGED <<rows, expired, request, contested, started>>

\* The associations the trigger finds when the group is deleted.
cascade(p) ==
    LET found == {k \in Members : k[2] = Head(todo[p]).key /\ rows[k] # NoRow}
    IN  /\ Statement(p, "cascade")
        /\ \E order \in Orders(found) :
               Go(p, "writing", [n \in DOMAIN order |-> Delete(order[n], rows[order[n]].id)])
        /\ UNCHANGED <<rows, expired, written, request, contested, started>>

\* Whether request r changes what request s is about.
Contests(r, s) ==
    \/ r.about = s.about
    \/ r.op = "delete_group" /\ r.about \in Range(s.ask)

commit(p) ==
    /\ pc[p] = "writing" /\ todo[p] = <<>>
    /\ rows' = [k \in Keys |-> IF written[p][k] = Same THEN rows[k] ELSE written[p][k]]
    /\ contested' = [q \in Requests |->
                        contested[q] \/ (request[q] # NoRequest /\ Contests(request[p], request[q]))]
    /\ Finish(p)
    /\ UNCHANGED <<expired, started>>

\* The end of a refused request, a client that goes away, a tenant that is suspended, the
\* victim of a deadlock.
rollback(p) ==
    /\ pc[p] # "idle"
    /\ Finish(p)
    /\ UNCHANGED <<rows, expired, contested, started>>

\* Seven days go by.
expire(i) ==
    /\ Exists(rows[i]) /\ i \notin expired
    /\ expired' = expired \cup {i}
    /\ UNCHANGED <<rows, txVars, contested, started>>

-----------------------------------------------------------------------------
Init ==
    /\ rows = InitialRows
    /\ expired = {}
    /\ written = [p \in Requests |-> [k \in Keys |-> Same]]
    /\ request = [p \in Requests |-> NoRequest]
    /\ pc = [p \in Requests |-> "idle"]
    /\ todo = [p \in Requests |-> <<>>]
    /\ contested = [p \in Requests |-> FALSE]
    /\ started = 0

Arrival(p) ==
    \/ \E i \in Invitations :
          create_invitation(p, i) \/ revoke_invitation(p, i) \/ accept_invitation(p, i)
    \/ \E e \in Emails, asked \in SUBSET Groups : \E groups \in Orders(asked) :
          create_user(p, e, groups) \/ update_user(p, e, groups)
    \/ \E g \in Groups, name \in Names :
          create_group(p, g, name) \/ update_group(p, g, name) \/ delete_group(p, g, name)

Step(p) ==
    \/ check_registered(p) \/ _assert_groups_exist(p) \/ _replace_user_groups(p)
    \/ insert(p) \/ lock(p) \/ update(p) \/ delete(p) \/ cascade(p)
    \/ commit(p) \/ rollback(p)

Next ==
    \/ \E p \in Requests : Arrival(p) \/ Step(p)
    \/ \E i \in Invitations : expire(i)

Spec == Init /\ [][Next]_vars

-----------------------------------------------------------------------------
(* Properties. *)

\* The variables have their types, what is associated exists, and no two groups share a
\* name.
TypeOK ==
    /\ \A k \in Members : rows[k] # NoRow => Exists(rows[k[1]]) /\ Exists(rows[k[2]])
    /\ \A g, h \in Groups :
          g # h /\ Exists(rows[g]) /\ Exists(rows[h]) => rows[g].name # rows[h].name
    /\ \A p \in Requests : pc[p] \in {"idle", "registered", "groups", "replacing", "writing",
                                      "refused", "conflict"}
    /\ \A p \in Requests : pc[p] = "idle" <=> request[p] = NoRequest
    /\ started \in 0 .. MaxRequests

\* An invitation that is accepted has become the account of its e-mail, and one that can
\* still be accepted has not; whoever accepts one at the same time as another learns that
\* it is spent, and never fails on the account that it has itself become.
InvitationIsSpentOnce ==
    /\ \A i \in Invitations : Exists(rows[i]) =>
          (rows[i].accepted <=> rows[EmailOf[i]] # NoRow /\ rows[EmailOf[i]].via = i)
    /\ \A p \in Requests : pc[p] = "conflict" /\ request[p].op = "accept_invitation" =>
          rows[EmailOf[request[p].about]].via # request[p].about

\* A PATCH of the groups of a user leaves exactly those it asks for, and is not refused by
\* a constraint, unless another has changed the same user or deleted one of them since it
\* began: replacing rows with the same ones is safe, and a deletion does not lose to it.
UncontestedGroups ==
    /\ \A p \in Requests :
          pc[p] = "conflict" /\ request[p].op = "update_user" => contested[p]
    /\ \A p \in Requests :
          /\ pc[p] = "writing" /\ todo[p] = <<>> /\ request[p].op = "update_user"
          /\ ~contested[p]
          => LET after(k) == IF written[p][k] = Same THEN rows[k] ELSE written[p][k]
             IN  {g \in Groups : after(<<request[p].about, g>>) # NoRow} = Range(request[p].ask)
=============================================================================
