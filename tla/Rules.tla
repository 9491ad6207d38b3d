------------------------------- MODULE Rules --------------------------------
(***************************************************************************)
(* The severity rules of a receiver and of its presets: ordered lists that *)
(* several requests change at once, and that every ingestion tries.        *)
(*                                                                         *)
(* A list is the receiver's own (severity_rules) or a preset's             *)
(* (severity_preset_rules): two tables with the same handlers, each with a *)
(* unique key (list, priority).  PostgreSQL runs the transactions at READ  *)
(* COMMITTED.  A statement that writes a row first takes the row, waiting  *)
(* for whoever has it, and then enters the new priority in the unique      *)
(* index, waiting for every transaction that is entering or leaving it.    *)
(***************************************************************************)
EXTENDS Severity, FiniteSets

CONSTANTS
    Rules,          \* identities of rules, those to be created included
    Ids,            \* Rules in the order of their primary keys
    Receiver,       \* the list of the receiver
    Presets,        \* the lists of its presets, in the order of their positions
    ListOf,         \* the list of each rule
    SeverityOf,     \* the severity of each rule
    InitialRows,    \* the rules at the start
    Requests,       \* requests in flight
    MaxRequests,    \* requests that ever arrive
    Numbers,        \* priorities a client may ask for
    Policies,       \* what the columns of the receiver may be
    Messages,       \* what a client may send
    NoRow, NoRequest, Same

STEP == 10

VARIABLES
    rows,           \* the committed rows
    written,        \* what each transaction has written and not committed
    request,        \* the request each transaction serves
    pc,             \* where it stands
    todo,           \* the statements it has yet to execute
    overtaken,      \* commits of others since it arrived
    started,        \* requests that have arrived
    policy,         \* columns of the receiver that decide a severity
    notification,   \* the last notification stored
    replay          \* the last answer of the replay

txVars == <<written, request, pc, todo>>
vars == <<rows, txVars, overtaken, started, policy, notification, replay>>

Row(x, priority, enabled) ==
    [list |-> ListOf[x], severity |-> SeverityOf[x], priority |-> priority, enabled |-> enabled]

Rows == [list : {ListOf[x] : x \in Rules}, severity : {SeverityOf[x] : x \in Rules},
         priority : Int, enabled : BOOLEAN]

RequestType ==
    [op : {"create", "append", "append_again", "update", "delete", "reorder", "ingest", "replay"},
     rules : Seq(Rules), columns : SUBSET {"priority", "enabled"},
     own : Seq([id : Rules, severity : {SeverityOf[x] : x \in Rules}, preset : BOOLEAN])]

\* A client asks for priorities that are not negative (schemas/receiver.py:186), and the
\* unique key holds at the start.
ASSUME RulesAssumption ==
    /\ IsFiniteSet(Rules) /\ Ids \in SetToSeqs(Rules)
    /\ Numbers \subseteq Nat /\ MaxRequests \in Nat
    /\ InitialRows \in [Rules -> Rows \cup {NoRow}]
    /\ \A x \in Rules : InitialRows[x] # NoRow =>
          /\ InitialRows[x].priority \in Nat
          /\ InitialRows[x] = Row(x, InitialRows[x].priority, InitialRows[x].enabled)
          /\ \A y \in Rules \ {x} : InitialRows[y] # NoRow /\ ListOf[x] = ListOf[y]
                => InitialRows[x].priority # InitialRows[y].priority
ASSUME MessagesAssumption ==
    \A m \in Messages : DOMAIN m = {"header", "query", "exit_code", "duration_ms", "content"}
ASSUME NamesAssumption ==
    /\ NoRow # Same /\ {NoRow, Same} \cap Rows = {}
    /\ Same \notin Int /\ Same \notin BOOLEAN
    /\ NoRequest \notin RequestType /\ Null \notin Severities

RowsOf(list) == {x \in Rules : rows[x] # NoRow /\ ListOf[x] = list}
Existing == [x \in {y \in Rules : rows[y] # NoRow} |-> rows[x]]

-----------------------------------------------------------------------------
(* Transactions and locks. *)

\* The row as transaction p sees it.
View(p, x) == IF written[p][x] = Same THEN rows[x] ELSE written[p][x]

\* q has taken x and is about to enter its number in the index.
Entering(q, x) == pc[q] = "indexing" /\ Head(todo[q]).rule = x

\* Transactions p must wait for before it writes row x.
RowHolders(p, x) == {q \in Requests \ {p} : written[q][x] # Same}

\* Transactions p must wait for before it enters a priority in the index of a list:
\* those that have entered it, or are changing a row that has it.
IndexHolders(p, list, priority) ==
    {q \in Requests \ {p} : \E y \in Rules :
        /\ ListOf[y] = list
        /\ written[q][y] # Same
        /\ \/ rows[y] # NoRow /\ rows[y].priority = priority
           \/ written[q][y] # NoRow /\ ~Entering(q, y) /\ written[q][y].priority = priority}

WaitsFor(p) ==
    IF todo[p] = <<>> THEN {}
    ELSE CASE pc[p] = "writing" -> RowHolders(p, Head(todo[p]).rule)
           [] pc[p] = "indexing" ->
                IndexHolders(p, ListOf[Head(todo[p]).rule], Head(todo[p]).priority)
           [] OTHER -> {}

\* Mistake: the table has no unique key.
Taken_never(p, x, priority) == FALSE

\* Another row of the list has the priority.
Taken(p, x, priority) ==
    \E y \in Rules \ {x} :
        ListOf[y] = ListOf[x] /\ View(p, y) # NoRow /\ View(p, y).priority = priority

Go(p, place, statements) ==
    /\ pc' = [pc EXCEPT ![p] = place]
    /\ todo' = [todo EXCEPT ![p] = statements]

\* The transaction is over, with or without its writes.
Finish(p) ==
    /\ written' = [written EXCEPT ![p] = [x \in Rules |-> Same]]
    /\ request' = [request EXCEPT ![p] = NoRequest]
    /\ Go(p, "idle", <<>>)

Begin(p, new, place, statements) ==
    /\ pc[p] = "idle" /\ started < MaxRequests
    /\ started' = started + 1
    /\ request' = [request EXCEPT ![p] = new]
    /\ overtaken' = [overtaken EXCEPT ![p] = 0]
    /\ Go(p, place, statements)
    /\ UNCHANGED <<rows, written, policy, notification, replay>>

\* A request, the rules it names and the columns it may change.
Request(op, rules, columns) == [op |-> op, rules |-> rules, columns |-> columns, own |-> <<>>]

\* Statements on one row.  An update leaves the columns that are Same alone.
Insert(x, n) == [kind |-> "insert", rule |-> x, priority |-> n, enabled |-> TRUE]
Update(x, n, e) == [kind |-> "update", rule |-> x, priority |-> n, enabled |-> e]
Delete(x) == [kind |-> "delete", rule |-> x, priority |-> Same, enabled |-> Same]

-----------------------------------------------------------------------------
(* The requests.  Each begins by reading without a lock. *)

\* An identity no row and no request has.
Fresh(x) ==
    /\ rows[x] = NoRow
    /\ \A q \in Requests : request[q] # NoRequest => x \notin ToSet(request[q].rules)

create_severity_rule(p, x, priority) ==
    /\ Fresh(x)
    /\ IF priority = Same
       THEN Begin(p, Request("append", <<x>>, {}), "reading", <<>>)
       ELSE Begin(p, Request("create", <<x>>, {}), "checking", <<Insert(x, priority)>>)

\* The number for a rule that goes to the end.
NextNumber(list) ==
    LET numbers == {rows[y].priority : y \in RowsOf(list)}
    IN  IF numbers = {} THEN STEP ELSE Max(numbers) + STEP

\* A number that does not fit the column fails the request.
_next_priority(p) ==
    /\ pc[p] = "reading"
    /\ LET x == Head(request[p].rules)
           n == NextNumber(ListOf[x])
       IN  IF n > Int4Max THEN Finish(p)
           ELSE Go(p, "writing", <<Insert(x, n)>>) /\ UNCHANGED <<written, request>>
    /\ UNCHANGED <<rows, overtaken, started, policy, notification, replay>>

\* Mistake: the PATCH writes every column as it has read it.
update_whole_row(p, x, priority, enabled) ==
    LET n == IF priority = Same THEN rows[x].priority ELSE priority
        e == IF enabled = Same THEN rows[x].enabled ELSE enabled
        columns == {c \in {"priority", "enabled"} :
                       IF c = "priority" THEN n # rows[x].priority ELSE e # rows[x].enabled}
    IN  /\ rows[x] # NoRow
        /\ Begin(p, Request("update", <<x>>, columns),
                 IF n = rows[x].priority THEN "writing" ELSE "checking",
                 <<Update(x, n, e)>>)

\* A PATCH writes the columns that differ from those it has read.
update_severity_rule(p, x, priority, enabled) ==
    LET n == IF priority = rows[x].priority THEN Same ELSE priority
        e == IF enabled = rows[x].enabled THEN Same ELSE enabled
        columns == {c \in {"priority", "enabled"} : IF c = "priority" THEN n # Same ELSE e # Same}
    IN  /\ rows[x] # NoRow
        /\ Begin(p, Request("update", <<x>>, columns),
                 IF n = Same THEN "writing" ELSE "checking",
                 IF columns = {} THEN <<>> ELSE <<Update(x, n, e)>>)

\* A number that another rule has refuses the request, before it takes any lock.
_assert_priority_free(p) ==
    /\ pc[p] = "checking"
    /\ LET new == Head(todo[p])
       IN  IF \E y \in RowsOf(ListOf[new.rule]) \ {new.rule} : rows[y].priority = new.priority
           THEN Finish(p)
           ELSE Go(p, "writing", todo[p]) /\ UNCHANGED <<written, request>>
    /\ UNCHANGED <<rows, overtaken, started, policy, notification, replay>>

delete_severity_rule(p, x) ==
    /\ rows[x] # NoRow
    /\ Begin(p, Request("delete", <<x>>, {}), "writing", <<Delete(x)>>)

\* The number of the i-th rule: first one nobody uses, then the final one.
Number(i, final) == IF final THEN i * STEP ELSE -i

Place(order, x) == CHOOSE i \in DOMAIN order : order[i] = x

\* Mistake: the statements come in the order the client gave.
Pass_as_given(order, final) ==
    [i \in DOMAIN order |-> Update(order[i], Number(i, final), Same)]

\* The place of a rule by its primary key.
Key == [x \in Rules |-> Place(Ids, x)]

\* A flush: one statement per rule, in the order of the primary keys.
Pass(order, final) ==
    LET ids == InOrder(ToSet(order), Key)
    IN  [i \in DOMAIN ids |-> Update(ids[i], Number(Place(order, ids[i]), final), Same)]

\* Mistake: one pass is enough.
Renumber_once(order) == Pass(order, TRUE)

\* Mistake: rules that have the number of their place are left alone.
Renumber_changed(order) ==
    SelectSeq(Pass(order, FALSE) \o Pass(order, TRUE),
              LAMBDA s : rows[s.rule].priority # Number(Place(order, s.rule), TRUE))

\* Two passes, because the index is checked row by row.
Renumber(order) == Pass(order, FALSE) \o Pass(order, TRUE)

\* order names every rule of the list once, or the request is refused.
reorder_severity_rules(p, order) ==
    Begin(p, Request("reorder", order, {"priority"}), "writing", Renumber(order))

\* The same handlers on the rules of a preset.
create_preset_rule(p, x, priority) == create_severity_rule(p, x, priority)
update_preset_rule(p, x, priority, enabled) == update_severity_rule(p, x, priority, enabled)
delete_preset_rule(p, x) == delete_severity_rule(p, x)
reorder_preset_rules(p, order) == reorder_severity_rules(p, order)

-----------------------------------------------------------------------------
(* The statements. *)

\* The row as the statement leaves it.
After(p, s) ==
    CASE s.kind = "insert" -> Row(s.rule, s.priority, s.enabled)
      [] s.kind = "delete" -> NoRow
      [] OTHER ->
           LET now == View(p, s.rule)
           IN  [now EXCEPT !.priority = IF s.priority = Same THEN @ ELSE s.priority,
                           !.enabled = IF s.enabled = Same THEN @ ELSE s.enabled]

\* An update of one row fails when the row is gone; a deletion, and an update of many
\* rows at once, do not notice.
write(p) ==
    /\ pc[p] = "writing" /\ todo[p] # <<>>
    /\ LET s == Head(todo[p])
           gone == s.kind # "insert" /\ View(p, s.rule) = NoRow
       IN  /\ RowHolders(p, s.rule) = {}
           /\ CASE gone /\ s.kind = "update" /\ Len(request[p].rules) = 1 -> Finish(p)
                [] gone /\ (s.kind # "update" \/ Len(request[p].rules) > 1) ->
                     Go(p, "writing", Tail(todo[p])) /\ UNCHANGED <<written, request>>
                [] OTHER ->
                     /\ written' = [written EXCEPT ![p][s.rule] = After(p, s)]
                     /\ IF s.priority = Same THEN Go(p, "writing", Tail(todo[p]))
                        ELSE Go(p, "indexing", todo[p])
                     /\ UNCHANGED request
    /\ UNCHANGED <<rows, overtaken, started, policy, notification, replay>>

\* A violation undoes the insertion of an automatic number, once, which is then computed
\* again; it fails every other request.
retry(p, s) ==
    /\ written' = [written EXCEPT ![p][s.rule] = Same]
    /\ request' = [request EXCEPT ![p].op = "append_again"]
    /\ Go(p, "reading", <<>>)

index(p) ==
    /\ pc[p] = "indexing"
    /\ LET s == Head(todo[p])
       IN  /\ IndexHolders(p, ListOf[s.rule], s.priority) = {}
           /\ CASE ~Taken(p, s.rule, s.priority) ->
                     Go(p, "writing", Tail(todo[p])) /\ UNCHANGED <<written, request>>
                [] Taken(p, s.rule, s.priority) /\ request[p].op = "append" -> retry(p, s)
                [] OTHER -> Finish(p)
    /\ UNCHANGED <<rows, overtaken, started, policy, notification, replay>>

commit(p) ==
    /\ pc[p] = "writing" /\ todo[p] = <<>>
    /\ rows' = [x \in Rules |-> View(p, x)]
    /\ overtaken' = [q \in Requests |->
                        IF q = p \/ pc[q] = "idle" THEN overtaken[q] ELSE overtaken[q] + 1]
    /\ Finish(p)
    /\ UNCHANGED <<started, policy, notification, replay>>

\* A client that goes away, a failure, the victim of a deadlock.
rollback(p) ==
    /\ pc[p] # "idle"
    /\ Finish(p)
    /\ UNCHANGED <<rows, overtaken, started, policy, notification, replay>>

-----------------------------------------------------------------------------
(* Ingestions and the replay.  They read the receiver's rules and those of the *)
(* presets in two statements, which may see different commits.                  *)

read_rules(p, op) ==
    Begin(p, [Request(op, <<>>, {}) EXCEPT !.own = load_own_rules(Existing, Receiver)],
          "presets", <<>>)

\* Mistake: the presets come first.
load_presets_first(p) == load_preset_rules(Existing, Presets) \o request[p].own

load_evaluation_chain(p) == request[p].own \o load_preset_rules(Existing, Presets)

\* What is stored: the headers of the message that were understood, and the decision.
\* chain is history.
prepare_notification(p, message) ==
    LET exit_code == parse_exit_code(message.exit_code)
        duration_ms == parse_duration_ms(message.duration_ms)
    IN  /\ pc[p] = "presets" /\ request[p].op = "ingest"
        /\ notification' =
             [message |-> [message EXCEPT !.exit_code = exit_code, !.duration_ms = duration_ms],
              resolution |-> resolve_severity(message.header, message.query, exit_code,
                                 duration_ms, policy, load_evaluation_chain(p), message.content),
              chain |-> load_evaluation_chain(p)]
        /\ Finish(p)
        /\ UNCHANGED <<rows, overtaken, started, policy, replay>>

\* The stored headers, the policy of now and the rules of now.  A severity the client
\* chose is passed again.
replay_with(p, explicit) ==
    LET stored == notification.message
        again == resolve_severity(explicit, Null, stored.exit_code, stored.duration_ms, policy,
                                  load_evaluation_chain(p), stored.content)
    IN  /\ pc[p] = "presets" /\ request[p].op = "replay"
        /\ replay' = IF notification = Null THEN Null
                     ELSE [changed |-> again.severity # notification.resolution.severity,
                           same |-> load_evaluation_chain(p) = notification.chain]
        /\ Finish(p)
        /\ UNCHANGED <<rows, overtaken, started, policy, notification>>

\* Mistake: the replay forgets the severity the client chose.
replay_without_explicit(p) == replay_with(p, Null)

replay_severity_rules(p) ==
    replay_with(p, IF notification # Null /\ notification.resolution.source = "explicit"
                   THEN notification.resolution.severity ELSE Null)

-----------------------------------------------------------------------------
Init ==
    /\ rows = InitialRows
    /\ written = [p \in Requests |-> [x \in Rules |-> Same]]
    /\ request = [p \in Requests |-> NoRequest]
    /\ pc = [p \in Requests |-> "idle"]
    /\ todo = [p \in Requests |-> <<>>]
    /\ overtaken = [p \in Requests |-> 0]
    /\ started = 0
    /\ policy \in Policies
    /\ notification = Null
    /\ replay = Null

Own == {x \in Rules : ListOf[x] = Receiver}

OnRules(p) ==
    \E x \in Own :
        \/ \E n \in Numbers \cup {Same} : create_severity_rule(p, x, n)
        \/ \E n \in Numbers \cup {Same}, e \in BOOLEAN \cup {Same} :
               update_severity_rule(p, x, n, e)
        \/ delete_severity_rule(p, x)

OnPresetRules(p) ==
    \E x \in Rules \ Own :
        \/ \E n \in Numbers \cup {Same} : create_preset_rule(p, x, n)
        \/ \E n \in Numbers \cup {Same}, e \in BOOLEAN \cup {Same} :
               update_preset_rule(p, x, n, e)
        \/ delete_preset_rule(p, x)

Reordering(p) ==
    \/ \E order \in SetToSeqs(RowsOf(Receiver)) : order # <<>> /\ reorder_severity_rules(p, order)
    \/ \E list \in ToSet(Presets) : \E order \in SetToSeqs(RowsOf(list)) :
           order # <<>> /\ reorder_preset_rules(p, order)

Statement(p) == _next_priority(p) \/ _assert_priority_free(p) \/ write(p) \/ index(p)

Reading(p) ==
    \/ \E op \in {"ingest", "replay"} : read_rules(p, op)
    \/ \E message \in Messages : prepare_notification(p, message)
    \/ replay_severity_rules(p)

Next ==
    \E p \in Requests :
        OnRules(p) \/ OnPresetRules(p) \/ Reordering(p) \/ Statement(p) \/ Reading(p)
        \/ commit(p) \/ rollback(p)

Spec == Init /\ [][Next]_vars

-----------------------------------------------------------------------------
(* Properties. *)

\* The variables have their types, and no list has a number twice.
TypeOK ==
    /\ \A x \in Rules : rows[x] # NoRow => rows[x] = Row(x, rows[x].priority, rows[x].enabled)
    /\ \A x, y \in Rules : rows[x] # NoRow /\ rows[y] # NoRow /\ x # y /\ ListOf[x] = ListOf[y]
                              => rows[x].priority # rows[y].priority
    /\ \A p \in Requests : pc[p] \in {"idle", "reading", "checking", "writing", "indexing",
                                      "presets"}
    /\ \A p \in Requests : pc[p] = "idle" <=> request[p] = NoRequest
    /\ started \in 0 .. MaxRequests

\* A renumbering that commits leaves its rules in the order it was given, whatever other
\* requests did to them meanwhile.
OrderAsGiven ==
    [][\A p \in Requests :
         request[p] # NoRequest /\ request[p].op = "reorder" /\ commit(p) =>
           LET order == request[p].rules
           IN  \A i, j \in DOMAIN order :
                 i < j /\ rows'[order[i]] # NoRow /\ rows'[order[j]] # NoRow
                   => rows'[order[i]].priority < rows'[order[j]].priority]_vars

\* The unique index refuses nobody for a number its author did not choose.  A renumbering
\* never meets a rule of its own: this is what its two passes are for.  A rule to be
\* appended is refused only when two other requests have committed since it arrived.
NumberRefusalsHaveACause ==
    \A p \in {q \in Requests : pc[q] = "indexing"} :
        LET x == Head(todo[p]).rule
            n == Head(todo[p]).priority
        IN  /\ request[p].op = "reorder" =>
                  \A y \in ToSet(request[p].rules) \ {x} :
                      View(p, y) # NoRow => View(p, y).priority # n
            /\ request[p].op = "append_again" /\ WaitsFor(p) = {} /\ Taken(p, x, n)
                  => overtaken[p] >= 2

\* Creations, deletions and renumberings never wait for one another in a circle, if the
\* renumberings name the same rules.  Those that do not, because a rule came in between,
\* may: they use the same negative numbers.
ListsNeverDeadlock ==
    ~ \E circle \in SUBSET {p \in Requests : request[p] # NoRequest} :
          /\ circle # {} /\ \A p \in circle : WaitsFor(p) \cap circle # {}
          /\ \A p \in circle : request[p].op # "update"
          /\ \A p, q \in circle : request[p].op = "reorder" /\ request[q].op = "reorder"
                                     => ToSet(request[p].rules) = ToSet(request[q].rules)

\* A commit changes only the columns its request asked for: two editors of one rule, or
\* an editor and a renumbering, do not undo each other.
EditsKeepEachOther ==
    [][\A p \in Requests : commit(p) =>
         \A x \in Rules : rows[x] # NoRow /\ rows'[x] # NoRow =>
           \A c \in {"priority", "enabled"} :
             rows'[x][c] # rows[x][c]
               => x \in ToSet(request[p].rules) /\ c \in request[p].columns]_vars

\* The rule of the tables x comes before y for the receiver.
Precedes(x, y) ==
    IF ListOf[x] = ListOf[y] THEN rows[x].priority < rows[y].priority
    ELSE \/ ListOf[x] = Receiver
         \/ \E i, j \in DOMAIN Presets : i < j /\ Presets[i] = ListOf[x] /\ Presets[j] = ListOf[y]

\* What the message says of its execution, by the policy.
Facts(message) ==
    (IF policy.exit_code_severity # Null /\ message.exit_code \notin {Null, 0}
     THEN {policy.exit_code_severity} ELSE {}) \cup
    (IF /\ Null \notin {policy.duration_severity, policy.duration_threshold_seconds,
                        message.duration_ms}
        /\ message.duration_ms > 1000 * policy.duration_threshold_seconds
     THEN {policy.duration_severity} ELSE {})

\* An ingestion that no commit overtakes is decided, when the client names no severity, by
\* the worst fact of its execution, which neither the other fact nor a rule hides; then by
\* the first rule of the tables that matches; and by the default only when none does.  A
\* duration equal to the threshold is no fact.
DecidedInOrder ==
    [][\A p \in Requests, message \in Messages :
         overtaken[p] = 0 /\ prepare_notification(p, message) =>
           LET decided == notification'.resolution
               facts == Facts(notification'.message)
               matching == {x \in message.content : rows[x] # NoRow /\ rows[x].enabled}
           IN  decided.source = "explicit" \/
                 /\ facts # {} <=> decided.source \in {"exit_code", "duration"}
                 /\ facts # {} =>
                      /\ decided.severity \in facts
                      /\ \A f \in facts : SEVERITY_ORDER[f] <= SEVERITY_ORDER[decided.severity]
                 /\ decided.source = "receiver_default" => matching = {}
                 /\ decided.source \in {"rule", "preset_rule"} =>
                      /\ decided.rule \in matching
                      /\ \A x \in matching \ {decided.rule} : Precedes(decided.rule, x)]_vars

\* The replay shows a change only when the rules have changed.
ReplayIsStable == replay # Null /\ replay.same => ~replay.changed
=============================================================================
