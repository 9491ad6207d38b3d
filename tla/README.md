# A TLA+ development of NotifyHub

NotifyHub receives notifications from scripts and services over HTTP
(`POST /ingest/{slug}`), keeps them in PostgreSQL (large payloads in an S3 bucket),
forwards them to Slack and Google Chat through a delivery outbox worked by Celery,
and watches that the sends that should come do come. This directory holds the
TLA+ models of the parts of the backend where steps of several actors meet, the
TLC configurations that check them and the proofs TLAPS checks.

Paths below are those of the repository; `app/` is `backend/app/`. The file
`PROJECT.json` maps every definition to the lines it models.

## 1. Inventory

### 1.1 Components

| Component | State it keeps | Operations | Code |
|---|---|---|---|
| Delivery outbox | rows of `deliveries`, messages in the broker, after-commit hooks | dispatch in three phases, reconcile, retry by hand, purge | `app/tasks/delivery.py`, `app/tasks/maintenance.py:213`, `app/tasks/enqueue.py` |
| Ingestion idempotency | one Redis key per (receiver, `X-Request-Id`) | reserve, poll, take over, store, release | `app/services/idempotency.py`, `app/api/ingest.py:225` |
| Ingestion pipeline | none of its own | reserve, prepare (transaction 1), upload, persist (transaction 2), answer | `app/api/ingest.py`, `app/services/ingest.py` |
| Object storage | bucket, `pending_object_deletions` | upload, trigger on delete, drain, orphan purge | `app/services/storage.py`, `app/tasks/maintenance.py:300` |
| Surveillance | `expected_*`, `missing_alerted_at`, heartbeats of `receivers` | send, PATCH, `check_expected_schedules` | `app/tasks/maintenance.py:490`, `app/api/v1/receivers.py:60` |
| Users, roles, sessions | `users`, `refresh_tokens`, access tokens | login, refresh, logout, PATCH and DELETE of users, cleanup | `app/api/v1/auth.py`, `app/api/v1/users.py`, `app/services/identity.py` |
| Invitations, registration | `invitations`, `users`, `tenants` | invite, accept, revoke, register | `app/api/v1/auth.py:520` |
| Groups and memberships | `groups`, `user_group_memberships` | CRUD, replacement of the groups of a user, access by group | `app/api/v1/groups.py`, `app/api/v1/users.py:120`, `app/services/authz.py` |
| Channels, bindings, routing | `delivery_channels`, bindings and their overrides | CRUD, choice of the channels by severity | `app/api/v1/channels.py`, `app/services/outbound_resolver.py` |
| Notifications API | `notifications`, with their status and verification | lists page by page, marks one by one and in bulk, deletion | `app/api/v1/notifications.py` |
| Severity resolution | none (a function) | explicit value, exit code, rules, duration threshold | `app/services/severity.py` |
| Rules and presets | `severity_rules`, `severity_presets`, `severity_preset_rules`, `receiver_severity_presets` | priorities, renumbering, catalogue, reset, the list of a receiver | `app/api/v1/receivers.py:502`, `app/api/v1/presets.py`, `app/services/severity_presets.py` |
| Quotas | the limits of a tenant, the caps of its receivers | check and insert, change of a limit, under the tenant's lock | `app/services/quota.py`, `app/api/v1/tenant.py` |
| Rate limits | one Redis counter per window | one Lua script | `app/services/ratelimit.py` |
| Retention | expired rows of every table | purges in batches | `app/tasks/maintenance.py` |
| Audit log | `audit_events` | insert with the change it tells of, list, export | `app/services/audit.py`, `app/api/v1/audit.py` |
| Tenant isolation | PostgreSQL policies | row level security | `alembic/versions/0003_rls.py`, `app/db/session.py` |
| Statistics, formatters, CLI, wrapper script, dashboard, deployment | — | — | `app/api/v1/stats.py`, `app/outbound/formatters`, `app/cli.py`, `scripts/`, `frontend/` |

### 1.2 How they interact

* The **ingestion pipeline** is the centre: it reserves the id in Redis, opens a
  transaction, uploads, opens a second transaction that writes the notification, its
  `deliveries` rows and the receiver's heartbeat, and after the commit enqueues one
  message per delivery. Idempotency, object storage, surveillance and outbox each see
  a part of this sequence, and each is modelled with that part in the code's order.
* The **outbox** and the API meet on rows of `deliveries` and on channels; workers and
  reconcile meet on `locked_at`.
* The **notifications API** and the retention jobs delete notifications: rows of
  `deliveries` go by cascade (outbox) and a trigger queues the object (storage).
* The **job of the surveillance** and the sends meet on the receiver's row; the PATCH
  of a receiver reads it without a lock.
* **Sessions and administration** meet on the user's row lock; administration and every
  insert meet on the tenant's row.
* The **configuration of channels** and the ingestion meet on three tables that the
  ingestion reads in three statements, without a lock (`outbound_resolver.py`).
* **Quotas** are sums over rows that other transactions insert: sends, the job of the
  surveillance, the settings of the tenant and the caps of receivers meet on the lock of
  the tenant's row.
* **Invitations, accounts and groups** meet on unique constraints and foreign keys, and
  so do **presets** with the receivers that apply them.

### 1.3 What is hard, and what makes each part correct

| Component | Hard behaviour | What must hold |
|---|---|---|
| Outbox | lost, duplicated, late messages; workers that die or wake up after ten minutes; reconcile and retry in between | one owner per row, bounded attempts, backoff, final outcomes, no second POST without a reason, every row settles |
| Idempotency | an owner that dies or outlives its key, waiters that race for it, commits of unknown outcome | no second write in the window, replays of what exists, ids that do not stay blocked |
| Object storage | no transaction spans bucket and database; S3 outages; listing and keys read at different times | no live payload deleted, no deletion lost, no object leaked |
| Surveillance | commits out of order, overlapping runs, failing tenants, PATCHes while the job runs | latest heartbeat, one alarm per absence, fresh watches, every absence and return reported |
| Sessions | rotation against logout, disabling and reuse; a slow hash between read and lock | closed sessions stay closed, one live token per family, none for the disabled |
| Rules | lists renumbered, appended to and edited at once, in several statements; two tables read as one chain | order as given, no collision of a renumbering with itself, edits kept, the first rule decides |
| Administration | decisions on rows read without a lock; locks of audit events | an active owner remains, no deadlock for sessions |
| Routing | three reads while rows and channels are changed, saved twice or deleted in cascade | one configuration decides, a refusal has a cause, an override is complete |
| Quotas | sums over rows being inserted, comparisons between two tables, `FOR UPDATE` against key-share locks | limits and caps hold, no deadlock |
| Notifications, audit | pages over rows that come, change and go; bulk updates that wait | every row listed once, the trail tells the state |
| Invitations, groups | acceptance against acceptance, revocation and administration; sets of rows replaced at once | one account per invitation, the groups asked for |
| Presets | a catalogue synchronised twice, rules and lists replaced at once | no needless refusal, the rows asked for |

The hazards, each at its line and with the properties that would catch it, are in
`PROJECT.json`.

## 2. Modules

| Module | What it is |
|---|---|
| `DeliveryLifecycle` | what a delivery promises: the abstract state machine of one row |
| `Outbox` | the delivery outbox; implements `DeliveryLifecycle` |
| `Idempotency` | requests with one `X-Request-Id` and their Redis key |
| `ObjectStorage` | PUT before commit, the queue of deletions and its two jobs |
| `Surveillance` | sends, PATCHes of receivers and the job |
| `Accounts` | users, refresh tokens and the row locks of PostgreSQL |
| `Severity` | how a message gets its severity: pure operators |
| `Rules` | the lists of rules, their editors, ingestions and replays; extends `Severity` |
| `Routing` | channels, bindings and overrides, their editors, and the ingestion that chooses by them |
| `Quota` | the limits of a tenant and every row lock taken around them |
| `Inbox` | marks, bulk reads, deletions and retention of notifications; lists and audit, page by page |
| `Directory` | invitations, accounts, groups and the users associated to each |
| `Presets` | the presets of a tenant, the catalogue, and the list a receiver applies |
| `Api` | these five, one at a time, and their properties together |
| `MC…` | give the constants of a module their values for TLC |
| `…Proofs` | theorems about a module, with their proofs |

In every model a database transaction that holds its row locks from its first read to
its commit is one step, one Redis command or Lua script is one step, one call to S3 or
to a webhook is one step, and so is one lock or one statement where their order is the question
(`Accounts`, `Rules` and the five modules of the API). Everything else may come between two steps.
Actions carry the name of the function they model. Definitions under a comment "Mistake:" are not
used by the specification: each is a plausible bug, and substituting it shows that a property
notices (`mutants` in `PROJECT.json`).

### 2.1 `Outbox` and `DeliveryLifecycle`

A delivery is a pair (notification, channel), which is a unique key of the table.
`status`, `attempts`, `next_attempt_at`, `locked_at`, `sent_at`, `last_error` are the
columns. A worker has a program counter: `dispatch_phase1` claims the row or buries it
when the channel is unusable, `send_webhook_sync` posts, `dispatch_phase3` writes the
outcome if the row is still its own (`Owns`: same `locked_at`, still `sending`).
`reconcile_deliveries` is three steps: it selects due and stuck rows, reclaims the
stuck ones with a conditional UPDATE, and enqueues. Hooks run after the commit and may
be lost with the process. The broker holds counts of messages per delivery, loses them
and delivers them twice. The API creates rows with the notification, disables, deletes
and corrupts channels, retries dead rows, deletes notifications; `purge_deliveries`
removes old rows.

Left out: the response code and `last_success_at`; 3xx answers count as unreachable;
a message skipped because the row is locked (`SKIP LOCKED`) is the loss of a message;
which channels a notification goes to is a free choice of a set.

### 2.2 `Idempotency`

`key`, `owner`, `ttl` are the value in Redis. A request reserves with `SET NX EX`, or
waits, polling until its deadline, then replays, conflicts, or takes over. `release`
and `store_response` are the compare-and-set scripts. A request may die anywhere; Redis
may apply a command and lose the answer; a commit may fail, or succeed and be reported
as failed (`unsure`). The history variables `age` and `near` say which requests
reserved less than a window apart. Requests without the header are not deduplicated by
the code and not modelled. Different ids share nothing, so one key is enough.

### 2.3 `ObjectStorage`

`request` follows one ingestion of a large payload, `object` and `age` the bucket,
`pending` the queue with its attempts. A run of the drain takes rows one at a time,
deletes the object, then commits or writes the failure; two runs may overlap. The
purge lists old objects, reads the known keys tenant by tenant, and deletes the rest.
`GraceAssumption` says that a request ends within the 24 hours of grace; the code has no
timeout that enforces it, but every call it makes has one of seconds. The order in
which the drain takes its rows is arbitrary, which includes the code's.

### 2.4 `Surveillance`

A send takes `received_at` and commits later; the heartbeat is written with `GREATEST`.
A PATCH reads the receiver without a lock and commits the columns it changed. A run of
the job takes `now`, then opens one transaction per tenant, which may fail. The five
`expected_*` columns are one policy: an interval, or a set of instants for a cron, which
may have none (an uncomputable schedule, skipped by the job). Rows the job skips
because a send has them locked (`SKIP LOCKED`) are the set `Contended`. Texts of the
alarms, deletion of receivers, and the suspension of a tenant (which only SQL does) are
left out. Of two PATCHes that overlap the second may leave a watch with an old alarm or an
old `expected_since`: the ORM writes only the columns that differ from what was read, so a
reset to the value read is not written, although notifyhub-spec.md:232 has it at every
activation. `WatchStartsFresh` therefore speaks of PATCHes that no other has overtaken.

### 2.5 `Accounts`

A request begins by reading without a lock (`login`, `refresh`, `logout`,
`update_user`, `remove_user`), takes its row locks one at a time (`acquire`,
`assert_not_last_owner`), reads again what it decides on (`read_…`), and commits or
rolls back. `left` and `held` are the locks it has yet to take and has; modes and
conflicts are PostgreSQL's. The audit event of an administration request takes the
key-share locks of its foreign keys, the actor's among them. `closed` (families that a
committed request closed) and `stale` (an active owner was taken by a request that had
read him as something else) are history variables. A refused or aborted request is a
`rollback`, which may come at any time, a deadlock's victim included. An access
token carries the role it was issued with until it expires. The role `member` has the
rights of `viewer` here and is not distinguished.

Left out: registration and the suspension of a tenant (a rollback). Creation of users,
invitations and the groups of a user are in `Directory`. Tokens expire in any order.

### 2.6 `Severity` and `Rules`

`Severity` translates the headers, the outcome of an execution and the chain of rules as
operators without state. A message is the set of the rules whose pattern it matches;
a header is a value of its type, a number too large for its column, or a word.

In `Rules` a transaction has what it has `written` over the committed `rows`, and
`todo`, the statements it has yet to execute. `write` takes the row, `index` enters the
number in the unique index after waiting for whoever enters or frees it; a violation
fails the request, except that a rule to be appended computes its number again once.
A PATCH writes only the columns that differ from those it has read. A renumbering is two
flushes of one statement per rule, in the order of the primary keys (`Key`), which SQLAlchemy
chooses. `InOrder` is an ORDER BY on distinct keys. An update whose row is gone fails when it is alone in its flush (the row count
is checked) and goes unnoticed among several. Receivers and presets have the same
handlers on two tables; the model shares their definitions. An ingestion reads the
receiver's rules and those of the presets in two statements and stores what it decided;
a replay reads them again. `overtaken` (commits of others since a request arrived) and
the chain in `notification` are history variables.

Left out: patterns and severities that change (columns like `enabled`), the presets
themselves (in `Presets`), the order `(priority, id)` of equal
numbers, which the unique key excludes, changes of the receiver's columns, and payloads
on object storage, of which the replay reads only the preview.

### 2.7 `Routing`

The tables of channels, bindings and overrides, for one group and one receiver. A row
has the number of the request that inserted it; an UPDATE names the row by that id and
writes only the columns that differ from those read, as SQLAlchemy does. `select_target_channels`
is the rule. An ingestion reads bindings, overrides, then channels
(`create_deliveries_for_notification`) and inserts its deliveries, which fails when a channel
has gone; saving a pair that another has just saved falls back on its row (`look_again`).
`overtaken`, the commits of others since a request arrived, is a history variable. Left out: the
webhook's text, the test message, names of channels, and several groups and receivers, which share
nothing but channels.

### 2.8 `Quota`

A transaction is a list of statements, `todo`: row locks with PostgreSQL's modes, and the
comparisons made between them. `ingest` is the whole path of a send: the limits read
without a lock, the lock `FOR UPDATE` with count and sum if there is a limit, the key-share
locks of the insertion and the heartbeat; a body that is not stored inline passes it
twice, around its upload. `update_tenant`, `create_receiver`, `update_receiver_cap`, the
writes that do not change a cap, and the job with its `SKIP LOCKED` are the others. The
uploaded object itself, and the limit on the rate of requests, are elsewhere or left out.

### 2.9 `Inbox`

Writers hold the rows they have written; `bulk_scan` finds the unread ones, and the update
waits for each and looks at it again. Notifications arrive late with an earlier
`received_at`, and the retention removes them. `listing` is somebody who turns the pages of
one list to the end: `steady` are the rows that every page could have shown. The groups of
a member are read again for every page. An export counts first and stops at
`EXPORT_MAX_ROWS`. Left out: searches in texts, the payload's download, the count of
unread ones, and the `read_by` that becomes NULL when its user is deleted.

### 2.10 `Directory`

Rows are reached by a key. An acceptance locks its invitation; everything else checks
first (`refused`) and relies on the unique constraints and the foreign keys when it
writes (`conflict`, or `refused` when its row has gone). The replacement of the groups of a user
deletes the rows it finds and inserts the others one by one. Deletions cascade. Roles and
passwords are in `Accounts`.

### 2.11 `Presets`

Presets, their rules and the list of one receiver, with the unique keys on names, on keys of
the catalogue, on priorities and on positions. `sync_builtin_presets` takes the lock of
the tenant and installs what is missing; a reset and a replacement of the list are a DELETE
of what they find and insertions. How rules are numbered, and their deletion, are in
`Rules`. Which presets of the catalogue are missing is read once, under the lock, and each is
then installed or skipped in turn. `contested` remembers the commits that concern a request, and
the commit of a replacement passes on that a deletion had overtaken it: three replacements, the
second mixed with the first because a deletion had emptied a position, may leave to the third a
list that is neither its own nor another's. The exception in `PresetsAsAsked` for
`delete_preset` needs four requests, or five presets, to be reached; both were confirmed on
such instances, which are not among the runs.

### 2.12 `Api` and `MCApi`

The five modules share variables by name (`rows`, `written`, `request`, `pc`, `todo`,
`started`) and `Api` uses them one at a time: `scope` says which, is chosen at the start and
never changes. This is five state spaces side by side, not a composition: the modules have no
step in common that is not already an action of one of them. `MCApi` gives the constants of
`Api` few values, and splits the inbox in three parts, each with a
constraint on what the others explore: `marks` has every pair of writers and no listing,
`pages` every list of notifications and deliveries with one bulk read, `events` the lists
of the audit with marks of one notification and a retention that begins after the list. So
no run has two writers together with a listing; a list sees of them only committed
rows, and each commit changes what one writer changed. The theorems of section 4 about the
inbox know no parts: they are about `Api`.


## 3. Runs

| Run | Question | Instance and bounds |
|---|---|---|
| `outbox` | all safety of the outbox, the refinement of `DeliveryLifecycle`, and whether every delivery settles once faults stop | one row, two workers, 2 attempts, clock to 2, one copy per message, faults before 1 |
| `idempotency` | duplicates, replays, who writes the key, poisoned ids, unanswered waiters | three requests, window 3, wait 1 |
| `idempotency_unsure` | **violation** (finding 1) | two requests |
| `object_storage` | payloads kept, deletions kept, leaks | two objects in two tenants, two drains, batch 1, 1 attempt, one fault |
| `surveillance` | heartbeats, one alarm per absence, fresh watches | one receiver, two sends, two PATCHes, two runs of the job, three of them at once, clock to 3 |
| `surveillance_live` | absences and returns reported | two receivers, one with an uncomputable schedule, one send, one fault, clock to 7 |
| `surveillance_late` | **violation** (finding 2) | one receiver, one send |
| `accounts` | closed sessions, rotation, disabled users, owners, deadlock | two owners, three tokens, every operation, two requests in flight, four in all |
| `accounts_ownerless` | **violation** (finding 3) | an owner and an administrator |
| `rules` | order, numbers, deadlocks, lost edits, the rule that decides, replays | two rules of a receiver, two to be created, one of a preset, two requests in flight, three in all |
| `routing_override` | **violation** (finding 4) | one override, PUTs of it, two in flight of four |
| `api` | routing, quotas, inbox, directory, presets: the properties of 2.7 to 2.11 | each with two requests in flight of three (the marks of notifications two in all), over one row that exists and one to be created of most kinds |

Why these bounds are enough. Rows of the outbox do not influence each other (a worker,
a message and a lock belong to one row; a channel is read by all), so one row and two
workers, one of which may be reclaimed, show every race on it. Two attempts give the
three cases first, last and exhausted, and a clock to 2 is one backoff, one expired
lock and one step after the faults have stopped. In `Idempotency` a duplicate needs an
owner and a successor that races a waiter for the key: three requests. The window is
longer than the wait, as in the code. In `ObjectStorage` two drains and two objects of
two tenants give overlap, a batch that ends early and a purge that has read the keys of
one tenant and not of the other; with one attempt the first failure is also the
exhausted one, after which only the purge can remove the object, while a drain that dies
leaves its row to be taken again. In `Surveillance` two sends commit in either
order, two runs overlap, a PATCH turns a watch off and another on, one after the other or
overlapping; three under way at once (`ThreeAtOnce`) leave out only that four things wait
together, and the theorems of section 4 have no such bound; clock 7 of
`surveillance_live` has an alarm, a return and a second alarm. In `Accounts` a rotation
needs two requests with one token and a third that closes the session: four requests, of
which two are in flight. In `Rules` a number is computed twice only if two other requests
commit in between, which with two in flight takes three in all; a renumbering can meet a
rule it does not know with one creation before its first statement; the numbers 20 and
50 are the one a renumbering is about to give and the one a second attempt computes;
`Int4Max` is 50, so that the largest number is also reached. The messages put each header
at each side of its limits. Larger instances of the others are covered by the theorems of
section 4, which hold for any values of the constants. Each bound's constant is named in
its module (`Horizon`, `MaxMessages`, `MaxFaults`, `MaxEdits`, `MaxRequests`…).

In `api`, two requests in flight are the two sides of a race, and the third is the one
that commits in between or that comes back to what they left. Two channels, receivers,
invitations, groups and names, and three presets, of which some exist and some are to be
created, make every insertion meet its duplicate and every deletion its user. The limits
are one or two notifications a day and two or three bytes, so that the last send that fits and
the first that does not both come; pages hold one row, the export two of three events.
Presets are interchangeable with presets yet to be created, and so are requests and users.
The override of `routing_override` needs four PUTs: a first race of two, and a second.

`CHECK_DEADLOCK FALSE` is given only for `Accounts`, `Rules`, `MCApi` and `MCRouting`, where the
bound on requests may leave nothing to do (a deadlock of the database ends by rollback, and
has properties of its own); the others stutter on through their clock or have a step for
idleness.

### 3.1 Fairness

* `Outbox`: the clock, the hooks, the reconcile job and the two later phases of a worker
  are weakly fair (processes run; the beat schedules the job); taking a message is
  strongly fair per row, because a free worker comes and goes and Celery's queue is
  first in, first out. Faults are never fair and stop at `FaultsUntil`: with crashes for
  ever nothing is delivered. Users, the API and the purge are not fair.
* `Idempotency`: weak fairness of the clock and of each arrived request's own progress
  (polling, taking over, the transactions, the two scripts). Failures of a step and
  deaths are never fair: nothing relies on them to come.
* `ObjectStorage`: the clock, the recovery of S3, the jobs and requests under way.
* `Surveillance`: the clock, the runs of the job (the beat), the commit of sends and
  PATCHes under way; starting a send or a PATCH is the user's choice.
* `Accounts`, `Rules` and the five modules of the API have no liveness property and no
  fairness: a request ends by itself or by rollback, and nothing has to come about later.

### 3.2 Findings

1. **An unsure commit releases the key** (`idempotency_unsure`,
   `app/api/ingest.py:318`). The handler that releases the reservation also encloses
   the commit: a commit that succeeded and is reported as failed lets the client's
   retry write again at once. The specification (6.3) promises no write in the window.
   `NoDuplicate` is what does hold.
2. **A send that commits after the alarm does not re-arm** (`surveillance_late`,
   `app/tasks/maintenance.py:561`). A send received before the job's `now` and
   committed after its transaction carries the earlier instant; the alarm stays open
   until another send.
3. **The last owner can be demoted** (`accounts_ownerless`, `app/api/v1/users.py:285`).
   The check is made or not according to a row read without a lock. `OwnerRemains` is
   what does hold: with that one exception, recorded by `stale`, an owner remains.
4. **An override without a threshold** (`routing_override`,
   `app/services/outbound_resolver.py:41`). Each PUT of an override validates what it has
   read and writes only the columns that differ; two of them that overlap can leave a
   muted override with a threshold, and a second race on that row an override that
   sets a threshold and has none, on which every ingestion of the receiver fails.

Noticed by `ListsNeverDeadlock`, which excludes it: two renumberings of one list whose
rules differ, because one was created between their reads, can deadlock
(`app/api/v1/receivers.py:671`). Both number from -1 downwards, so one that begins with
the new rule takes a negative number the other is waiting to enter. PostgreSQL aborts
one of them and nothing is lost; no document promises otherwise. A PATCH that changes a
number is excluded for the same reason: it holds its row while it waits for the index.

What properties exclude, because it happens and no document promises otherwise:

* Two administrators who remove each other deadlock (`app/api/v1/users.py:336`): each holds
  the row the other's audit event references. `SessionsNeverDeadlock` is what holds.
* A write of a receiver without a change of cap locks the receiver before the tenant, a
  send with a quota the tenant before the receiver: `SendsNeverDeadlock` excludes circles
  with such a write. PostgreSQL aborts one of the two.
* Two PATCHes of the groups of one user may leave the union of both sets
  (`app/api/v1/users.py:132`), and one that names a group twice ends in a 409:
  `UncontestedGroups` says what holds without such a race.
* A PUT of an empty list of presets that races another leaves the other's list
  (`PresetsAsAsked` allows it: nothing the second inserts meets a unique key).
* An ingestion that two commits overtake may use a mixture of configurations, and
  the deletion of a channel may make one in flight fail: `RoutedByOneConfiguration` and
  `RefusalsHaveACause` say what holds.
* A revocation that races an acceptance answers 204 and removes an invitation that has
  become an account, where docs/plan_NotifyHub/phase_09.md:61 keeps accepted invitations as
  a trace. The account remains.
* `occurred_at` of an audit event is the beginning of its transaction, so an export that
  stops at `EXPORT_MAX_ROWS` may miss an old event committed after the count, in spite of
  the comment in `app/api/v1/audit.py`; `ListedOnce` excludes that one case.
* A group is deleted on the confirmation of a name that another has changed meanwhile.
* docs/OPERAZIONI.md:286 says a PATCH of the policy is enough to set `expected_since`
  again, while `_apply_expected_policy` (`app/api/v1/receivers.py:156`) sets it only when
  the policy was off (not modelled).


## 4. Proofs

Eight modules hold the theorems. Each proves an inductive invariant for every value of
the constants, one lemma per group of actions, and reads the theorems off it. TLC
checks the same properties on the instances of section 3.

**`OutboxProofs`** (constants: at least one attempt, positive delays, any numbers of
notifications, channels and workers). `TypeCorrect`, `OwnerIsUnique` (`SoleOwner`),
`AttemptsBounded`, `BackoffIsRespected`, `DuplicatesAreExcused` (`NoSpuriousDuplicate`),
`OutcomesAreFinal`, and `OutboxRefinesLifecycle`: the outbox implements
`DeliveryLifecycle`. Types alone are not inductive: an attempt count stays in bounds
because the count a worker carries is the row's, which holds because it is the only
owner. `WorkerInv` states why ownership can be told from `locked_at`: a worker that lost
its row holds an instant strictly in the past, and a later claim writes the present.
`RowInv` states what a row's status says of its attempts and times. For duplicates a
second invariant, `Unexcused`, is needed: a row that nothing excuses has at most one
worker, and the webhook took the message only if that worker knows it or the row
says so. The refinement is one step lemma (`NextRefines`) over all actions.

**`IdempotencyProofs`** (a positive window, any requests). `IdempotencyTypes`,
`DuplicatesAreAWindowApart` (`NoDuplicate`), `AnswersAreBacked`, `OneWriterPerValue`
(`KeyHasOneWriter`). `HoldInv` is the core: while a request within its window may still
write, the key is its own and lives at least as long as the rest of its window. `NearInv`
says that whoever reserved before another within the window has given up, and `KeyInv`
that a saved body belongs to a request that committed.

**`ObjectStorageProofs`** (a request ends within the grace). `ObjectStorageTypes`,
`PayloadsAreKept`, `DeletionsAreNotForgotten`. `RequestInv` ties an object's age to
its request, `QueueInv` says that queued keys belong to deleted notifications and no two
drains hold one row, and `PurgeInv` that what the purge believes to be an orphan is
useless now and for ever, although the keys were read at different times.

**`SurveillanceProofs`**. `SurveillanceTypes`; `HeartbeatsAreLatest`, inductive given the
types; `AlarmsAreOnePerAbsence`, by `AlarmsLinked`: the last alarm is either still open
or closed by a send received after it; `WatchesStartFresh` (`WatchStartsFresh`), from the
types alone: of all the steps only the end of a PATCH makes a watch of what was none.

**`AccountsProofs`** (an owner at the start, finitely many users). `AccountsTypes`,
`ClosedSessionsStayClosed`, `RotationIsSafe` (`OneLiveToken`),
`DisabledUsersHaveNoSession`, `OwnersRemain`, `SessionsAreFreeOfDeadlock`
(`SessionsNeverDeadlock`). What a request read under its locks
stays true until it commits, because whoever could change it needs a conflicting lock.
`LockInv` says that locks exclude one another, `RequestInv` which locks a request
holds or is still to take according to what it will do, `PlanInv` what its plan is
still entitled to, and `OwnerInv` that past the check of the last owner another active owner
exists. A commit is then shown to leave every other request's `PlanInv` and `OwnerInv`
alone (`WriteKeepsOthers` and the lemmas above it). The absence of deadlock has an invariant
of its own, `OrderInv`: who needs the tenant's row exclusively takes it first, and a session
takes a share of the tenant before its user. In a smallest circle each member is waited for
by another, and one of them has taken nothing that anybody could wait for.

**`RulesProofs`** (`RulesAssumption`: finitely many rules with their primary keys, numbers
that are not negative, and rows that respect the unique key at the start; `NamesAssumption`:
the values that stand for "no row" and "not written" are none of the data). `TypeCorrect`,
`EditsAreKept` (`EditsKeepEachOther`), `OrdersAreGiven` (`OrderAsGiven`), `RefusalsHaveACause`
(`NumberRefusalsHaveACause`), `ReplaysAreStable` (`ReplayIsStable`) and `NoCircle`
(`ListsNeverDeadlock`), for any rules, lists and requests in flight. The invariant `Inv` has
for each request `TxInv`: the statements it has left are ones it was asked for (`AskedInv`), and what it has
written is what a statement of it writes (`DoneInv`: the other columns are those of the
committed row, which nobody can change as the row lock is its own). `ReorderInv` follows
the two flushes of a renumbering: the negative numbers come first and in the order of the keys, each rule not
yet written still has its statement, and each rule whose last statement is gone has the number
of its place. `IndexInv` says that no two rows that are committed, written by one transaction, or
entered by two at once share a number of a list. The order of a committed renumbering is
then that of the places. No refusal of a renumbering's own making: its negative numbers are distinct, and
when it enters a final number all its other rules are at negative ones or at final ones of other places. A
second invariant, `AppendInv`, counts the commits that an appended rule was overtaken by. For
`NoCircle`: whoever is waited for has written, and only a renumbering writes and then waits
(`WaitedForRenumbers`), so a circle has two renumberings that have both written; but of two
renumberings of the same rules one writes nothing before the other is over, since both begin
with the smallest key (`OneRenumbers`). `Sorted` and `PassIs` say what sorting by keys returns, by the cardinality of what is below.

**`SendProofs`** is about what a send meets in `Api`, the limits of its tenant, the routes of
its notification and the presets. A behaviour of `Api` keeps its scope, so an invariant of one of its modules is
an invariant of the whole under that scope; this module and the next prove such invariants.

The limits (`QuotaGiven`: finitely many receivers, limits, sizes and caps that are
numbers, caps that hold at the start): `TypesHold`, `CapsHold`, `OneSetterCompares` and
`QuotaIsKept` (`QuotaHolds`), for any number of receivers and of requests in flight. `PlanInv` says,
for each kind of request, which statements are left and which lock on the tenant's row it
has meanwhile: without it nothing relates a comparison made to a lock held.
`LocksExclude` says that locks on a row exclude one another. `CapInv` and `LimitInv` say what a
comparison found, and that it still holds between the comparison and the commit. A commit
leaves them alone because whoever changes a cap, the limits or the notifications holds at
its commit a lock against the one of the request that compared; `OnlyOneChecked` is the
contradiction for caps, `CountsCommit` for the notifications of a day and their bytes.
`Bytes` folds over a set in an order that CHOOSE gives, so that its laws are proved first: the
fold is defined (`SumsExist`), is the same whichever set it is seen from (`SumsAgree`),
and gives up any element's size first (`SumsSplit`), so that `TotalGrows` and `TotalFalls` follow.
Each looks at the smallest set that would refute it (`SmallestExists`, by `WFMin`). `StoresWithin`
then puts the count, the sum and the insertion of one row together.
`SendsAreFreeOfDeadlock` (`SendsNeverDeadlock`) needs one more invariant, `GripInv`: a request
other than an edit that has locked a receiver against the others has at most the event of its audit
left. By the plans (`HeadsArePlanned`, `NextLock`) whoever waits for the tenant's row holds
nothing, since one that already has that row waits for nobody; and whoever waits for a receiver has
no lock on a receiver that another could wait for. So of two that wait for one another in
turn, the first waits for the tenant's row and the second for a receiver, and a circle would need
both of every member.

The routes (`RoutingGiven`: finitely many channels, rows at the start that refer to
channels that exist, and values for no row and the like that are none of the data):
`RefusalsAreJustified` (`Routing`'s `TypeOK` and `RefusalsHaveACause`) and `RoutesAreWhole`
(`RoutedByOneConfiguration`), for any number of requests in flight. `RoutingInv` says of each
request `p`, in `Routes(p)`, what it may rely on while the others commit. `RoutingWrites` ties what it has
written to the one row, or for the deletion of a channel to the rows of the one channel, that it is about;
`Reaches` and `ChannelGoes` are the two sides of a foreign key: what is stored refers to a channel that is
there, and a channel somebody deletes has nothing that refers to it, committed or not.
`Justified`, `Bound` and `Empties` say why a statement finds its row or who has taken it away;
`Empties` follows the deletion of a channel, whose own row comes last, and without which a
deletion refused by a foreign key would have no insertion to blame. `Chooses` is what
`RoutedByOneConfiguration` needs: nothing read is stale while nobody has committed, and after one
commit the channels that would be chosen are those before it or after it. A step that does not
commit leaves the others' part alone (`RoutesOfOthers`). A commit is eight lemmas, one for each part
(`CommitRefers` to `CommitChooses`); the last rests on `CommitTables`, that a commit changes one
table or takes away one channel with all its rows, and on `Selected`, that the resolver's rule
and the one written in terms of the tables agree.

The presets (`PresetsGiven`: keys of different kinds are different, finitely many rules and
positions, these counted from 0, priorities for the rules of the catalogue, values for no row and
the like that are none of the data, and rows at the start that respect the unique and the foreign
keys): `PresetsTyped` (`P!TypeOK`): no two committed presets share a name or a key of the
catalogue, and no rule or application lacks its preset. `PresetsInv` says it of the committed rows
(`PresetRowsAgree`) and of what each transaction sees (`Distinct`, `Refers`), with one exception:
a row whose preset the transaction has deleted and that its cascade has yet to reach (`Going`),
so that `Plans` says that a deletion and its cascade are the whole of a plan. It is not
inductive without `PresetsApart`, about two transactions: they write no row in common, a new
row of one shares no unique value with a new row of the other, and none refers to a preset that the
other deletes. That rests on `Stems`: an update keeps the identity and the key of the
catalogue that the committed row has, so only insertions and renamings can collide. `PresetsWrite` is the
step for one row written, `PresetsPurge` that of a DELETE of what it finds in any
order, and `CommitsPresets` shows that a commit leaves what the others see as it was, but for rows
of its own.

**`ApiProofs`** holds what is proved of the other modules of `Api`, the inbox and the directory,
and `ApiTypes` (`TypeOK`) of the whole: whichever module is in scope keeps its types. Its
assumptions are those of the five modules together.

* `TrailTells` (`TrailTellsTheState`; `InboxGiven`: the values that stand for no row, no
  column, no request and nobody are none of the data). `InboxWrites` says of a
  transaction that what it has written on a row is what it makes of the row as committed
  (`After`), which nobody else can change meanwhile; `InboxOneWriter` that no two have written
  one row; `InboxInv` adds that the trail tells the state and speaks only of what has arrived.
  A commit is the one step that changes rows and trail together: `EventsOf` says which events
  the hook before the flush makes of each kind of request, `SaidAfter` which event is then
  the last about a notification, and `ToldAnew` compares it with the row. That there is a last event is
  `LargestExists`, by a smallest counterexample of the well-founded order (`WFMin`), which takes no
  operator as a parameter.
* `SpentOnce` (`InvitationIsSpentOnce`; `DirectoryGiven`: keys of different kinds are
  different, the values for no row and the like are none of the data, finitely many e-mails
  and groups, and rows at the start that agree). `Linked` is the property of the committed rows:
  an invitation is accepted exactly when the account of its e-mail comes from it. It survives
  because `Accepting` says where an acceptance stands, statement by statement, from the
  lock on the invitation to both rows written; `WriteOK` what each kind of request may have
  written, and on what; `DirectoryOneWriter` that no two have written one row, an e-mail to be
  inserted included; and `Sending` that an invitation not yet sent is the business of one request.
  `ConflictOK` says of an acceptance that fails on the unique e-mail that the account in
  its way came from elsewhere.
* `ListsMeetAllOnce` (`ListedOnce`; `ListingGiven`: `InboxGiven`, finitely many notifications
  and deliveries with numbers for identities, a page of at least one row, and a "no cursor" that
  is no key of a list).
  `LaterIsAnOrder` shows that time and identity order the rows totally; a page is then the
  first rows by rank below the cursor (`FirstAre`, `Placed`), and the cursor the last row shown.
  The invariant behind it: whatever every page has selected up to now was shown by one of
  them or is still below the cursor. So a list that ends has met each of those rows, and none twice.
* `GroupsAreReplaced` (`D!TypeOK` and `UncontestedGroups`; `GroupsGiven`: `DirectoryGiven`, and
  rows at the start with distinct names and no association without its user and group). `GroupsInv` has three parts.
  `Associates` says where each transaction stands: what it has written and what its statements
  still mean (`WritesMeant`, `StatementsMeant`), that a name it takes is free (`NamesFree`), that
  the user and the groups it associates are there and locked (`UserThere`, `RefersTo`), that a
  group it deletes loses its associations too (`GroupGoes`), and how far a replacement is
  (`Replaces`). `Apart` is about two transactions: they do not take the same name, and
  none changes a group that the other associates a user to. `RowsAgree` is about the committed rows:
  names are unique and no association lacks its user or its group. Each kind of statement has a
  lemma (`GroupsInsert`, `GroupsLock`, `GroupsUpdate`, `GroupsDelete`, `GroupsCascade`), and a
  commit three: `CommitsRows`, `CommitAgrees` and, for the other transactions, `CommitSpares`.
  `ReplacesInsert` and `ReplacesDelete` show that a replacement nobody overtakes
  violates no key and leaves exactly the groups asked for.

Some theorems state facts that no run lists: `AttemptsBounded`, `BackoffIsRespected`,
`OutcomesAreFinal` (their content is in `ImplementsLifecycle`), `AnswersAreBacked`,
`OneWriterPerValue`, `OneSetterCompares`.

Only model-checked: `DecidedInOrder` (rules: it concatenates the lists of the presets with a recursive operator),
of `Api` what `RefusalsHaveACause` and `ReplacedAsAsked` say of the presets (their other
parts are proved, as `RefusalsAreJustified` and `GroupsAreReplaced`);
every liveness property (`EveryDeliverySettles`,
`EveryRequestAnswered`, `NoObjectLeaks`, `AbsencesAndReturnsAreReported`) and the four
findings. The proof system does not reason about liveness under fairness or ENABLED, and
cannot instantiate the library's induction theorems: what is proved of sums and of last events goes
by smallest counterexamples, and what a RECURSIVE operator computes for all inputs is out of reach.

## 5. Plan

1. `RateLimit`: the window's counter, with a lost expiry.
2. `Ingest`: a composition of idempotency, quota, storage, routing and outbox along one
   request, with the abstract promise "a 201 means stored, counted once, and queued".
3. Registration of a tenant, with the catalogue it installs, against the CLI's.
4. Proofs: the part of `Presets` in `RefusalsHaveACause` and in `ReplacedAsAsked`, from
   `PresetsInv` and from what is left of a plan when nobody has touched what the request concerns.

Modules that will have theorems are written without RECURSIVE operators; pure
algorithms use folds.

## 6. What is not modelled

Tenant isolation (PostgreSQL policies on every query; the models have one tenant but
for the keys the orphan purge reads), statistics and metrics (queries), the text of
messages, the CLI and bootstrap (one-shot), the wrapper script (sequential), the
dashboard (a client), deployment.

Known limits of what is: who may call an operation (roles of viewers and members) is left
out but for the groups a member may list; masking and locations in audit events are
left out; the registration of a tenant inserts only rows that nobody else knows yet and
is left out; rate limits are left out, a request that is refused has no effect on the rest.
The models have READ COMMITTED's statements with one row each: a statement that touches
several rows is one step when they are of one kind and nobody can wait inside it, and
several steps otherwise.
