------------------------------ MODULE Accounts -------------------------------
(***************************************************************************)
(* The users of a tenant and their sessions: login, refresh and logout on  *)
(* the refresh tokens (api/v1/auth.py), PATCH and DELETE of a user by an   *)
(* administrator (api/v1/users.py), and the row locks of PostgreSQL that   *)
(* keep them apart.                                                        *)
(*                                                                         *)
(* A request reads without a lock, then takes its row locks one at a time  *)
(* and in order, then reads again what it decides on, then commits and     *)
(* releases; another request may come between any two of these.            *)
(***************************************************************************)
EXTENDS Integers, Sequences, FiniteSets

CONSTANTS
    Users,         \* the users of the tenant
    Tenant,        \* the row of the tenant in table tenants
    Requests,      \* the requests that may be in flight together
    Tokens,        \* the refresh tokens that may be issued
    FirstRole,     \* the role each user starts with
    Operations,    \* the endpoints the run exercises
    Patches,       \* the bodies of PATCH /users/{id} the run sends
    MaxRequests    \* bound: requests in a behaviour

Roles == {"owner", "admin", "viewer"}      \* "member" has the rights of "viewer" here
Statuses == {"active", "disabled"}

ASSUME UsersAssumption == Tenant \notin Users /\ FirstRole \in [Users -> Roles]
ASSUME OwnerAssumption == \E u \in Users : FirstRole[u] = "owner"
ASSUME PatchAssumption ==
    Patches \subseteq [role : Roles \cup {"same"}, status : Statuses \cup {"same"}]
ASSUME BoundAssumption == IsFiniteSet(Users) /\ MaxRequests \in Nat

VARIABLES
    role,          \* users.role
    status,        \* users.status
    token,         \* the rows of refresh_tokens
    access,        \* access tokens still valid: whose, and with which role
    req,           \* the request in flight, for each of Requests
    left,          \* the row locks it has still to take, in order
    held,          \* the row locks its transaction holds
    plan,          \* what it will write, once it has read under its locks
    started,       \* requests so far
    closed,        \* history: token families some committed request closed
    stale          \* history: a commit took an owner it had not read as one

usersVars == <<role, status>>
requestVars == <<req, left, held, plan>>
vars == <<role, status, token, access, req, left, held, plan, started, closed, stale>>

-----------------------------------------------------------------------------
(* Rows and row locks. *)

KeyShare(row) == [row |-> row, mode |-> "key_share"]              \* what a foreign key takes
NoKeyUpdate(row) == [row |-> row, mode |-> "no_key_update"]       \* what an UPDATE takes
ForUpdate(row) == [row |-> row, mode |-> "update"]                \* SELECT ... FOR UPDATE
Locks == [row : Users \cup {Tenant}, mode : {"key_share", "no_key_update", "update"}]

Conflict(l, m) ==
    /\ l.row = m.row
    /\ \/ "update" \in {l.mode, m.mode}
       \/ {l.mode, m.mode} = {"no_key_update"}

\* Who stands in the way of lock l of request p.
Holders(p, l) == {q \in Requests \ {p} : \E m \in held[q] : Conflict(l, m)}

NoToken == [state |-> "none"]
TokenRows == [state : {"live", "revoked", "deleted"}, user : Users, family : Tokens,
              expired : BOOLEAN]
Exists(t) == token[t].state \in {"live", "revoked"}
Live(t) == token[t].state = "live"
TokensOf(u) == {t \in Tokens : Exists(t) /\ token[t].user = u}
FamilyOf(t) == {s \in Tokens : Exists(s) /\ token[s].family = token[t].family}
Families(T) == {token[t].family : t \in T}

ActiveOwners == {u \in Users : role[u] = "owner" /\ status[u] = "active"}

Idle == [op |-> "none"]
SessionRequests ==
    [op : {"login"}, user : Users] \cup [op : {"refresh"}, user : Users, token : Tokens]
    \cup [op : {"logout"}, user : Users, token : Tokens, kind : {"all", "family", "jti"}]
Bodies == [role : Roles \cup {"same"}, status : Statuses \cup {"same"}]
AdminRequests ==
    [op : {"update_user", "remove_user"}, user : Users, body : Bodies,
     was : [role : Roles, status : Statuses], scoped : BOOLEAN]

NoPlan == [revokes |-> {}, closes |-> {}, issues |-> "undecided"]
Plans == [revokes : SUBSET Tokens, closes : SUBSET Tokens, issues : {"one", "none"}]

Init ==
    /\ role = FirstRole
    /\ status = [u \in Users |-> "active"]
    /\ token = [t \in Tokens |-> NoToken]
    /\ access = {[user |-> u, role |-> FirstRole[u]] : u \in Users}
    /\ req = [p \in Requests |-> Idle]
    /\ left = [p \in Requests |-> <<>>]
    /\ held = [p \in Requests |-> {}]
    /\ plan = [p \in Requests |-> NoPlan]
    /\ started = 0
    /\ closed = {}
    /\ stale = FALSE

-----------------------------------------------------------------------------
(* The locks of each operation. *)

\* Mistake: the user before the tenant.
lock_user_token_scope_swapped(u) == <<ForUpdate(u), KeyShare(Tenant)>>

lock_user_token_scope(u) == <<KeyShare(Tenant), ForUpdate(u)>>

\* UPDATE users, and the audit event that goes with it, which references the
\* tenant and the user who acts.
write_locks(u, actor) == <<NoKeyUpdate(u), KeyShare(Tenant), KeyShare(actor)>>

\* The columns of the row read that a PATCH changes.
Changes(body, was) == {c \in {"role", "status"} : body[c] \notin {"same", was[c]}}

AnActiveOwner == [role |-> "owner", status |-> "active"]

\* Mistake: only a change of role is checked.
NeedsCheck_role_only(body, was) == was = AnActiveOwner /\ body.role \notin {"same", "owner"}

\* PATCH and DELETE: the owner check when the target was read as an active
\* owner and will not be one, the token lock to disable, and the write.
NeedsCheck(body, was) ==
    /\ was = AnActiveOwner
    /\ \/ body.role \notin {"same", "owner"}
       \/ body.status = "disabled"

admin_locks(u, actor, body, was, scoped) ==
    (IF NeedsCheck(body, was) THEN <<ForUpdate(Tenant)>> ELSE <<>>)
    \o (IF scoped THEN lock_user_token_scope(u) ELSE <<>>)
    \o (IF Changes(body, was) # {} THEN write_locks(u, actor) ELSE <<>>)

-----------------------------------------------------------------------------
(* Requests arrive. *)

begin(p, op, r, locks) ==
    /\ op \in Operations
    /\ req[p] = Idle
    /\ started < MaxRequests
    /\ started' = started + 1
    /\ req' = [req EXCEPT ![p] = r]
    /\ left' = [left EXCEPT ![p] = locks]
    /\ UNCHANGED <<usersVars, token, access, held, plan, closed, stale>>

\* POST /auth/login with the right password: the status is read before the
\* slow hash, and again under the lock.
login(p, u) ==
    /\ status[u] = "active"
    /\ begin(p, "login", [op |-> "login", user |-> u], lock_user_token_scope(u))

\* Mistake: the rotation does not lock the user.
refresh_unlocked(p, t) ==
    /\ Exists(t)
    /\ begin(p, "refresh", [op |-> "refresh", user |-> token[t].user, token |-> t],
             <<KeyShare(Tenant)>>)

\* POST /auth/refresh: find_refresh_token finds the row, revoked or not.
refresh(p, t) ==
    /\ Exists(t)
    /\ begin(p, "refresh", [op |-> "refresh", user |-> token[t].user, token |-> t],
             lock_user_token_scope(token[t].user))

\* POST /auth/logout: of every session, of the session of a refresh token, or
\* of one row by its jti.
logout(p, c, kind, t) ==
    /\ Exists(t)
    /\ begin(p, "logout", [op |-> "logout", user |-> c.user, kind |-> kind, token |-> t],
             lock_user_token_scope(c.user))

\* What PATCH and DELETE have in common: require_admin, the unlocked read of
\* the target, _assert_can_manage.
begin_admin(p, op, c, u, body, scoped) ==
    LET was == [role |-> role[u], status |-> status[u]]
    IN /\ c.role \in {"owner", "admin"}
       /\ role[u] = "owner" => c.role = "owner"
       /\ begin(p, op, [op |-> op, user |-> u, body |-> body, was |-> was, scoped |-> scoped],
                admin_locks(u, c.user, body, was, scoped))

\* PATCH /users/{id}; only an owner makes an owner.  The tokens are revoked,
\* and locked before, when the target was read as not yet disabled.
update_user(p, c, u, body) ==
    /\ body.role = "owner" => c.role = "owner"
    /\ begin_admin(p, "update_user", c, u, body,
                   body.status = "disabled" /\ status[u] # "disabled")

\* DELETE /users/{id} disables the user.
remove_user(p, c, u) ==
    begin_admin(p, "remove_user", c, u, [role |-> "same", status |-> "disabled"], TRUE)

-----------------------------------------------------------------------------
(* Requests proceed. *)

finish(p) ==
    /\ req' = [req EXCEPT ![p] = Idle]
    /\ left' = [left EXCEPT ![p] = <<>>]
    /\ held' = [held EXCEPT ![p] = {}]
    /\ plan' = [plan EXCEPT ![p] = NoPlan]

take(p) ==
    /\ held' = [held EXCEPT ![p] = @ \cup {Head(left[p])}]
    /\ left' = [left EXCEPT ![p] = Tail(@)]
    /\ UNCHANGED <<req, plan>>

Wants(p) == left[p] # <<>>
CanTake(p) == Wants(p) /\ Holders(p, Head(left[p])) = {}

\* A row lock, once nobody holds one against it.
acquire(p) ==
    /\ CanTake(p)
    /\ Head(left[p]) # ForUpdate(Tenant)
    /\ take(p)
    /\ UNCHANGED <<usersVars, token, access, started, closed, stale>>

\* _assert_not_last_owner: the tenant is locked, then the active owners are
\* counted; the request ends with 409 when there is no other.
assert_not_last_owner(p) ==
    /\ CanTake(p)
    /\ Head(left[p]) = ForUpdate(Tenant)
    /\ IF Cardinality(ActiveOwners) <= 1 THEN finish(p) ELSE take(p)
    /\ UNCHANGED <<usersVars, token, access, started, closed, stale>>

\* The rows read under the locks settle what the request will write: the
\* tokens it revokes, the families it means to close by that, and whether it
\* issues a token.
settle(p, tokens, families, issues) ==
    /\ plan' = [plan EXCEPT ![p] = [revokes |-> tokens, closes |-> families, issues |-> issues]]
    /\ UNCHANGED <<req, left, held>>

Settled(p) == plan[p] # NoPlan
Locked(p, op) == req[p].op = op /\ left[p] = <<>> /\ ~Settled(p)

\* Mistake: the status read before the password hash is good enough.
read_login_trusting(p) ==
    /\ Locked(p, "login")
    /\ settle(p, {}, {}, "one")
    /\ UNCHANGED <<usersVars, token, access, started, closed, stale>>

read_login(p) ==
    /\ Locked(p, "login")
    /\ IF status[req[p].user] = "active" THEN settle(p, {}, {}, "one") ELSE finish(p)
    /\ UNCHANGED <<usersVars, token, access, started, closed, stale>>

\* A revoked token is a reuse, and condemns its family; a row that is gone, a
\* token that has expired or a user who is not active is refused.
read_refresh(p) ==
    LET t == req[p].token
    IN /\ Locked(p, "refresh")
       /\ \/ token[t].state = "revoked" /\ settle(p, FamilyOf(t), {token[t].family}, "none")
          \/ /\ Live(t) /\ ~token[t].expired /\ status[req[p].user] = "active"
             /\ settle(p, {t}, {}, "one")
          \/ ~Exists(t) /\ finish(p)
          \/ /\ Live(t)
             /\ token[t].expired \/ status[req[p].user] # "active"
             /\ finish(p)
       /\ UNCHANGED <<usersVars, token, access, started, closed, stale>>

\* Mistake: a logout with a refresh token revokes the row presented only.
revoked_by_logout_row(r) ==
    IF r.kind = "all" THEN {t \in TokensOf(r.user) : Live(t)} ELSE {r.token} \cap TokensOf(r.user)

\* The tokens a logout revokes: of the user who asks, whatever is presented.
revoked_by_logout(r) ==
    {t \in TokensOf(r.user) :
        \/ r.kind = "all" /\ Live(t)
        \/ r.kind = "family" /\ r.token \in TokensOf(r.user) /\ Live(t) /\ t \in FamilyOf(r.token)
        \/ r.kind = "jti" /\ t = r.token}

\* The sessions it closes.
closed_by_logout(r) ==
    CASE r.kind = "all" -> Families(TokensOf(r.user))
      [] r.kind = "family" -> Families({r.token} \cap TokensOf(r.user))
      [] r.kind = "jti" -> {}

read_logout(p) ==
    /\ Locked(p, "logout")
    /\ settle(p, revoked_by_logout(req[p]), closed_by_logout(req[p]), "none")
    /\ UNCHANGED <<usersVars, token, access, started, closed, stale>>

\* _revoke_refresh_tokens, when the request disables.
read_admin(p) ==
    LET mine == TokensOf(req[p].user)
    IN /\ Locked(p, "update_user") \/ Locked(p, "remove_user")
       /\ IF req[p].scoped
          THEN settle(p, {t \in mine : Live(t)}, Families(mine), "none")
          ELSE settle(p, {}, {}, "none")
       /\ UNCHANGED <<usersVars, token, access, started, closed, stale>>

-----------------------------------------------------------------------------
(* Requests commit, or not. *)

Revoked(T) == [t \in Tokens |-> IF t \in T THEN [token[t] EXCEPT !.state = "revoked"] ELSE token[t]]

\* Mistake: the family of a session is its user.
issue_family_is_user(p) ==
    \E t \in Tokens :
        /\ token[t] = NoToken
        /\ token' = [Revoked(plan[p].revokes) EXCEPT ![t] =
                        [state |-> "live", user |-> req[p].user, expired |-> FALSE,
                         family |-> req[p].user]]

\* The new row: the first of a family at a login, a successor at a refresh.
issue(p) ==
    \E t \in Tokens :
        /\ token[t] = NoToken
        /\ token' = [Revoked(plan[p].revokes) EXCEPT ![t] =
                        [state |-> "live", user |-> req[p].user, expired |-> FALSE,
                         family |-> IF req[p].op = "login" THEN t
                                                           ELSE token[req[p].token].family]]

\* The commit of login, refresh and logout.
commit_session(p) ==
    /\ Settled(p) /\ req[p].op \in {"login", "refresh", "logout"}
    /\ \A t \in plan[p].revokes : Exists(t)
    /\ IF plan[p].issues = "one"
       THEN /\ issue(p)
            /\ access' = access \cup {[user |-> req[p].user, role |-> role[req[p].user]]}
       ELSE token' = Revoked(plan[p].revokes) /\ UNCHANGED access
    /\ closed' = closed \cup plan[p].closes
    /\ finish(p)
    /\ UNCHANGED <<usersVars, started, stale>>

\* The commit of PATCH and DELETE: SQLAlchemy writes the columns that differ
\* from the row it read, and no other.
commit_admin(p) ==
    LET u == req[p].user
        body == req[p].body
        changes == Changes(body, req[p].was)
    IN /\ Settled(p) /\ req[p].op \in {"update_user", "remove_user"}
       /\ \A t \in plan[p].revokes : Exists(t)
       /\ role' = IF "role" \in changes THEN [role EXCEPT ![u] = body.role] ELSE role
       /\ status' = IF "status" \in changes THEN [status EXCEPT ![u] = body.status] ELSE status
       /\ token' = Revoked(plan[p].revokes)
       /\ closed' = closed \cup plan[p].closes
       /\ stale' = (stale \/ /\ u \in ActiveOwners \ ActiveOwners'
                             /\ req[p].was # AnActiveOwner)
       /\ finish(p)
       /\ UNCHANGED <<access, started>>

\* A request that fails, is cancelled, meets a suspended tenant, updates a row
\* cleanup_tokens has just deleted or is chosen to break a deadlock: rollback.
rollback(p) ==
    /\ req[p] # Idle
    /\ finish(p)
    /\ UNCHANGED <<usersVars, token, access, started, closed, stale>>

-----------------------------------------------------------------------------
(* Time. *)

expire_token(t) ==
    /\ Exists(t) /\ ~token[t].expired
    /\ token' = [token EXCEPT ![t].expired = TRUE]
    /\ UNCHANGED <<usersVars, access, requestVars, started, closed, stale>>

expire_access(c) ==
    /\ access' = access \ {c}
    /\ UNCHANGED <<usersVars, token, requestVars, started, closed, stale>>

\* The job deletes the expired rows, revoked or not; it waits for the row a
\* refresh has selected FOR UPDATE.
cleanup_tokens ==
    LET expired == {t \in Tokens : Exists(t) /\ token[t].expired}
    IN /\ "cleanup_tokens" \in Operations
       /\ expired # {}
       /\ \A p \in Requests : req[p].op = "refresh" /\ Settled(p) => req[p].token \notin expired
       /\ token' = [t \in Tokens |-> IF t \in expired THEN [token[t] EXCEPT !.state = "deleted"]
                                                     ELSE token[t]]
       /\ UNCHANGED <<usersVars, access, requestVars, started, closed, stale>>

SessionStep(p) ==
    \/ \E u \in Users : login(p, u)
    \/ \E t \in Tokens : refresh(p, t)
    \/ \E c \in access, kind \in {"all", "family", "jti"}, t \in Tokens : logout(p, c, kind, t)
    \/ read_login(p)
    \/ read_refresh(p)
    \/ read_logout(p)
    \/ commit_session(p)

AdminStep(p) ==
    \/ \E c \in access, u \in Users, body \in Patches : update_user(p, c, u, body)
    \/ \E c \in access, u \in Users : remove_user(p, c, u)
    \/ assert_not_last_owner(p)
    \/ read_admin(p)
    \/ commit_admin(p)

Next ==
    \/ \E p \in Requests : SessionStep(p) \/ AdminStep(p) \/ acquire(p) \/ rollback(p)
    \/ \E t \in Tokens : expire_token(t)
    \/ \E c \in access : expire_access(c)
    \/ cleanup_tokens

Spec == Init /\ [][Next]_vars

-----------------------------------------------------------------------------
(* Properties. *)

\* The types of the variables: the columns of users and refresh_tokens, and
\* locks only on the rows the requests use.
TypeOK ==
    /\ role \in [Users -> Roles]
    /\ status \in [Users -> Statuses]
    /\ token \in [Tokens -> {NoToken} \cup TokenRows]
    /\ access \subseteq [user : Users, role : Roles]
    /\ req \in [Requests -> {Idle} \cup SessionRequests \cup AdminRequests]
    /\ left \in [Requests -> Seq(Locks)]
    /\ held \in [Requests -> SUBSET Locks]
    /\ plan \in [Requests -> {NoPlan} \cup Plans]
    /\ started \in 0 .. MaxRequests
    /\ closed \subseteq Tokens
    /\ stale \in BOOLEAN

\* A session that logout, the disabling of its user or the reuse of a rotated
\* token has closed stays closed: no rotation that was in flight leaves a live
\* successor behind.
ClosedStaysClosed == \A t \in Tokens : Live(t) => token[t].family \notin closed

\* Rotation: two refreshes with the same token never end with two live ones.
OneLiveToken ==
    \A t, s \in Tokens : Live(t) /\ Live(s) /\ token[t].family = token[s].family => t = s

\* No refresh token of a disabled user can work when the user is enabled again.
DisabledHasNoSession == \A t \in Tokens : Live(t) => status[token[t].user] = "active"

\* The tenant keeps an active owner, unless some request took one it had read,
\* before its locks, as something else.
OwnerRemains == ActiveOwners # {} \/ stale

\* The tenant keeps an active owner.
OwnerAlwaysRemains == ActiveOwners # {}

\* Requests that wait for one another in a circle.
Waiting(S) ==
    S # {} /\ \A p \in S : Wants(p) /\ Holders(p, Head(left[p])) \cap S # {}
Circle(S) == Waiting(S) /\ \A T \in SUBSET S : Waiting(T) => T = S

\* The order tenant, user, tokens: no login, refresh or logout is ever part of
\* a deadlock.
SessionsNeverDeadlock ==
    \A S \in SUBSET Requests :
        Circle(S) => \A p \in S : req[p].op \notin {"login", "refresh", "logout"}

=============================================================================
