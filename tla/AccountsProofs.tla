--------------------------- MODULE AccountsProofs ---------------------------
(***************************************************************************)
(* Theorems about users and sessions, for any number of users, tokens and  *)
(* requests in flight.                                                     *)
(*                                                                         *)
(* What a request has read under its locks stays true until it commits,    *)
(* because whoever could change it needs a lock against one of those.      *)
(***************************************************************************)
EXTENDS Accounts, FiniteSetTheorems, TLAPS

USE UsersAssumption, PatchAssumption, BoundAssumption

Used(t) == token[t] # NoToken

\* Requests that work on the tokens of their user, and need him locked.
IsAdmin(r) == r.op \in {"update_user", "remove_user"}
IsScoped(r) == \/ r.op \in {"login", "refresh", "logout"}
               \/ IsAdmin(r) /\ r.scoped
ChangesUser(r) == IsAdmin(r) /\ Changes(r.body, r.was) # {}
TakesOwner(r) == IsAdmin(r) /\ NeedsCheck(r.body, r.was)

\* A lock that the request has or will have when it commits.
Has(locks, l) == \E i \in 1 .. Len(locks) : locks[i] = l
Promised(p, l) == l \in held[p] \/ Has(left[p], l)

\* Families belong to one user, and a closed family was used.
TokenInv ==
    /\ \A t \in Tokens : Used(t) =>
         /\ Used(token[t].family)
         /\ token[token[t].family].user = token[t].user
    /\ \A f \in closed : Used(f)

\* Row locks exclude one another.
LockInv ==
    \A p, q \in Requests : p # q => \A l \in held[p], m \in held[q] : ~Conflict(l, m)

\* A request knows which locks it needs, whatever it read before.
RequestInv(p) ==
    /\ req[p] = Idle => held[p] = {} /\ left[p] = <<>> /\ plan[p] = NoPlan
    /\ Settled(p) => left[p] = <<>>
    /\ IsScoped(req[p]) => Promised(p, ForUpdate(req[p].user))
    /\ ChangesUser(req[p]) => Promised(p, KeyShare(Tenant))
    /\ TakesOwner(req[p]) => Promised(p, ForUpdate(Tenant))
    /\ IsAdmin(req[p]) /\ req[p].body.status = "disabled" /\ req[p].was.status # "disabled"
         => req[p].scoped
    /\ req[p].op = "refresh" => /\ Used(req[p].token)
                                /\ token[req[p].token].user = req[p].user

\* What it means to write is still right when it commits.
PlanInv(p) ==
    Settled(p) =>
      /\ plan[p].closes # {} => IsScoped(req[p])
      /\ \A f \in plan[p].closes : Used(f) /\ token[f].user = req[p].user
      /\ \A t \in Tokens : Live(t) /\ token[t].family \in plan[p].closes => t \in plan[p].revokes
      /\ IsAdmin(req[p]) /\ req[p].scoped =>
           \A t \in Tokens : Live(t) /\ token[t].user = req[p].user => t \in plan[p].revokes
      /\ plan[p].issues = "one" =>
           /\ req[p].op \in {"login", "refresh"}
           /\ plan[p].closes = {}
           /\ status[req[p].user] = "active"
           /\ req[p].op = "refresh" =>
                /\ plan[p].revokes = {req[p].token}
                /\ token[req[p].token].family \notin closed
                /\ \A t \in Tokens :
                     Live(t) /\ token[t].family = token[req[p].token].family => t = req[p].token

\* A request that passed the last-owner check leaves an owner behind.
OwnerInv(p) ==
    TakesOwner(req[p]) /\ ForUpdate(Tenant) \in held[p] =>
      \E v \in ActiveOwners : v # req[p].user

Safe == ClosedStaysClosed /\ OneLiveToken /\ DisabledHasNoSession /\ OwnerRemains

Inv ==
    /\ TypeOK
    /\ TokenInv
    /\ LockInv
    /\ \A p \in Requests : RequestInv(p) /\ PlanInv(p) /\ OwnerInv(p)
    /\ Safe

-----------------------------------------------------------------------------
(* Locks and requests. *)

\* The locks of the requests are locks, and exclude as PostgreSQL's do.
LEMMA LockFacts ==
    /\ \A row \in Users \cup {Tenant} :
         KeyShare(row) \in Locks /\ NoKeyUpdate(row) \in Locks /\ ForUpdate(row) \in Locks
    /\ \A row : Conflict(ForUpdate(row), ForUpdate(row))
    /\ \A row : Conflict(KeyShare(row), ForUpdate(row))
    /\ \A l, m : Conflict(l, m) <=> Conflict(m, l)
  BY DEF KeyShare, NoKeyUpdate, ForUpdate, Locks, Conflict

\* A lock is in a concatenation if it is in one of the parts.
LEMMA HasConcat ==
    ASSUME NEW s \in Seq(Locks), NEW t \in Seq(Locks), NEW l, Has(s, l) \/ Has(t, l)
    PROVE  Has(s \o t, l)
  <1>1. CASE Has(s, l)
    <2>1. PICK i \in 1 .. Len(s) : s[i] = l
      BY <1>1 DEF Has
    <2>2. i \in 1 .. Len(s \o t) /\ (s \o t)[i] = l
      BY <2>1
    <2> QED
      BY <2>2 DEF Has
  <1>2. CASE Has(t, l)
    <2>1. PICK i \in 1 .. Len(t) : t[i] = l
      BY <1>2 DEF Has
    <2>2. Len(s) + i \in 1 .. Len(s \o t) /\ (s \o t)[Len(s) + i] = l
      BY <2>1
    <2> QED
      BY <2>2 DEF Has
  <1> QED
    BY <1>1, <1>2

\* The locks of login, refresh and logout.
LEMMA ScopeLocks ==
    ASSUME NEW u \in Users
    PROVE  /\ lock_user_token_scope(u) \in Seq(Locks)
           /\ Has(lock_user_token_scope(u), ForUpdate(u))
  <1>1. lock_user_token_scope(u) \in Seq(Locks)
    BY LockFacts DEF lock_user_token_scope
  <1>2. /\ Len(lock_user_token_scope(u)) = 2
        /\ lock_user_token_scope(u)[2] = ForUpdate(u)
    BY DEF lock_user_token_scope
  <1> QED
    BY <1>1, <1>2 DEF Has

\* The locks of PATCH and DELETE hold what each part of the request needs.
LEMMA AdminLocks ==
    ASSUME NEW u \in Users, NEW actor \in Users, NEW body, NEW was, NEW scoped
    PROVE  /\ admin_locks(u, actor, body, was, scoped) \in Seq(Locks)
           /\ scoped => Has(admin_locks(u, actor, body, was, scoped), ForUpdate(u))
           /\ Changes(body, was) # {} =>
                Has(admin_locks(u, actor, body, was, scoped), KeyShare(Tenant))
           /\ NeedsCheck(body, was) =>
                Has(admin_locks(u, actor, body, was, scoped), ForUpdate(Tenant))
  <1> DEFINE check == IF NeedsCheck(body, was) THEN <<ForUpdate(Tenant)>> ELSE <<>>
             scope == IF scoped THEN lock_user_token_scope(u) ELSE <<>>
             write == IF Changes(body, was) # {} THEN write_locks(u, actor) ELSE <<>>
  <1>1. check \in Seq(Locks) /\ (NeedsCheck(body, was) => Has(check, ForUpdate(Tenant)))
    <2>1. <<ForUpdate(Tenant)>> \in Seq(Locks) /\ <<>> \in Seq(Locks)
      BY LockFacts
    <2>2. Has(<<ForUpdate(Tenant)>>, ForUpdate(Tenant))
      BY DEF Has
    <2> QED
      BY <2>1, <2>2
  <1>2. scope \in Seq(Locks) /\ (scoped => Has(scope, ForUpdate(u)))
    BY ScopeLocks
  <1>3. write \in Seq(Locks) /\ (Changes(body, was) # {} => Has(write, KeyShare(Tenant)))
    <2>1. write_locks(u, actor) \in Seq(Locks)
      BY LockFacts DEF write_locks
    <2>2. Len(write_locks(u, actor)) = 3 /\ write_locks(u, actor)[2] = KeyShare(Tenant)
      BY DEF write_locks
    <2>3. Has(write_locks(u, actor), KeyShare(Tenant))
      BY <2>2 DEF Has
    <2> QED
      BY <2>1, <2>3
  <1>4. admin_locks(u, actor, body, was, scoped) = check \o scope \o write
    BY DEF admin_locks
  <1> HIDE DEF check, scope, write
  <1>5. check \o scope \in Seq(Locks) /\ check \o scope \o write \in Seq(Locks)
    BY <1>1, <1>2, <1>3
  <1>6. scoped => Has(check \o scope \o write, ForUpdate(u))
    BY <1>1, <1>2, <1>3, <1>5, HasConcat
  <1>7. Changes(body, was) # {} => Has(check \o scope \o write, KeyShare(Tenant))
    BY <1>1, <1>2, <1>3, <1>5, HasConcat
  <1>8. NeedsCheck(body, was) => Has(check \o scope \o write, ForUpdate(Tenant))
    BY <1>1, <1>2, <1>3, <1>5, HasConcat
  <1> QED
    BY <1>4, <1>5, <1>6, <1>7, <1>8

\* The fields of the requests.
LEMMA RequestFields ==
    ASSUME TypeOK, NEW p \in Requests
    PROVE  /\ IsScoped(req[p]) \/ IsAdmin(req[p]) => req[p].user \in Users
           /\ req[p].op = "refresh" => req[p].token \in Tokens
           /\ req[p].op = "logout" =>
                req[p].token \in Tokens /\ req[p].kind \in {"all", "family", "jti"}
           /\ IsAdmin(req[p]) => /\ req[p].body \in Bodies
                                 /\ req[p].was \in [role : Roles, status : Statuses]
                                 /\ req[p].scoped \in BOOLEAN
           /\ req[p] = Idle => ~IsScoped(req[p]) /\ ~IsAdmin(req[p]) /\ req[p].op = "none"
           /\ req[p] # Idle => IsScoped(req[p]) \/ IsAdmin(req[p])
  <1>1. CASE req[p] = Idle
    BY <1>1 DEF Idle, IsScoped, IsAdmin
  <1>2. CASE req[p] \in SessionRequests
    BY <1>2 DEF SessionRequests, Idle, IsScoped, IsAdmin
  <1>3. CASE req[p] \in AdminRequests
    BY <1>3 DEF AdminRequests, Idle, IsScoped, IsAdmin
  <1> QED
    BY <1>1, <1>2, <1>3 DEF TypeOK

\* The fields of the rows of refresh_tokens.
LEMMA TokenFields ==
    ASSUME TypeOK, NEW t \in Tokens
    PROVE  /\ Used(t) => /\ token[t] \in TokenRows
                         /\ token[t].user \in Users
                         /\ token[t].family \in Tokens
                         /\ token[t].expired \in BOOLEAN
           /\ Exists(t) \/ Live(t) => Used(t)
           /\ Live(t) => Exists(t)
  BY DEF TypeOK, Used, NoToken, TokenRows, Exists, Live

\* A settled request that works on tokens has its user locked.
LEMMA SettledLocks ==
    ASSUME Inv, NEW p \in Requests, Settled(p)
    PROVE  /\ IsScoped(req[p]) => ForUpdate(req[p].user) \in held[p]
           /\ ChangesUser(req[p]) => KeyShare(Tenant) \in held[p]
           /\ TakesOwner(req[p]) => ForUpdate(Tenant) \in held[p]
           /\ req[p] # Idle
  <1>1. left[p] = <<>>
    BY DEF Inv, RequestInv
  <1>2. \A l : ~Has(left[p], l)
    BY <1>1 DEF Has
  <1> QED
    BY <1>2 DEF Inv, RequestInv, Promised, Settled

\* Two settled requests that work on tokens are of two users.
LEMMA SettledUsersDiffer ==
    ASSUME Inv, NEW p \in Requests, NEW q \in Requests, p # q, Settled(p), Settled(q),
           IsScoped(req[p]), IsScoped(req[q])
    PROVE  req[p].user # req[q].user
  BY SettledLocks, LockFacts DEF Inv, LockInv

-----------------------------------------------------------------------------
(* Steps that leave the database alone. *)

dbVars == <<role, status, token, closed>>
Others(p) ==
    \A q \in Requests \ {p} :
        req'[q] = req[q] /\ left'[q] = left[q] /\ held'[q] = held[q] /\ plan'[q] = plan[q]

\* They concern the request that takes them only.
LEMMA OthersKeepInv ==
    ASSUME Inv, NEW p \in Requests, Others(p), UNCHANGED dbVars,
           NEW q \in Requests, q # p
    PROVE  RequestInv(q)' /\ PlanInv(q)' /\ OwnerInv(q)'
  <1>1. RequestInv(q) /\ PlanInv(q) /\ OwnerInv(q)
    BY DEF Inv
  <1>2. /\ req'[q] = req[q] /\ left'[q] = left[q] /\ held'[q] = held[q] /\ plan'[q] = plan[q]
        /\ role' = role /\ status' = status /\ token' = token /\ closed' = closed
    BY DEF Others, dbVars
  <1>3. RequestInv(q)'
    BY <1>1, <1>2 DEF RequestInv, Settled, Promised, Used
  <1>4. PlanInv(q)'
    BY <1>1, <1>2 DEF PlanInv, Settled, Used, Live
  <1>5. OwnerInv(q)'
    BY <1>1, <1>2 DEF OwnerInv, ActiveOwners
  <1> QED
    BY <1>3, <1>4, <1>5

\* So the invariant needs the types, the locks and the request itself.
LEMMA RequestStepKeepsInv ==
    ASSUME Inv, NEW p \in Requests, Others(p), UNCHANGED dbVars, UNCHANGED stale,
           TypeOK', LockInv', RequestInv(p)', PlanInv(p)', OwnerInv(p)'
    PROVE  Inv'
  <1>1. TokenInv' /\ Safe'
    BY DEF Inv, dbVars, TokenInv, Used, Safe, ClosedStaysClosed, OneLiveToken,
           DisabledHasNoSession, OwnerRemains, Live, ActiveOwners
  <1>2. \A q \in Requests : RequestInv(q)' /\ PlanInv(q)' /\ OwnerInv(q)'
    BY OthersKeepInv
  <1> QED
    BY <1>1, <1>2 DEF Inv

\* A request that is over is safe.
LEMMA FinishedKeepsInv ==
    ASSUME Inv, NEW p \in Requests, finish(p)
    PROVE  /\ Others(p)
           /\ LockInv'
           /\ RequestInv(p)' /\ PlanInv(p)' /\ OwnerInv(p)'
           /\ req' \in [Requests -> {Idle} \cup SessionRequests \cup AdminRequests]
           /\ left' \in [Requests -> Seq(Locks)]
           /\ held' \in [Requests -> SUBSET Locks]
           /\ plan' \in [Requests -> {NoPlan} \cup Plans]
  <1>1. TypeOK
    BY DEF Inv
  <1>2. req'[p] = Idle /\ left'[p] = <<>> /\ held'[p] = {} /\ plan'[p] = NoPlan
    BY <1>1 DEF finish, TypeOK
  <1>3. Others(p)
    BY <1>1 DEF finish, TypeOK, Others
  <1>4. LockInv'
    BY <1>2, <1>3 DEF Inv, LockInv, Others
  <1>5. RequestInv(p)' /\ PlanInv(p)' /\ OwnerInv(p)'
    BY <1>2 DEF RequestInv, PlanInv, OwnerInv, Settled, Idle, IsScoped, IsAdmin, ChangesUser,
                TakesOwner
  <1>6. /\ req' \in [Requests -> {Idle} \cup SessionRequests \cup AdminRequests]
        /\ held' \in [Requests -> SUBSET Locks]
        /\ plan' \in [Requests -> {NoPlan} \cup Plans]
    BY <1>1 DEF finish, TypeOK
  <1>7. left' \in [Requests -> Seq(Locks)]
    <2>1. <<>> \in Seq(Locks)
      OBVIOUS
    <2> QED
      BY <1>1, <2>1 DEF finish, TypeOK
  <1> QED
    BY <1>3, <1>4, <1>5, <1>6, <1>7

\* A rollback, or a refusal, writes nothing.
LEMMA FinishKeepsInv ==
    ASSUME Inv, NEW p \in Requests, finish(p),
           UNCHANGED <<usersVars, token, access, started, closed, stale>>
    PROVE  Inv'
  <1>1. TypeOK'
    BY FinishedKeepsInv DEF Inv, TypeOK, usersVars
  <1>2. UNCHANGED dbVars
    BY DEF dbVars, usersVars
  <1> QED
    BY <1>1, <1>2, FinishedKeepsInv, RequestStepKeepsInv

\* A new request has its locks before it.
LEMMA BeginKeepsInv ==
    ASSUME Inv, NEW p \in Requests, NEW op, NEW r \in SessionRequests \cup AdminRequests,
           NEW locks \in Seq(Locks), begin(p, op, r, locks),
           IsScoped(r) => Has(locks, ForUpdate(r.user)),
           ChangesUser(r) => Has(locks, KeyShare(Tenant)),
           TakesOwner(r) => Has(locks, ForUpdate(Tenant)),
           IsAdmin(r) /\ r.body.status = "disabled" /\ r.was.status # "disabled" => r.scoped,
           r.op = "refresh" => Used(r.token) /\ token[r.token].user = r.user
    PROVE  Inv'
  <1>1. TypeOK
    BY DEF Inv
  <1>2. /\ req'[p] = r /\ left'[p] = locks
        /\ held' = held /\ plan' = plan /\ held[p] = {} /\ plan[p] = NoPlan
        /\ token' = token
    BY <1>1 DEF begin, TypeOK, Inv, RequestInv
  <1>3. Others(p) /\ UNCHANGED dbVars /\ UNCHANGED stale
    BY <1>1 DEF begin, TypeOK, Others, dbVars, usersVars
  <1>4. TypeOK'
    BY <1>1 DEF begin, TypeOK, usersVars
  <1>5. LockInv'
    BY <1>2 DEF Inv, LockInv
  <1>6. r # Idle
    BY DEF SessionRequests, AdminRequests, Idle
  <1>7. RequestInv(p)'
    BY <1>2, <1>6 DEF RequestInv, Settled, Promised, Used
  <1>8. PlanInv(p)' /\ OwnerInv(p)'
    BY <1>2 DEF PlanInv, Settled, OwnerInv
  <1> QED
    BY <1>3, <1>4, <1>5, <1>7, <1>8, RequestStepKeepsInv

\* The requests about sessions lock their user.
LEMMA BeginSessionKeepsInv ==
    ASSUME Inv, NEW p \in Requests, NEW op, NEW r \in SessionRequests,
           begin(p, op, r, lock_user_token_scope(r.user)),
           r.op = "refresh" => Used(r.token) /\ token[r.token].user = r.user
    PROVE  Inv'
  <1>1. r.user \in Users /\ ~IsAdmin(r)
    BY DEF SessionRequests, IsAdmin
  <1>2. /\ lock_user_token_scope(r.user) \in Seq(Locks)
        /\ Has(lock_user_token_scope(r.user), ForUpdate(r.user))
    BY <1>1, ScopeLocks
  <1> QED
    BY <1>1, <1>2, BeginKeepsInv DEF ChangesUser, TakesOwner

\* Arrivals of login, refresh and logout.
LEMMA SessionArrivalKeepsInv ==
    ASSUME Inv, NEW p \in Requests,
           \/ \E u \in Users : login(p, u)
           \/ \E t \in Tokens : refresh(p, t)
           \/ \E c \in access, kind \in {"all", "family", "jti"}, t \in Tokens :
                logout(p, c, kind, t)
    PROVE  Inv'
  <1>1. ASSUME NEW u \in Users, login(p, u) PROVE Inv'
    <2>1. [op |-> "login", user |-> u] \in SessionRequests
      BY DEF SessionRequests
    <2> QED
      BY <1>1, <2>1, BeginSessionKeepsInv DEF login
  <1>2. ASSUME NEW t \in Tokens, refresh(p, t) PROVE Inv'
    <2> DEFINE r == [op |-> "refresh", user |-> token[t].user, token |-> t]
    <2>1. Used(t) /\ token[t].user \in Users
      BY <1>2, TokenFields DEF refresh, Inv
    <2>2. r \in SessionRequests
      BY <2>1 DEF SessionRequests
    <2>3. begin(p, "refresh", r, lock_user_token_scope(r.user))
      BY <1>2 DEF refresh
    <2>4. Used(r.token) /\ token[r.token].user = r.user
      BY <2>1
    <2> QED
      BY <2>2, <2>3, <2>4, BeginSessionKeepsInv
  <1>3. ASSUME NEW c \in access, NEW kind \in {"all", "family", "jti"}, NEW t \in Tokens,
               logout(p, c, kind, t)
        PROVE  Inv'
    <2> DEFINE r == [op |-> "logout", user |-> c.user, kind |-> kind, token |-> t]
    <2>1. c.user \in Users
      BY DEF Inv, TypeOK
    <2>2. r \in SessionRequests
      BY <2>1 DEF SessionRequests
    <2>3. begin(p, "logout", r, lock_user_token_scope(r.user))
      BY <1>3 DEF logout
    <2> QED
      BY <2>2, <2>3, BeginSessionKeepsInv
  <1> QED
    BY <1>1, <1>2, <1>3

\* Arrivals of PATCH and DELETE.
LEMMA AdminArrivalKeepsInv ==
    ASSUME Inv, NEW p \in Requests, NEW op \in {"update_user", "remove_user"},
           NEW c \in access, NEW u \in Users, NEW body \in Bodies, NEW scoped \in BOOLEAN,
           begin_admin(p, op, c, u, body, scoped),
           body.status = "disabled" /\ status[u] # "disabled" => scoped
    PROVE  Inv'
  <1> DEFINE was == [role |-> role[u], status |-> status[u]]
             r == [op |-> op, user |-> u, body |-> body, was |-> was, scoped |-> scoped]
             locks == admin_locks(u, c.user, body, was, scoped)
  <1>1. c.user \in Users /\ was \in [role : Roles, status : Statuses]
    BY DEF Inv, TypeOK
  <1>2. r \in AdminRequests
    BY <1>1 DEF AdminRequests
  <1>3. begin(p, op, r, locks)
    BY DEF begin_admin
  <1>4. /\ locks \in Seq(Locks)
        /\ scoped => Has(locks, ForUpdate(u))
        /\ Changes(body, was) # {} => Has(locks, KeyShare(Tenant))
        /\ NeedsCheck(body, was) => Has(locks, ForUpdate(Tenant))
    BY <1>1, AdminLocks
  <1>5. /\ r.op = op /\ r.user = u /\ r.body = body /\ r.was = was /\ r.scoped = scoped
        /\ was.status = status[u]
    OBVIOUS
  <1> HIDE DEF r, locks, was
  <1>6. /\ IsScoped(r) => Has(locks, ForUpdate(r.user))
        /\ ChangesUser(r) => Has(locks, KeyShare(Tenant))
        /\ TakesOwner(r) => Has(locks, ForUpdate(Tenant))
        /\ IsAdmin(r) /\ r.body.status = "disabled" /\ r.was.status # "disabled" => r.scoped
        /\ r.op # "refresh"
    BY <1>4, <1>5 DEF IsScoped, IsAdmin, ChangesUser, TakesOwner
  <1> QED
    BY <1>2, <1>3, <1>4, <1>6, BeginKeepsInv

\* Both kinds of PATCH and DELETE lock the tokens of whoever they disable.
LEMMA AdminBeginKeepsInv ==
    ASSUME Inv, NEW p \in Requests,
           \/ \E c \in access, u \in Users, body \in Patches : update_user(p, c, u, body)
           \/ \E c \in access, u \in Users : remove_user(p, c, u)
    PROVE  Inv'
  <1>1. ASSUME NEW c \in access, NEW u \in Users, NEW body \in Patches, update_user(p, c, u, body)
        PROVE  Inv'
    <2>1. body \in Bodies
      BY DEF Bodies
    <2> QED
      BY <1>1, <2>1, AdminArrivalKeepsInv DEF update_user
  <1>2. ASSUME NEW c \in access, NEW u \in Users, remove_user(p, c, u)
        PROVE  Inv'
    <2>1. [role |-> "same", status |-> "disabled"] \in Bodies
      BY DEF Bodies, Statuses
    <2> QED
      BY <1>2, <2>1, AdminArrivalKeepsInv DEF remove_user
  <1> QED
    BY <1>1, <1>2

\* More than one active owner is another one.
LEMMA AnotherOwner ==
    ASSUME ~(Cardinality(ActiveOwners) <= 1), NEW u
    PROVE  \E v \in ActiveOwners : v # u
  <1> SUFFICES ASSUME ActiveOwners \subseteq {u} PROVE FALSE
    OBVIOUS
  <1>1. IsFiniteSet({u}) /\ Cardinality({u}) = 1
    BY FS_Singleton
  <1>2. Cardinality(ActiveOwners) <= 1
    BY <1>1, FS_Subset
  <1> QED
    BY <1>2

\* A lock is taken when nobody holds one against it.
LEMMA TakeKeepsInv ==
    ASSUME Inv, NEW p \in Requests, CanTake(p), take(p),
           Head(left[p]) = ForUpdate(Tenant) => ~(Cardinality(ActiveOwners) <= 1),
           UNCHANGED <<usersVars, token, access, started, closed, stale>>
    PROVE  Inv'
  <1>1. TypeOK
    BY DEF Inv
  <1> DEFINE l == Head(left[p])
  <1>2. /\ left[p] \in Seq(Locks) /\ left[p] # <<>>
        /\ l \in Locks /\ Tail(left[p]) \in Seq(Locks)
    BY <1>1 DEF TypeOK, CanTake, Wants
  <1>3. /\ held'[p] = held[p] \cup {l} /\ left'[p] = Tail(left[p])
        /\ req' = req /\ plan' = plan /\ token' = token
    BY <1>1 DEF take, TypeOK
  <1>4. Others(p) /\ UNCHANGED dbVars /\ UNCHANGED stale
    BY <1>1 DEF take, TypeOK, Others, dbVars, usersVars
  <1>5. TypeOK'
    <2>1. left' \in [Requests -> Seq(Locks)] /\ held' \in [Requests -> SUBSET Locks]
      BY <1>1, <1>2 DEF take, TypeOK
    <2> QED
      BY <1>1, <1>3, <2>1 DEF TypeOK, usersVars
  <1>6. LockInv'
    <2>1. \A q \in Requests \ {p} : \A m \in held[q] : ~Conflict(l, m) /\ ~Conflict(m, l)
      BY LockFacts DEF CanTake, Holders
    <2> QED
      BY <1>3, <1>4, <2>1 DEF Inv, LockInv, Others
  <1>7. \A m : Promised(p, m) => Promised(p, m)'
    <2> SUFFICES ASSUME NEW m, Has(left[p], m), m # l
                 PROVE  Has(Tail(left[p]), m)
      BY <1>3 DEF Promised
    <2>1. PICK i \in 1 .. Len(left[p]) : left[p][i] = m
      BY DEF Has
    <2>2. i # 1
      BY <1>2, <2>1
    <2>3. i - 1 \in 1 .. Len(Tail(left[p])) /\ Tail(left[p])[i - 1] = m
      BY <1>2, <2>1, <2>2
    <2> QED
      BY <2>3 DEF Has
  <1>8. RequestInv(p) /\ PlanInv(p) /\ OwnerInv(p)
    BY DEF Inv
  <1>9. ~Settled(p) /\ req[p] # Idle
    <2>1. ~Settled(p)
      BY <1>2, <1>8 DEF RequestInv
    <2> QED
      BY <1>2, <1>8, <2>1 DEF RequestInv
  <1>10. RequestInv(p)'
    BY <1>3, <1>7, <1>8, <1>9 DEF RequestInv, Settled, Used
  <1>11. PlanInv(p)'
    BY <1>3, <1>9 DEF PlanInv, Settled
  <1>12. OwnerInv(p)'
    BY <1>3, <1>4, <1>8, AnotherOwner DEF OwnerInv, ActiveOwners, dbVars
  <1> QED
    BY <1>4, <1>5, <1>6, <1>10, <1>11, <1>12, RequestStepKeepsInv

-----------------------------------------------------------------------------
(* What is read under the locks. *)

\* The plan of a request has only to be right when it is made.
LEMMA SettleKeepsInv ==
    ASSUME Inv, NEW p \in Requests, req[p] # Idle, left[p] = <<>>,
           NEW tokens \in SUBSET Tokens, NEW families \in SUBSET Tokens,
           NEW issues \in {"one", "none"},
           settle(p, tokens, families, issues),
           UNCHANGED <<usersVars, token, access, started, closed, stale>>,
           plan'[p] = [revokes |-> tokens, closes |-> families, issues |-> issues] => PlanInv(p)'
    PROVE  Inv'
  <1>1. TypeOK
    BY DEF Inv
  <1>2. /\ plan'[p] = [revokes |-> tokens, closes |-> families, issues |-> issues]
        /\ req' = req /\ left' = left /\ held' = held /\ token' = token
    BY <1>1 DEF settle, TypeOK
  <1>3. Others(p) /\ UNCHANGED dbVars /\ UNCHANGED stale
    BY <1>1 DEF settle, TypeOK, Others, dbVars, usersVars
  <1>4. TypeOK'
    <2>1. plan' \in [Requests -> {NoPlan} \cup Plans]
      BY <1>1 DEF settle, TypeOK, Plans
    <2> QED
      BY <1>1, <1>2, <2>1 DEF TypeOK, usersVars
  <1>5. LockInv'
    BY <1>2 DEF Inv, LockInv
  <1>6. RequestInv(p)'
    BY <1>2 DEF Inv, RequestInv, Promised, Used
  <1>7. OwnerInv(p)'
    BY <1>2, <1>3 DEF Inv, OwnerInv, ActiveOwners, dbVars
  <1> QED
    BY <1>2, <1>3, <1>4, <1>5, <1>6, <1>7, RequestStepKeepsInv

\* Users and families of the tokens a request reads.
LEMMA ReadFacts ==
    ASSUME Inv, NEW p \in Requests, UNCHANGED <<usersVars, token, closed>>, req' = req
    PROVE  /\ \A t \in Tokens : Exists(t) =>
                /\ token[t].family \in Tokens /\ Used(token[t].family)
                /\ token[token[t].family].user = token[t].user
           /\ \A t : (Live(t)' <=> Live(t)) /\ (Used(t)' <=> Used(t))
           /\ \A t \in Tokens : Live(t) => Exists(t)
           /\ \A t \in Tokens : Live(t) => token[t].family \notin closed
           /\ \A t, s \in Tokens :
                Live(t) /\ Live(s) /\ token[t].family = token[s].family => t = s
  <1>1. \A t \in Tokens : Exists(t) => token[t].family \in Tokens /\ Used(t)
    BY TokenFields DEF Inv
  <1>2. \A t \in Tokens : Live(t) => Exists(t)
    BY TokenFields DEF Inv
  <1> QED
    BY <1>1, <1>2 DEF Inv, TokenInv, Safe, ClosedStaysClosed, OneLiveToken, Live, Used

\* login
LEMMA ReadLoginKeepsInv ==
    ASSUME Inv, NEW p \in Requests, read_login(p)
    PROVE  Inv'
  <1>1. CASE status[req[p].user] = "active"
    <2>1. settle(p, {}, {}, "one")
      BY <1>1 DEF read_login
    <2>2. /\ req[p].op = "login" /\ left[p] = <<>> /\ req[p] # Idle
          /\ UNCHANGED <<usersVars, token, access, started, closed, stale>>
      BY DEF read_login, Locked, Idle
    <2>3. ASSUME plan'[p] = [revokes |-> {}, closes |-> {}, issues |-> "one"]
          PROVE  PlanInv(p)'
      BY <1>1, <2>1, <2>2, <2>3 DEF PlanInv, settle, usersVars, IsAdmin
    <2> QED
      BY <2>1, <2>2, <2>3, SettleKeepsInv
  <1>2. CASE status[req[p].user] # "active"
    BY <1>2, FinishKeepsInv DEF read_login
  <1> QED
    BY <1>1, <1>2

\* refresh
LEMMA ReadRefreshKeepsInv ==
    ASSUME Inv, NEW p \in Requests, read_refresh(p)
    PROVE  Inv'
  <1> DEFINE t == req[p].token
  <1>1. /\ req[p].op = "refresh" /\ left[p] = <<>> /\ req[p] # Idle
        /\ UNCHANGED <<usersVars, token, access, started, closed, stale>>
    BY DEF read_refresh, Locked, Idle
  <1>2. t \in Tokens /\ Used(t) /\ token[t].user = req[p].user
    BY <1>1, RequestFields DEF Inv, RequestInv
  <1>3. IsScoped(req[p]) /\ ~IsAdmin(req[p])
    BY <1>1 DEF IsScoped, IsAdmin
  <1>4. CASE token[t].state = "revoked" /\ settle(p, FamilyOf(t), {token[t].family}, "none")
    <2>1. Exists(t) /\ req' = req
      BY <1>4 DEF Exists, settle
    <2>2. FamilyOf(t) \in SUBSET Tokens /\ {token[t].family} \in SUBSET Tokens
      BY <1>1, <1>2, <2>1, ReadFacts DEF FamilyOf
    <2>3. ASSUME plan'[p] = [revokes |-> FamilyOf(t), closes |-> {token[t].family},
                             issues |-> "none"]
          PROVE  PlanInv(p)'
      BY <1>1, <1>2, <1>3, <2>1, <2>3, ReadFacts DEF PlanInv, FamilyOf
    <2> QED
      BY <1>1, <1>4, <2>2, <2>3, SettleKeepsInv
  <1>5. CASE Live(t) /\ status[req[p].user] = "active" /\ settle(p, {t}, {}, "one")
    <2>1. req' = req /\ status' = status /\ token' = token /\ closed' = closed
      BY <1>1, <1>5 DEF settle, usersVars
    <2>2. ASSUME plan'[p] = [revokes |-> {t}, closes |-> {}, issues |-> "one"]
          PROVE  PlanInv(p)'
      BY <1>1, <1>2, <1>3, <1>5, <2>1, <2>2, ReadFacts DEF PlanInv
    <2> QED
      BY <1>1, <1>2, <1>5, <2>2, SettleKeepsInv
  <1>6. CASE finish(p)
    BY <1>1, <1>6, FinishKeepsInv
  <1> QED
    BY <1>4, <1>5, <1>6 DEF read_refresh

\* logout
LEMMA ReadLogoutKeepsInv ==
    ASSUME Inv, NEW p \in Requests, read_logout(p)
    PROVE  Inv'
  <1> DEFINE T == revoked_by_logout(req[p])
             F == closed_by_logout(req[p])
             mine == TokensOf(req[p].user)
  <1>1. /\ req[p].op = "logout" /\ left[p] = <<>> /\ req[p] # Idle /\ req' = req
        /\ UNCHANGED <<usersVars, token, access, started, closed, stale>>
        /\ settle(p, T, F, "none")
    BY DEF read_logout, Locked, Idle, settle
  <1>2. IsScoped(req[p]) /\ ~IsAdmin(req[p]) /\ req[p].kind \in {"all", "family", "jti"}
    BY <1>1, RequestFields DEF IsScoped, IsAdmin, Inv
  <1>3. T \in SUBSET Tokens
    BY DEF revoked_by_logout, TokensOf
  <1>4. \A s \in mine : s \in Tokens /\ Exists(s) /\ token[s].user = req[p].user
    BY DEF TokensOf
  <1>5. \A f \in F : \E s \in mine : f = token[s].family
    BY <1>2 DEF closed_by_logout, Families
  <1>6. F \in SUBSET Tokens
    BY <1>1, <1>4, <1>5, ReadFacts
  <1>7. \A f \in F : Used(f) /\ token[f].user = req[p].user
    BY <1>1, <1>4, <1>5, ReadFacts
  <1>8. ASSUME NEW t \in Tokens, Live(t), token[t].family \in F PROVE t \in T
    <2>1. token[t].user = req[p].user /\ Exists(t)
      BY <1>1, <1>7, <1>8, ReadFacts
    <2>2. t \in mine
      BY <2>1 DEF TokensOf
    <2>3. CASE req[p].kind = "all"
      BY <1>8, <2>2, <2>3 DEF revoked_by_logout
    <2>4. CASE req[p].kind = "family"
      <3>1. req[p].token \in mine /\ token[t].family = token[req[p].token].family
        BY <1>8, <2>4 DEF closed_by_logout, Families
      <3> QED
        BY <1>8, <2>1, <2>2, <2>4, <3>1 DEF revoked_by_logout, FamilyOf
    <2>5. CASE req[p].kind = "jti"
      BY <1>8, <2>5 DEF closed_by_logout
    <2> QED
      BY <1>2, <2>3, <2>4, <2>5
  <1> HIDE DEF T, F
  <1>9. ASSUME plan'[p] = [revokes |-> T, closes |-> F, issues |-> "none"]
        PROVE  PlanInv(p)'
    BY <1>1, <1>2, <1>7, <1>8, <1>9, ReadFacts DEF PlanInv
  <1> QED
    BY <1>1, <1>3, <1>6, <1>9, SettleKeepsInv

\* PATCH and DELETE
LEMMA ReadAdminKeepsInv ==
    ASSUME Inv, NEW p \in Requests, read_admin(p)
    PROVE  Inv'
  <1> DEFINE mine == TokensOf(req[p].user)
             T == {t \in mine : Live(t)}
             F == Families(mine)
  <1>1. /\ IsAdmin(req[p]) /\ left[p] = <<>> /\ req[p] # Idle
        /\ UNCHANGED <<usersVars, token, access, started, closed, stale>>
    BY DEF read_admin, Locked, Idle, IsAdmin
  <1>2. CASE ~req[p].scoped /\ settle(p, {}, {}, "none")
    <2>1. ASSUME plan'[p] = [revokes |-> {}, closes |-> {}, issues |-> "none"]
          PROVE  PlanInv(p)'
      BY <1>2, <2>1 DEF PlanInv, settle
    <2> QED
      BY <1>1, <1>2, <2>1, SettleKeepsInv
  <1>3. CASE req[p].scoped /\ settle(p, T, F, "none")
    <2>1. req' = req /\ IsScoped(req[p])
      BY <1>1, <1>3 DEF settle, IsScoped
    <2>2. \A s \in mine : s \in Tokens /\ Exists(s) /\ token[s].user = req[p].user
      BY DEF TokensOf
    <2>3. \A f \in F : f \in Tokens /\ Used(f) /\ token[f].user = req[p].user
      BY <1>1, <2>1, <2>2, ReadFacts DEF Families
    <2>4. \A t \in Tokens : Live(t) /\ token[t].user = req[p].user => t \in T
      BY <1>1, <2>1, ReadFacts DEF TokensOf
    <2>5. \A t \in Tokens : Live(t) /\ token[t].family \in F => t \in T
      BY <1>1, <2>1, <2>3, <2>4, ReadFacts
    <2>6. T \in SUBSET Tokens /\ F \in SUBSET Tokens
      BY <2>2, <2>3
    <2> HIDE DEF T, F
    <2>7. ASSUME plan'[p] = [revokes |-> T, closes |-> F, issues |-> "none"]
          PROVE  PlanInv(p)'
      BY <1>1, <2>1, <2>3, <2>4, <2>5, <2>7, ReadFacts DEF PlanInv
    <2> QED
      BY <1>1, <1>3, <2>6, <2>7, SettleKeepsInv
  <1> QED
    BY <1>1, <1>2, <1>3 DEF read_admin

-----------------------------------------------------------------------------
(* What is written. *)

\* A step that keeps the rows' owners, and gives and closes sessions of other users
\* only, leaves the plan of a request right.
LEMMA WriteKeepsOthers ==
    ASSUME Inv, NEW q \in Requests, TokenInv',
           req'[q] = req[q], left'[q] = left[q], held'[q] = held[q], plan'[q] = plan[q],
           \A t \in Tokens : Used(t) => /\ Used(t)'
                                        /\ token'[t].user = token[t].user
                                        /\ token'[t].family = token[t].family,
           Settled(q) /\ IsScoped(req[q]) =>
             /\ \A t \in Tokens : Live(t)' => Live(t) \/ (Used(t)' /\ token'[t].user # req[q].user)
             /\ \A f \in closed' : f \in closed \/ token[f].user # req[q].user
             /\ status[req[q].user] = "active" => status'[req[q].user] = "active"
    PROVE  RequestInv(q)' /\ PlanInv(q)'
  <1>1. TypeOK /\ RequestInv(q) /\ PlanInv(q)
    BY DEF Inv
  <1>2. RequestInv(q)'
    <2>1. req[q].op = "refresh" => req[q].token \in Tokens
      BY <1>1, RequestFields
    <2> QED
      BY <1>1, <2>1 DEF RequestInv, Promised, Settled
  <1>3. PlanInv(q)'
    <2> SUFFICES ASSUME Settled(q) PROVE PlanInv(q)'
      BY DEF PlanInv, Settled
    <2>1. plan[q] \in Plans /\ plan[q].closes \subseteq Tokens
      BY <1>1 DEF TypeOK, Settled, Plans
    <2>2. plan[q].issues = "one" => IsScoped(req[q])
      BY <1>1 DEF PlanInv, IsScoped
    <2>3. \A f \in plan'[q].closes : Used(f)' /\ token'[f].user = req'[q].user
      BY <1>1, <2>1 DEF PlanInv
    <2>4. ASSUME NEW t \in Tokens, Live(t)', token'[t].family \in plan'[q].closes
          PROVE  t \in plan'[q].revokes
      <3>1. IsScoped(req[q])
        BY <1>1, <2>4 DEF PlanInv
      <3>2. Live(t)
        BY <2>3, <2>4, <3>1 DEF TokenInv
      <3>3. token'[t].family = token[t].family
        BY <1>1, <3>2, TokenFields
      <3> QED
        BY <1>1, <2>4, <3>2, <3>3 DEF PlanInv
    <2>5. ASSUME IsAdmin(req[q]), req[q].scoped,
                 NEW t \in Tokens, Live(t)', token'[t].user = req[q].user
          PROVE  t \in plan'[q].revokes
      <3>1. Live(t)
        BY <2>5 DEF IsScoped
      <3> QED
        BY <1>1, <2>5, <3>1, TokenFields DEF PlanInv
    <2>6. ASSUME plan[q].issues = "one", req[q].op = "refresh"
          PROVE  LET t == req[q].token
                 IN /\ token'[t].family \notin closed'
                    /\ \A s \in Tokens :
                         Live(s)' /\ token'[s].family = token'[t].family => s = t
      <3> DEFINE t == req[q].token
      <3>1. /\ t \in Tokens /\ Used(t) /\ token[t].user = req[q].user
            /\ IsScoped(req[q])
        BY <1>1, <2>2, <2>6, RequestFields DEF RequestInv
      <3>2. token[t].family \in Tokens
        BY <1>1, <3>1, TokenFields
      <3>3. /\ token'[t].family = token[t].family /\ token'[t].user = req[q].user
            /\ token[token[t].family].user = req[q].user
            /\ token'[token[t].family].user = req[q].user
        BY <3>1, <3>2 DEF Inv, TokenInv
      <3>4. token[t].family \notin closed'
        BY <1>1, <2>6, <3>1, <3>3 DEF PlanInv
      <3>5. ASSUME NEW s \in Tokens, Live(s)', token'[s].family = token'[t].family
            PROVE  s = t
        <4>1. Live(s)
          BY <3>1, <3>3, <3>5 DEF TokenInv
        <4>2. token'[s].family = token[s].family
          BY <1>1, <4>1, TokenFields
        <4> QED
          BY <1>1, <2>6, <3>3, <3>5, <4>1, <4>2 DEF PlanInv
      <3> QED
        BY <3>3, <3>4, <3>5
    <2>7. plan[q].issues = "one" => status'[req[q].user] = "active"
      BY <1>1, <2>2 DEF PlanInv
    <2> QED
      BY <1>1, <2>3, <2>4, <2>5, <2>6, <2>7 DEF PlanInv
  <1> QED
    BY <1>2, <1>3

\* Rows that are revoked keep their user and their family.
LEMMA RevokedRows ==
    ASSUME TypeOK, NEW T, \A t \in T : Exists(t), NEW t \in Tokens
    PROVE  /\ Revoked(T)[t] \in {NoToken} \cup TokenRows
           /\ Revoked(T)[t] # NoToken <=> Used(t)
           /\ Used(t) => /\ Revoked(T)[t].user = token[t].user
                         /\ Revoked(T)[t].family = token[t].family
           /\ Revoked(T)[t].state = "live" => Live(t) /\ t \notin T
  <1>1. CASE t \in T
    <2>1. Used(t) /\ token[t] \in TokenRows
      BY <1>1, TokenFields
    <2>2. Revoked(T)[t] = [token[t] EXCEPT !.state = "revoked"]
      BY <1>1 DEF Revoked
    <2>3. /\ Revoked(T)[t] \in TokenRows
          /\ Revoked(T)[t].user = token[t].user
          /\ Revoked(T)[t].family = token[t].family
          /\ Revoked(T)[t].state = "revoked"
      BY <2>1, <2>2 DEF TokenRows
    <2> QED
      BY <2>1, <2>3 DEF NoToken, TokenRows
  <1>2. CASE t \notin T
    <2>1. Revoked(T)[t] = token[t]
      BY <1>2 DEF Revoked
    <2> QED
      BY <1>2, <2>1, TokenFields DEF TypeOK, Used, Live
  <1> QED
    BY <1>1, <1>2

\* Steps of time on the rows of refresh_tokens only.
LEMMA RowsOnlyKeepInv ==
    ASSUME Inv, UNCHANGED <<usersVars, access, requestVars, started, closed, stale>>,
           token' \in [Tokens -> {NoToken} \cup TokenRows],
           \A t \in Tokens : /\ Used(t)' <=> Used(t)
                             /\ Live(t)' => Live(t)
                             /\ Used(t) => /\ token'[t].user = token[t].user
                                           /\ token'[t].family = token[t].family
    PROVE  Inv'
  <1>1. TypeOK /\ TypeOK'
    BY DEF Inv, TypeOK, usersVars, requestVars
  <1>2. closed' = closed /\ status' = status /\ role' = role /\ stale' = stale
        /\ req' = req /\ left' = left /\ held' = held /\ plan' = plan
    BY DEF usersVars, requestVars
  <1>3. \A t \in Tokens : Used(t) => token[t].family \in Tokens
    BY <1>1, TokenFields
  <1>4. \A t \in Tokens : Live(t) => Used(t)
    BY <1>1, TokenFields
  <1>5. TokenInv'
    BY <1>1, <1>2, <1>3 DEF Inv, TypeOK, TokenInv
  <1>6. ASSUME NEW q \in Requests PROVE RequestInv(q)' /\ PlanInv(q)'
    <2>1. \A t \in Tokens : Used(t) => /\ Used(t)'
                                        /\ token'[t].user = token[t].user
                                        /\ token'[t].family = token[t].family
      OBVIOUS
    <2>2. /\ \A t \in Tokens : Live(t)' => Live(t) \/ (Used(t)' /\ token'[t].user # req[q].user)
          /\ \A f \in closed' : f \in closed \/ token[f].user # req[q].user
          /\ status[req[q].user] = "active" => status'[req[q].user] = "active"
      BY <1>2
    <2>3. req'[q] = req[q] /\ left'[q] = left[q] /\ held'[q] = held[q] /\ plan'[q] = plan[q]
      BY <1>2
    <2> QED
      BY <1>5, <2>1, <2>2, <2>3, WriteKeepsOthers
  <1>7. \A q \in Requests : OwnerInv(q)'
    BY <1>2 DEF Inv, OwnerInv, ActiveOwners
  <1>8. LockInv'
    BY <1>2 DEF Inv, LockInv
  <1>9. ClosedStaysClosed' /\ OneLiveToken' /\ DisabledHasNoSession' /\ OwnerRemains'
    BY <1>2, <1>4 DEF Inv, Safe, ClosedStaysClosed, OneLiveToken, DisabledHasNoSession,
                      OwnerRemains, ActiveOwners
  <1> QED
    BY <1>1, <1>5, <1>6, <1>7, <1>8, <1>9 DEF Inv, Safe

\* Time passes.
LEMMA TimeKeepsInv ==
    ASSUME Inv,
           \/ \E t \in Tokens : expire_token(t)
           \/ \E c \in access : expire_access(c)
           \/ cleanup_tokens
    PROVE  Inv'
  <1>1. TypeOK
    BY DEF Inv
  <1>2. ASSUME NEW t \in Tokens, expire_token(t) PROVE Inv'
    <2>1. Used(t) /\ token[t] \in TokenRows
      BY <1>1, <1>2, TokenFields DEF expire_token
    <2>2. token'[t] = [token[t] EXCEPT !.expired = TRUE]
      BY <1>1, <1>2 DEF expire_token, TypeOK
    <2>3. /\ token'[t] \in TokenRows /\ token'[t].state = token[t].state
          /\ token'[t].user = token[t].user /\ token'[t].family = token[t].family
      BY <2>1, <2>2 DEF TokenRows
    <2>4. \A s \in Tokens : s # t => token'[s] = token[s]
      BY <1>1, <1>2 DEF expire_token, TypeOK
    <2>5. token' \in [Tokens -> {NoToken} \cup TokenRows]
      BY <1>1, <1>2, <2>3, <2>4 DEF expire_token, TypeOK
    <2>6. NoToken \notin TokenRows
      BY DEF NoToken, TokenRows
    <2>7. UNCHANGED <<usersVars, access, requestVars, started, closed, stale>>
      BY <1>2 DEF expire_token
    <2>8. ASSUME NEW s \in Tokens
          PROVE  /\ Used(s)' <=> Used(s)
                 /\ Live(s)' => Live(s)
                 /\ Used(s) => /\ token'[s].user = token[s].user
                               /\ token'[s].family = token[s].family
      BY <2>1, <2>3, <2>4, <2>6 DEF Used, Live
    <2> QED
      BY <2>5, <2>7, <2>8, RowsOnlyKeepInv
  <1>3. ASSUME NEW c \in access, expire_access(c) PROVE Inv'
    <2>1. TypeOK'
      BY <1>1, <1>3 DEF expire_access, TypeOK, usersVars, requestVars
    <2>2. /\ role' = role /\ status' = status /\ token' = token /\ closed' = closed
          /\ req' = req /\ left' = left /\ held' = held /\ plan' = plan /\ stale' = stale
      BY <1>3 DEF expire_access, usersVars, requestVars
    <2>3. TokenInv' /\ LockInv' /\ Safe'
      BY <2>2 DEF Inv, TokenInv, Used, LockInv, Safe, ClosedStaysClosed, OneLiveToken,
                  DisabledHasNoSession, OwnerRemains, Live, ActiveOwners
    <2>4. ASSUME NEW q \in Requests PROVE RequestInv(q)' /\ PlanInv(q)' /\ OwnerInv(q)'
      BY <2>2 DEF Inv, RequestInv, PlanInv, OwnerInv, Settled, Promised, Used, Live,
                  ActiveOwners
    <2> QED
      BY <2>1, <2>3, <2>4 DEF Inv
  <1>4. CASE cleanup_tokens
    <2> DEFINE T == {t \in Tokens : Exists(t) /\ token[t].expired}
    <2>1. token' = [t \in Tokens |-> IF t \in T THEN [token[t] EXCEPT !.state = "deleted"]
                                                ELSE token[t]]
      BY <1>4 DEF cleanup_tokens
    <2>2. ASSUME NEW t \in Tokens
          PROVE  /\ token'[t] \in {NoToken} \cup TokenRows
                 /\ Used(t)' <=> Used(t)
                 /\ Live(t)' => Live(t)
                 /\ Used(t) => /\ token'[t].user = token[t].user
                               /\ token'[t].family = token[t].family
      <3>1. CASE t \in T
        <4>1. Used(t) /\ token[t] \in TokenRows
          BY <1>1, <3>1, TokenFields
        <4>2. token'[t] = [token[t] EXCEPT !.state = "deleted"]
          BY <2>1, <3>1
        <4>3. /\ token'[t] \in TokenRows /\ token'[t].state = "deleted"
              /\ token'[t].user = token[t].user /\ token'[t].family = token[t].family
          BY <4>1, <4>2 DEF TokenRows
        <4>4. NoToken \notin TokenRows
          BY DEF NoToken, TokenRows
        <4> QED
          BY <4>1, <4>3, <4>4 DEF Used, Live
      <3>2. CASE t \notin T
        <4>1. token'[t] = token[t]
          BY <2>1, <3>2
        <4> QED
          BY <1>1, <4>1 DEF Used, Live, TypeOK
      <3> QED
        BY <3>1, <3>2
    <2>3. token' \in [Tokens -> {NoToken} \cup TokenRows]
      BY <2>1, <2>2
    <2>4. UNCHANGED <<usersVars, access, requestVars, started, closed, stale>>
      BY <1>4 DEF cleanup_tokens
    <2> QED
      BY <2>2, <2>3, <2>4, RowsOnlyKeepInv
  <1> QED
    BY <1>2, <1>3, <1>4

\* The rows after login, refresh or logout: revoked ones, and at most a new one, of
\* a family that is new or whose only other live row is revoked.
LEMMA SessionRows ==
    ASSUME Inv, NEW p \in Requests, commit_session(p)
    PROVE  /\ token' \in [Tokens -> {NoToken} \cup TokenRows]
           /\ \A t \in Tokens : Used(t) => /\ Used(t)'
                                           /\ token'[t].user = token[t].user
                                           /\ token'[t].family = token[t].family
           /\ \A t \in Tokens : Used(t)' /\ ~Used(t) =>
                /\ plan[p].issues = "one"
                /\ token'[t].user = req[p].user
                /\ \A s \in Tokens : Used(s)' /\ ~Used(s) => s = t
                /\ token'[t].family = (IF req[p].op = "login" THEN t
                                       ELSE token[req[p].token].family)
           /\ \A t \in Tokens : Live(t)' /\ Used(t) => Live(t) /\ t \notin plan[p].revokes
  <1> DEFINE T == plan[p].revokes
  <1>1. TypeOK /\ Settled(p) /\ \A t \in T : Exists(t)
    BY DEF Inv, commit_session
  <1>2. req[p].op \in {"login", "refresh", "logout"} /\ req[p].user \in Users
    BY <1>1, RequestFields DEF commit_session, IsScoped
  <1>3. NoToken \notin TokenRows
    BY DEF NoToken, TokenRows
  <1>4. CASE plan[p].issues # "one"
    <2>1. token' = Revoked(T)
      BY <1>4 DEF commit_session
    <2>2. token' \in [Tokens -> {NoToken} \cup TokenRows]
      <3>1. \A t \in Tokens : Revoked(T)[t] \in {NoToken} \cup TokenRows
        BY <1>1, RevokedRows
      <3>2. Revoked(T) = [t \in Tokens |-> Revoked(T)[t]]
        BY DEF Revoked
      <3> HIDE DEF T
      <3> QED
        BY <2>1, <3>1, <3>2
    <2> HIDE DEF T
    <2>3. \A t \in Tokens : /\ Used(t)' <=> Used(t)
                            /\ Used(t) => /\ token'[t].user = token[t].user
                                          /\ token'[t].family = token[t].family
                            /\ Live(t)' => Live(t) /\ t \notin T
      BY <1>1, <2>1, RevokedRows DEF Used, Live
    <2> QED
      BY <2>2, <2>3 DEF T
  <1>5. CASE plan[p].issues = "one"
    <2> DEFINE family(n) == IF req[p].op = "login" THEN n ELSE token[req[p].token].family
               row(n) == [state |-> "live", user |-> req[p].user, expired |-> FALSE,
                          family |-> family(n)]
    <2>1. PICK n \in Tokens : token[n] = NoToken /\ token' = [Revoked(T) EXCEPT ![n] = row(n)]
      BY <1>5 DEF commit_session, issue
    <2>2. family(n) \in Tokens
      <3>1. CASE req[p].op = "login"
        BY <3>1
      <3>2. CASE req[p].op # "login"
        <4>1. req[p].op = "refresh"
          BY <1>1, <1>5, <3>2 DEF Inv, PlanInv
        <4>2. req[p].token \in Tokens /\ Used(req[p].token)
          BY <1>1, <4>1, RequestFields DEF Inv, RequestInv
        <4> QED
          BY <1>1, <3>2, <4>2, TokenFields
      <3> QED
        BY <3>1, <3>2
    <2>3. row(n) \in TokenRows
      BY <1>2, <2>2 DEF TokenRows
    <2>4. DOMAIN Revoked(T) = Tokens /\ Revoked(T) = [t \in Tokens |-> Revoked(T)[t]]
      BY DEF Revoked
    <2>5. \A t \in Tokens : token'[t] = IF t = n THEN row(n) ELSE Revoked(T)[t]
      BY <2>1, <2>4
    <2>6. token' = [t \in Tokens |-> token'[t]]
      BY <2>1, <2>4
    <2>7. ~Used(n) /\ row(n).user = req[p].user /\ row(n).family = family(n)
      BY <2>1 DEF Used
    <2> HIDE DEF T, row, family
    <2>8. \A t \in Tokens : token'[t] \in {NoToken} \cup TokenRows
      BY <1>1, <2>3, <2>5, RevokedRows DEF T
    <2>9. token' \in [Tokens -> {NoToken} \cup TokenRows]
      BY <2>6, <2>8
    <2>10. ASSUME NEW t \in Tokens, Used(t)
           PROVE  /\ Used(t)'
                  /\ token'[t].user = token[t].user
                  /\ token'[t].family = token[t].family
                  /\ Live(t)' => Live(t) /\ t \notin T
      <3>1. t # n /\ token'[t] = Revoked(T)[t]
        BY <2>5, <2>7, <2>10
      <3> QED
        BY <1>1, <2>10, <3>1, RevokedRows DEF Used, Live, T
    <2>11. ASSUME NEW t \in Tokens, Used(t)', ~Used(t)
           PROVE  t = n
      <3>1. CASE t # n
        <4>1. token'[t] = Revoked(T)[t]
          BY <2>5, <3>1
        <4> QED
          BY <1>1, <2>11, <4>1, RevokedRows DEF Used, T
      <3> QED
        BY <3>1
    <2>12. token'[n].user = req[p].user /\ token'[n].family = family(n)
      BY <2>5, <2>7
    <2> QED
      BY <1>5, <2>9, <2>10, <2>11, <2>12 DEF T, family
  <1> QED
    BY <1>4, <1>5

\* Login, refresh and logout commit.
LEMMA CommitSessionKeepsInv ==
    ASSUME Inv, NEW p \in Requests, commit_session(p)
    PROVE  Inv'
  <1> DEFINE u == req[p].user
  <1>1. TypeOK /\ Settled(p) /\ finish(p)
    BY DEF Inv, commit_session
  <1>2. /\ IsScoped(req[p]) /\ u \in Users
        /\ req[p].op = "refresh" => /\ req[p].token \in Tokens /\ Used(req[p].token)
                                    /\ token[req[p].token].user = u
    BY <1>1, RequestFields DEF commit_session, IsScoped, Inv, RequestInv
  <1>3. plan[p] \in Plans /\ PlanInv(p)
    BY <1>1 DEF Inv, TypeOK, Settled
  <1>4. /\ closed' = closed \cup plan[p].closes /\ role' = role /\ status' = status
        /\ started' = started /\ stale' = stale
    BY DEF commit_session, usersVars
  <1>5. \A t \in Tokens : Used(t) => token[t].family \in Tokens
    BY <1>1, TokenFields
  <1>6. \A t \in Tokens : (Live(t) => Used(t)) /\ (Live(t)' => Used(t)')
    <2>1. \A t \in Tokens : Live(t)' => Used(t)'
      BY DEF Live, Used, NoToken
    <2> QED
      BY <1>1, <2>1, TokenFields
  <1>7. TypeOK'
    <2>1. access' \subseteq [user : Users, role : Roles]
      BY <1>1, <1>2 DEF commit_session, TypeOK
    <2>2. closed' \subseteq Tokens
      BY <1>1, <1>3, <1>4 DEF TypeOK, Plans
    <2> QED
      BY <1>1, <1>4, <2>1, <2>2, FinishedKeepsInv, SessionRows DEF TypeOK
  <1>8. plan[p].issues = "one" =>
          /\ req[p].op \in {"login", "refresh"} /\ plan[p].closes = {} /\ status[u] = "active"
          /\ req[p].op = "refresh" =>
               /\ req[p].token \in plan[p].revokes
               /\ token[req[p].token].family \notin closed
               /\ \A t \in Tokens :
                    Live(t) /\ token[t].family = token[req[p].token].family => t = req[p].token
    BY <1>1, <1>3 DEF PlanInv
  <1>9. TokenInv'
    <2>1. ASSUME NEW t \in Tokens, Used(t)'
          PROVE  /\ token'[token'[t].family] # NoToken
                 /\ token'[token'[t].family].user = token'[t].user
      <3>1. CASE Used(t)
        <4>1. Used(token[t].family) /\ token[token[t].family].user = token[t].user
          BY <3>1 DEF Inv, TokenInv
        <4> QED
          BY <1>5, <3>1, <4>1, SessionRows DEF Used
      <3>2. CASE ~Used(t) /\ req[p].op = "login"
        BY <2>1, <3>2, SessionRows DEF Used
      <3>3. CASE ~Used(t) /\ req[p].op = "refresh"
        <4> DEFINE f == token[req[p].token].family
        <4>1. f \in Tokens /\ Used(f) /\ token[f].user = u
          BY <1>2, <1>5, <3>3 DEF Inv, TokenInv
        <4> QED
          BY <2>1, <3>3, <4>1, SessionRows DEF Used
      <3> QED
        BY <1>8, <2>1, <3>1, <3>2, <3>3, SessionRows
    <2>2. \A f \in closed' : f \in Tokens /\ Used(f)
      BY <1>1, <1>3, <1>4 DEF Inv, TypeOK, TokenInv, PlanInv, Plans
    <2> QED
      BY <2>1, <2>2, SessionRows DEF TokenInv, Used
  <1>10. ASSUME NEW q \in Requests, q # p
         PROVE  RequestInv(q)' /\ PlanInv(q)' /\ OwnerInv(q)'
    <2>1. req'[q] = req[q] /\ left'[q] = left[q] /\ held'[q] = held[q] /\ plan'[q] = plan[q]
      BY <1>1, <1>10, FinishedKeepsInv DEF Others
    <2>2. \A t \in Tokens : Used(t) => /\ Used(t)'
                                       /\ token'[t].user = token[t].user
                                       /\ token'[t].family = token[t].family
      BY SessionRows
    <2>3. ASSUME Settled(q), IsScoped(req[q])
          PROVE  /\ \A t \in Tokens : Live(t)' => Live(t) \/ (Used(t)' /\ token'[t].user # req[q].user)
                 /\ \A f \in closed' : f \in closed \/ token[f].user # req[q].user
      <3>1. u # req[q].user
        BY <1>1, <1>2, <1>10, <2>3, SettledUsersDiffer
      <3> QED
        BY <1>1, <1>3, <1>4, <1>6, <3>1, SessionRows DEF PlanInv
    <2>4. OwnerInv(q)'
      BY <1>4, <2>1 DEF Inv, OwnerInv, ActiveOwners
    <2> QED
      BY <1>4, <1>9, <2>1, <2>2, <2>3, <2>4, WriteKeepsOthers
  <1>11. ClosedStaysClosed'
    <2> SUFFICES ASSUME NEW t \in Tokens, Live(t)' PROVE token'[t].family \notin closed'
      BY DEF ClosedStaysClosed
    <2>1. CASE Used(t)
      <3>1. Live(t) /\ t \notin plan[p].revokes /\ token'[t].family = token[t].family
        BY <2>1, SessionRows
      <3> QED
        BY <1>1, <1>3, <1>4, <3>1 DEF Inv, Safe, ClosedStaysClosed, PlanInv
    <2>2. CASE ~Used(t)
      <3>1. plan[p].issues = "one" /\ closed' = closed
        BY <1>4, <1>6, <1>8, <2>2, SessionRows
      <3> QED
        BY <1>6, <1>8, <2>2, <3>1, SessionRows DEF Inv, TokenInv
    <2> QED
      BY <2>1, <2>2
  <1>12. OneLiveToken'
    <2>1. ASSUME NEW t \in Tokens, NEW s \in Tokens, Live(t)', Live(s)',
                 token'[t].family = token'[s].family, ~Used(t), Used(s)
          PROVE  FALSE
      <3>1. /\ Live(s) /\ s \notin plan[p].revokes /\ token'[s].family = token[s].family
            /\ plan[p].issues = "one" /\ Used(t)'
        BY <1>6, <2>1, SessionRows
      <3>2. CASE req[p].op = "login"
        <4>1. token[s].family = t
          BY <2>1, <3>1, <3>2, SessionRows
        <4> QED
          BY <2>1, <4>1 DEF Inv, TokenInv
      <3>3. CASE req[p].op = "refresh"
        <4>1. token[s].family = token[req[p].token].family
          BY <2>1, <3>1, <3>3, SessionRows
        <4> QED
          BY <1>8, <3>1, <3>3, <4>1
      <3> QED
        BY <1>8, <3>1, <3>2, <3>3
    <2>2. ASSUME NEW t \in Tokens, NEW s \in Tokens, Live(t)', Live(s)',
                 token'[t].family = token'[s].family
          PROVE  t = s
      <3>1. CASE Used(t) /\ Used(s)
        BY <2>2, <3>1, SessionRows DEF Inv, Safe, OneLiveToken
      <3>2. CASE ~Used(t) /\ ~Used(s)
        BY <1>6, <2>2, <3>2, SessionRows
      <3> QED
        BY <2>1, <2>2, <3>1, <3>2
    <2> QED
      BY <2>2 DEF OneLiveToken
  <1>13. DisabledHasNoSession'
    <2> SUFFICES ASSUME NEW t \in Tokens, Live(t)' PROVE status'[token'[t].user] = "active"
      BY DEF DisabledHasNoSession
    <2>1. CASE Used(t)
      BY <1>4, <2>1, SessionRows DEF Inv, Safe, DisabledHasNoSession
    <2>2. CASE ~Used(t)
      BY <1>4, <1>6, <1>8, <2>2, SessionRows
    <2> QED
      BY <2>1, <2>2
  <1>14. OwnerRemains'
    BY <1>4 DEF Inv, Safe, OwnerRemains, ActiveOwners
  <1>15. LockInv' /\ RequestInv(p)' /\ PlanInv(p)' /\ OwnerInv(p)'
    BY <1>1, FinishedKeepsInv
  <1> QED
    BY <1>7, <1>9, <1>10, <1>11, <1>12, <1>13, <1>14, <1>15 DEF Inv, Safe

\* PATCH and DELETE commit.
LEMMA CommitAdminKeepsInv ==
    ASSUME Inv, NEW p \in Requests, commit_admin(p)
    PROVE  Inv'
  <1> DEFINE u == req[p].user
             body == req[p].body
             was == req[p].was
             T == plan[p].revokes
  <1>1. TypeOK /\ Settled(p) /\ finish(p) /\ IsAdmin(req[p]) /\ \A t \in T : Exists(t)
    BY DEF Inv, commit_admin, IsAdmin
  <1>2. /\ u \in Users /\ req[p].op # "refresh"
        /\ body.role \in Roles \cup {"same"} /\ body.status \in Statuses \cup {"same"}
        /\ was.role \in Roles /\ was.status \in Statuses
    BY <1>1, RequestFields DEF Bodies, IsAdmin
  <1>3. plan[p] \in Plans /\ PlanInv(p)
    BY <1>1 DEF Inv, TypeOK, Settled
  <1>4. /\ closed' = closed \cup plan[p].closes /\ token' = Revoked(T)
        /\ access' = access /\ started' = started
    BY DEF commit_admin
  <1>5. /\ role' = (IF "role" \in Changes(body, was) THEN [role EXCEPT ![u] = body.role] ELSE role)
        /\ status' = (IF "status" \in Changes(body, was)
                      THEN [status EXCEPT ![u] = body.status] ELSE status)
    BY DEF commit_admin
  <1>6. /\ "role" \in Changes(body, was) => body.role \in Roles /\ body.role # was.role
        /\ "status" \in Changes(body, was) => body.status \in Statuses /\ body.status # was.status
    BY <1>2 DEF Changes
  <1>7. /\ \A v \in Users \ {u} : role'[v] = role[v] /\ status'[v] = status[v]
        /\ role'[u] = (IF "role" \in Changes(body, was) THEN body.role ELSE role[u])
        /\ status'[u] = (IF "status" \in Changes(body, was) THEN body.status ELSE status[u])
        /\ role' \in [Users -> Roles] /\ status' \in [Users -> Statuses]
    BY <1>1, <1>2, <1>5, <1>6 DEF TypeOK
  <1> HIDE DEF T
  <1>8. \A t \in Tokens : /\ token'[t] \in {NoToken} \cup TokenRows
                          /\ Used(t)' <=> Used(t)
                          /\ Used(t) => /\ token'[t].user = token[t].user
                                        /\ token'[t].family = token[t].family
                          /\ Live(t)' => Live(t) /\ t \notin T
    BY <1>1, <1>4, RevokedRows DEF Used, Live
  <1>9. token' \in [Tokens -> {NoToken} \cup TokenRows]
    <2>1. Revoked(T) = [t \in Tokens |-> Revoked(T)[t]]
      BY DEF Revoked
    <2> QED
      BY <1>4, <1>8, <2>1
  <1>10. TypeOK'
    <2>1. stale' \in BOOLEAN /\ closed' \subseteq Tokens
      <3>1. stale' \in BOOLEAN
        BY <1>1 DEF commit_admin, TypeOK
      <3> QED
        BY <1>1, <1>3, <1>4, <3>1 DEF TypeOK, Plans
    <2> QED
      BY <1>1, <1>4, <1>7, <1>9, <2>1, FinishedKeepsInv DEF TypeOK
  <1>11. \A t \in Tokens : (Live(t) => Used(t)) /\ (Used(t) => token[t].family \in Tokens)
    BY <1>1, TokenFields
  <1>12. TokenInv'
    <2>1. ASSUME NEW t \in Tokens, Used(t)'
          PROVE  /\ token'[token'[t].family] # NoToken
                 /\ token'[token'[t].family].user = token'[t].user
      <3>1. Used(t) /\ Used(token[t].family) /\ token[token[t].family].user = token[t].user
        BY <1>8, <2>1 DEF Inv, TokenInv
      <3> QED
        BY <1>8, <1>11, <3>1 DEF Used
    <2>2. \A f \in closed' : f \in Tokens /\ Used(f)
      BY <1>1, <1>3, <1>4 DEF Inv, TypeOK, TokenInv, PlanInv, Plans
    <2> QED
      BY <1>8, <2>1, <2>2 DEF TokenInv, Used
  \* Who disables a user has locked him and revokes his tokens.
  <1>13. status'[u] = "active" \/ status'[u] = status[u] \/ IsScoped(req[p])
    <2> SUFFICES ASSUME status'[u] # "active", "status" \in Changes(body, was)
                 PROVE  IsScoped(req[p])
      BY <1>7
    <2>1. body.status = "disabled" /\ was.status # "disabled"
      BY <1>6, <1>7 DEF Statuses
    <2> QED
      BY <1>1, <2>1 DEF Inv, RequestInv, IsScoped
  <1>14. ASSUME NEW q \in Requests, q # p
         PROVE  RequestInv(q)' /\ PlanInv(q)' /\ OwnerInv(q)'
    <2>1. req'[q] = req[q] /\ left'[q] = left[q] /\ held'[q] = held[q] /\ plan'[q] = plan[q]
      BY <1>1, <1>14, FinishedKeepsInv DEF Others
    <2>2. \A t \in Tokens : Used(t) => /\ Used(t)'
                                       /\ token'[t].user = token[t].user
                                       /\ token'[t].family = token[t].family
      BY <1>8
    <2>3. ASSUME Settled(q), IsScoped(req[q])
          PROVE  /\ \A t \in Tokens : Live(t)' => Live(t) \/ (Used(t)' /\ token'[t].user # req[q].user)
                 /\ \A f \in closed' : f \in closed \/ token[f].user # req[q].user
                 /\ status[req[q].user] = "active" => status'[req[q].user] = "active"
      <3>1. IsScoped(req[p]) => u # req[q].user
        BY <1>1, <1>14, <2>3, SettledUsersDiffer
      <3>2. req[q].user \in Users
        BY <1>1, <2>3, RequestFields
      <3>3. \A f \in closed' : f \in closed \/ token[f].user # req[q].user
        BY <1>1, <1>3, <1>4, <3>1 DEF PlanInv
      <3>4. status[req[q].user] = "active" => status'[req[q].user] = "active"
        BY <1>7, <1>13, <3>1, <3>2
      <3> QED
        BY <1>8, <3>3, <3>4
    <2>4. OwnerInv(q)'
      <3> SUFFICES ASSUME TakesOwner(req[q]), ForUpdate(Tenant) \in held[q]
                   PROVE  ActiveOwners' = ActiveOwners
        BY <2>1 DEF Inv, OwnerInv
      <3>1. ~ChangesUser(req[p])
        BY <1>1, <1>14, SettledLocks, LockFacts DEF Inv, LockInv
      <3>2. Changes(body, was) = {}
        BY <1>1, <3>1 DEF ChangesUser
      <3> QED
        BY <1>5, <3>2 DEF ActiveOwners
    <2> QED
      BY <1>12, <2>1, <2>2, <2>3, <2>4, WriteKeepsOthers
  <1>15. ClosedStaysClosed'
    BY <1>1, <1>3, <1>4, <1>8, <1>11 DEF Inv, Safe, ClosedStaysClosed, PlanInv, T
  <1>16. OneLiveToken'
    BY <1>8, <1>11 DEF Inv, Safe, OneLiveToken
  <1>17. DisabledHasNoSession'
    <2> SUFFICES ASSUME NEW t \in Tokens, Live(t)' PROVE status'[token'[t].user] = "active"
      BY DEF DisabledHasNoSession
    <2>1. /\ Live(t) /\ t \notin T /\ token'[t].user = token[t].user
          /\ status[token[t].user] = "active" /\ token[t].user \in Users
      BY <1>1, <1>8, <1>11, TokenFields DEF Inv, Safe, DisabledHasNoSession
    <2>2. CASE token[t].user = u
      BY <1>1, <1>3, <1>13, <2>1, <2>2 DEF PlanInv, IsScoped, IsAdmin, T
    <2>3. CASE token[t].user # u
      BY <1>7, <2>1, <2>3
    <2> QED
      BY <2>2, <2>3
  <1>18. OwnerRemains'
    <2> SUFFICES ASSUME ~stale' PROVE \E v \in Users : v \in ActiveOwners'
      BY DEF OwnerRemains
    <2>1. PICK o \in ActiveOwners : TRUE
      BY DEF commit_admin, Inv, Safe, OwnerRemains
    <2>2. \A v \in ActiveOwners : v # u => v \in Users /\ v \in ActiveOwners'
      BY <1>7 DEF ActiveOwners
    <2>3. CASE u \in ActiveOwners'
      BY <1>2, <2>3
    <2>4. CASE u \notin ActiveOwners /\ u \notin ActiveOwners'
      BY <2>1, <2>2, <2>4
    <2>5. CASE u \in ActiveOwners /\ u \notin ActiveOwners'
      <3>1. was = AnActiveOwner
        BY <2>5 DEF commit_admin
      <3>2. role[u] = "owner" /\ status[u] = "active"
            /\ (role'[u] # "owner" \/ status'[u] # "active")
        BY <1>2, <2>5 DEF ActiveOwners
      <3>3. NeedsCheck(body, was)
        BY <1>6, <1>7, <3>1, <3>2 DEF NeedsCheck, AnActiveOwner, Statuses, Roles
      <3>4. \E v \in ActiveOwners : v # u
        BY <1>1, <3>3, SettledLocks DEF Inv, OwnerInv, TakesOwner
      <3> QED
        BY <2>2, <3>4
    <2> QED
      BY <2>3, <2>4, <2>5
  <1>19. LockInv' /\ RequestInv(p)' /\ PlanInv(p)' /\ OwnerInv(p)'
    BY <1>1, FinishedKeepsInv
  <1> QED
    BY <1>10, <1>12, <1>14, <1>15, <1>16, <1>17, <1>18, <1>19 DEF Inv, Safe

-----------------------------------------------------------------------------
(* The invariant and its consequences. *)

\* It holds at the start.
LEMMA InitInv == Init => Inv
  <1> SUFFICES ASSUME Init PROVE Inv
    OBVIOUS
  <1>1. /\ \A p \in Requests : /\ req[p] = Idle /\ left[p] = <<>>
                               /\ held[p] = {} /\ plan[p] = NoPlan
        /\ \A t \in Tokens : token[t] = NoToken
        /\ closed = {}
    BY DEF Init
  <1>2. TypeOK
    <2>1. left \in [Requests -> Seq(Locks)]
      <3>1. <<>> \in Seq(Locks)
        OBVIOUS
      <3> QED
        BY <3>1 DEF Init
    <2>2. access \subseteq [user : Users, role : Roles]
      BY DEF Init
    <2>3. role \in [Users -> Roles] /\ status \in [Users -> Statuses]
      BY DEF Init, Statuses
    <2>4. token \in [Tokens -> {NoToken} \cup TokenRows]
      BY DEF Init
    <2>5. req \in [Requests -> {Idle} \cup SessionRequests \cup AdminRequests]
      BY DEF Init
    <2>6. /\ held \in [Requests -> SUBSET Locks]
          /\ plan \in [Requests -> {NoPlan} \cup Plans]
      BY DEF Init
    <2>7. started \in 0..MaxRequests /\ closed \subseteq Tokens /\ stale \in BOOLEAN
      <3>1. started = 0 /\ closed = {} /\ stale = FALSE
        BY DEF Init
      <3>2. MaxRequests \in Nat
        BY DEF BoundAssumption
      <3>3. 0 \in 0..MaxRequests
        BY <3>2
      <3> QED
        BY <3>1, <3>3
    <2> QED
      BY <2>1, <2>2, <2>3, <2>4, <2>5, <2>6, <2>7 DEF TypeOK
  <1>3. TokenInv /\ LockInv
    BY <1>1 DEF TokenInv, LockInv, Used
  <1>4. ASSUME NEW p \in Requests PROVE RequestInv(p) /\ PlanInv(p) /\ OwnerInv(p)
    BY <1>1 DEF RequestInv, PlanInv, OwnerInv, Settled, Idle, IsScoped, IsAdmin, ChangesUser,
                TakesOwner
  <1>5. ClosedStaysClosed /\ OneLiveToken /\ DisabledHasNoSession
    BY <1>1 DEF ClosedStaysClosed, OneLiveToken, DisabledHasNoSession, Live, NoToken
  <1>6. OwnerRemains
    BY OwnerAssumption DEF Init, OwnerRemains, ActiveOwners
  <1> QED
    BY <1>2, <1>3, <1>4, <1>5, <1>6 DEF Inv, Safe

\* Every step keeps it.
LEMMA NextKeepsInv == Inv /\ [Next]_vars => Inv'
  <1> SUFFICES ASSUME Inv, [Next]_vars PROVE Inv'
    OBVIOUS
  <1>1. ASSUME NEW p \in Requests, SessionStep(p) PROVE Inv'
    BY <1>1, SessionArrivalKeepsInv, ReadLoginKeepsInv, ReadRefreshKeepsInv, ReadLogoutKeepsInv,
       CommitSessionKeepsInv DEF SessionStep
  <1>2. ASSUME NEW p \in Requests, AdminStep(p) PROVE Inv'
    <2>1. CASE assert_not_last_owner(p)
      BY <2>1, TakeKeepsInv, FinishKeepsInv DEF assert_not_last_owner
    <2> QED
      BY <1>2, <2>1, AdminBeginKeepsInv, ReadAdminKeepsInv, CommitAdminKeepsInv DEF AdminStep
  <1>3. ASSUME NEW p \in Requests, acquire(p) PROVE Inv'
    BY <1>3, TakeKeepsInv DEF acquire
  <1>4. ASSUME NEW p \in Requests, rollback(p) PROVE Inv'
    BY <1>4, FinishKeepsInv DEF rollback
  <1>5. CASE UNCHANGED vars
    BY <1>5 DEF vars, Inv, TypeOK, TokenInv, LockInv, RequestInv, PlanInv, OwnerInv, Safe,
                ClosedStaysClosed, OneLiveToken, DisabledHasNoSession, OwnerRemains, Used, Live,
                Settled, Promised, ActiveOwners
  <1> QED
    BY <1>1, <1>2, <1>3, <1>4, <1>5, TimeKeepsInv DEF Next

LEMMA InvHolds == Spec => []Inv
  BY InitInv, NextKeepsInv, PTL DEF Spec

\* Users, tokens, requests and locks are well typed in every reachable state.
THEOREM AccountsTypes == Spec => []TypeOK
  <1>1. Inv => TypeOK
    BY DEF Inv
  <1> QED
    BY <1>1, InvHolds, PTL

\* A session that a committed logout, disabling or reuse has closed has no live token.
THEOREM ClosedSessionsStayClosed == Spec => []ClosedStaysClosed
  <1>1. Inv => ClosedStaysClosed
    BY DEF Inv, Safe
  <1> QED
    BY <1>1, InvHolds, PTL

\* Any number of concurrent refreshes leave at most one live token of a family.
THEOREM RotationIsSafe == Spec => []OneLiveToken
  <1>1. Inv => OneLiveToken
    BY DEF Inv, Safe
  <1> QED
    BY <1>1, InvHolds, PTL

\* A user who is disabled, by whichever request and however it races his logins and
\* refreshes, has no live token.
THEOREM DisabledUsersHaveNoSession == Spec => []DisabledHasNoSession
  <1>1. Inv => DisabledHasNoSession
    BY DEF Inv, Safe
  <1> QED
    BY <1>1, InvHolds, PTL

\* The tenant keeps an active owner, but for a commit that took one it had read,
\* before its locks, as something else.
THEOREM OwnersRemain == Spec => []OwnerRemains
  <1>1. Inv => OwnerRemains
    BY DEF Inv, Safe
  <1> QED
    BY <1>1, InvHolds, PTL

-----------------------------------------------------------------------------
(* The order of the locks. *)

\* A request takes the tenant's row FOR UPDATE first or not at all; a login, a refresh or a
\* logout takes a share of it first and its user last.
IsSession(r) == r.op \in {"login", "refresh", "logout"}
OrderInv(p) ==
    /\ \A i \in 1 .. Len(left[p]) : left[p][i] = ForUpdate(Tenant) => i = 1 /\ held[p] = {}
    /\ IsSession(req[p]) => \/ /\ left[p] = lock_user_token_scope(req[p].user)
                               /\ held[p] = {}
                            \/ /\ left[p] = <<ForUpdate(req[p].user)>>
                               /\ held[p] = {KeyShare(Tenant)}
                            \/ left[p] = <<>>

\* What OrderInv says of the next state.
LEMMA OrderNext ==
    ASSUME NEW p, req'[p] = req[p], left'[p] = left[p], held'[p] = held[p], OrderInv(p)
    PROVE  OrderInv(p)'
  BY DEF OrderInv, IsSession, lock_user_token_scope, ForUpdate, KeyShare

\* The locks of PATCH and DELETE begin with the tenant's, or never have it FOR UPDATE.
LEMMA TenantFirst ==
    ASSUME NEW u \in Users, NEW actor \in Users, NEW body, NEW was, NEW scoped,
           NEW i \in 1 .. Len(admin_locks(u, actor, body, was, scoped)),
           admin_locks(u, actor, body, was, scoped)[i] = ForUpdate(Tenant)
    PROVE  i = 1
  <1> DEFINE check == IF NeedsCheck(body, was) THEN <<ForUpdate(Tenant)>> ELSE <<>>
             scope == IF scoped THEN lock_user_token_scope(u) ELSE <<>>
             write == IF Changes(body, was) # {} THEN write_locks(u, actor) ELSE <<>>
  <1>1. check \in Seq(Locks) /\ Len(check) <= 1
    BY LockFacts
  <1>2. /\ scope \in Seq(Locks)
        /\ \A j \in 1 .. Len(scope) : scope[j] # ForUpdate(Tenant)
    <2>1. CASE scoped
      <3>1. scope = <<KeyShare(Tenant), ForUpdate(u)>>
        BY <2>1 DEF lock_user_token_scope
      <3>2. KeyShare(Tenant) # ForUpdate(Tenant) /\ ForUpdate(u) # ForUpdate(Tenant)
        BY DEF KeyShare, ForUpdate
      <3>3. scope \in Seq(Locks)
        BY <2>1, ScopeLocks
      <3> HIDE DEF scope
      <3>4. Len(scope) = 2 /\ scope[1] = KeyShare(Tenant) /\ scope[2] = ForUpdate(u)
        BY <3>1
      <3> QED
        BY <3>2, <3>3, <3>4
    <2>2. CASE ~scoped
      BY <2>2
    <2> QED
      BY <2>1, <2>2
  <1>3. /\ write \in Seq(Locks)
        /\ \A j \in 1 .. Len(write) : write[j] # ForUpdate(Tenant)
    <2>1. CASE Changes(body, was) # {}
      <3>1. write = <<NoKeyUpdate(u), KeyShare(Tenant), KeyShare(actor)>>
        BY <2>1 DEF write_locks
      <3>2. /\ KeyShare(Tenant) # ForUpdate(Tenant) /\ KeyShare(actor) # ForUpdate(Tenant)
            /\ NoKeyUpdate(u) # ForUpdate(Tenant)
        BY DEF KeyShare, ForUpdate, NoKeyUpdate
      <3>3. /\ NoKeyUpdate(u) \in Locks /\ KeyShare(Tenant) \in Locks
            /\ KeyShare(actor) \in Locks
        BY LockFacts
      <3> HIDE DEF write
      <3>4. /\ Len(write) = 3 /\ write[1] = NoKeyUpdate(u) /\ write[2] = KeyShare(Tenant)
            /\ write[3] = KeyShare(actor)
        BY <3>1
      <3>5. write \in Seq(Locks)
        BY <3>1, <3>3
      <3> QED
        BY <3>2, <3>4, <3>5
    <2>2. CASE Changes(body, was) = {}
      BY <2>2
    <2> QED
      BY <2>1, <2>2
  <1>4. admin_locks(u, actor, body, was, scoped) = check \o scope \o write
    BY DEF admin_locks
  <1> HIDE DEF check, scope, write
  <1> QED
    BY <1>1, <1>2, <1>3, <1>4

\* A request that arrives has taken no lock.
LEMMA BeginKeepsOrder ==
    ASSUME Inv, NEW p \in Requests, NEW op, NEW r, NEW locks \in Seq(Locks), begin(p, op, r, locks),
           \A i \in 1 .. Len(locks) : locks[i] = ForUpdate(Tenant) => i = 1,
           IsSession(r) => locks = lock_user_token_scope(r.user)
    PROVE  Others(p) /\ OrderInv(p)'
  <1>1. req'[p] = r /\ left'[p] = locks /\ held'[p] = held[p] /\ held[p] = {}
    BY DEF begin, Inv, TypeOK, RequestInv
  <1>2. Others(p)
    BY DEF begin, Others, Inv, TypeOK
  <1> QED
    BY <1>1, <1>2 DEF OrderInv, IsSession, lock_user_token_scope, ForUpdate, KeyShare

\* A lock is taken in its turn.
LEMMA TakeKeepsOrder ==
    ASSUME Inv, NEW p \in Requests, OrderInv(p), take(p), left[p] # <<>>
    PROVE  Others(p) /\ OrderInv(p)'
  <1>1. /\ req'[p] = req[p] /\ left'[p] = Tail(left[p]) /\ left[p] \in Seq(Locks)
        /\ held'[p] = held[p] \cup {Head(left[p])}
    BY DEF take, Inv, TypeOK
  <1>2. Others(p)
    BY DEF take, Others, Inv, TypeOK
  <1>3. ASSUME NEW i \in 1 .. Len(Tail(left[p])), Tail(left[p])[i] = ForUpdate(Tenant)
        PROVE  FALSE
    <2>1. i + 1 \in 1 .. Len(left[p]) /\ left[p][i + 1] = ForUpdate(Tenant) /\ i + 1 # 1
      BY <1>1, <1>3
    <2> QED
      BY <2>1 DEF OrderInv
  <1>4. ASSUME IsSession(req[p])
        PROVE  \/ /\ Tail(left[p]) = <<ForUpdate(req[p].user)>>
                  /\ held'[p] = {KeyShare(Tenant)}
               \/ Tail(left[p]) = <<>>
    <2>1. CASE left[p] = lock_user_token_scope(req[p].user) /\ held[p] = {}
      BY <1>1, <2>1 DEF lock_user_token_scope
    <2>2. CASE left[p] = <<ForUpdate(req[p].user)>>
      BY <2>2
    <2> QED
      BY <1>4, <2>1, <2>2 DEF OrderInv
  <1> QED
    BY <1>1, <1>2, <1>3, <1>4 DEF OrderInv, IsSession, lock_user_token_scope, ForUpdate, KeyShare

\* A request that is over wants nothing.
LEMMA FinishKeepsOrder ==
    ASSUME Inv, NEW p \in Requests, finish(p)
    PROVE  Others(p) /\ OrderInv(p)'
  <1>1. left'[p] = <<>> /\ req'[p] = Idle
    BY DEF finish, Inv, TypeOK
  <1>2. Others(p)
    BY DEF finish, Others, Inv, TypeOK
  <1> QED
    BY <1>1, <1>2 DEF OrderInv, IsSession, Idle

\* A request that settles what it will write takes no lock.
LEMMA SettleKeepsOrder ==
    ASSUME Inv, NEW p \in Requests, OrderInv(p), NEW tokens, NEW families, NEW issues,
           settle(p, tokens, families, issues)
    PROVE  Others(p) /\ OrderInv(p)'
  <1>1. Others(p)
    BY DEF settle, Others, Inv, TypeOK
  <1>2. req'[p] = req[p] /\ left'[p] = left[p] /\ held'[p] = held[p]
    BY DEF settle
  <1> QED
    BY <1>1, <1>2, OrderNext

\* Every step keeps the order.
LEMMA NextKeepsOrder ==
    ASSUME Inv, \A p \in Requests : OrderInv(p), [Next]_vars
    PROVE  \A p \in Requests : OrderInv(p)'
  <1>1. ASSUME NEW p \in Requests, Others(p), OrderInv(p)'
        PROVE  \A q \in Requests : OrderInv(q)'
    BY <1>1, OrderNext DEF Others
  <1>2. ASSUME UNCHANGED <<req, left, held>>
        PROVE  \A q \in Requests : OrderInv(q)'
    BY <1>2, OrderNext
  <1>3. ASSUME NEW p \in Requests, NEW op, NEW r, NEW u \in Users, IsSession(r), r.user = u,
               begin(p, op, r, lock_user_token_scope(u))
        PROVE  \A q \in Requests : OrderInv(q)'
    <2>1. lock_user_token_scope(u) \in Seq(Locks)
      BY ScopeLocks
    <2>2. /\ Len(lock_user_token_scope(u)) = 2
          /\ lock_user_token_scope(u)[2] # ForUpdate(Tenant)
      BY DEF lock_user_token_scope, ForUpdate
    <2>3. \A i \in 1 .. Len(lock_user_token_scope(u)) :
             lock_user_token_scope(u)[i] = ForUpdate(Tenant) => i = 1
      BY <2>2
    <2> QED
      BY <1>1, <1>3, <2>1, <2>3, BeginKeepsOrder
  <1>4. ASSUME NEW p \in Requests, SessionStep(p)
        PROVE  \A q \in Requests : OrderInv(q)'
    <2>1. ASSUME NEW u \in Users, login(p, u)
          PROVE  \A q \in Requests : OrderInv(q)'
      <3> DEFINE r == [op |-> "login", user |-> u]
      <3>1. IsSession(r) /\ r.user = u
        BY DEF IsSession
      <3>2. begin(p, "login", r, lock_user_token_scope(u))
        BY <2>1 DEF login
      <3> HIDE DEF r
      <3> QED
        BY <1>3, <3>1, <3>2
    <2>2. ASSUME NEW t \in Tokens, refresh(p, t)
          PROVE  \A q \in Requests : OrderInv(q)'
      <3>1. token[t].user \in Users
        BY <2>2, TokenFields DEF refresh, Inv
      <3> QED
        BY <1>3, <2>2, <3>1 DEF refresh, IsSession
    <2>3. ASSUME NEW c \in access, NEW kind, NEW t \in Tokens, logout(p, c, kind, t)
          PROVE  \A q \in Requests : OrderInv(q)'
      <3>1. c.user \in Users
        BY DEF Inv, TypeOK
      <3> QED
        BY <1>3, <2>3, <3>1 DEF logout, IsSession
    <2>4. CASE read_login(p)
      BY <1>1, <2>4, SettleKeepsOrder, FinishKeepsOrder DEF read_login
    <2>5. CASE read_refresh(p)
      BY <1>1, <2>5, SettleKeepsOrder, FinishKeepsOrder DEF read_refresh
    <2>6. CASE read_logout(p)
      BY <1>1, <2>6, SettleKeepsOrder DEF read_logout
    <2>7. CASE commit_session(p)
      BY <1>1, <2>7, FinishKeepsOrder DEF commit_session
    <2> QED
      BY <1>4, <2>1, <2>2, <2>3, <2>4, <2>5, <2>6, <2>7 DEF SessionStep
  <1>5. ASSUME NEW p \in Requests, NEW op \in {"update_user", "remove_user"}, NEW c \in access,
               NEW u \in Users, NEW body, NEW scoped, begin_admin(p, op, c, u, body, scoped)
        PROVE  \A q \in Requests : OrderInv(q)'
    <2> DEFINE was == [role |-> role[u], status |-> status[u]]
               r == [op |-> op, user |-> u, body |-> body, was |-> was, scoped |-> scoped]
               locks == admin_locks(u, c.user, body, was, scoped)
    <2>1. begin(p, op, r, locks)
      BY <1>5 DEF begin_admin
    <2>2. c.user \in Users
      BY DEF Inv, TypeOK
    <2>3. locks \in Seq(Locks) /\ \A i \in 1 .. Len(locks) : locks[i] = ForUpdate(Tenant) => i = 1
      BY <2>2, AdminLocks, TenantFirst
    <2>4. ~IsSession(r)
      BY DEF IsSession
    <2> HIDE DEF r, locks
    <2> QED
      BY <1>1, <2>1, <2>3, <2>4, BeginKeepsOrder
  <1>6. ASSUME NEW p \in Requests, AdminStep(p)
        PROVE  \A q \in Requests : OrderInv(q)'
    <2>1. ASSUME NEW c \in access, NEW u \in Users, NEW body, update_user(p, c, u, body)
          PROVE  \A q \in Requests : OrderInv(q)'
      BY <1>5, <2>1 DEF update_user
    <2>2. ASSUME NEW c \in access, NEW u \in Users, remove_user(p, c, u)
          PROVE  \A q \in Requests : OrderInv(q)'
      BY <1>5, <2>2 DEF remove_user
    <2>3. CASE assert_not_last_owner(p)
      BY <1>1, <2>3, TakeKeepsOrder, FinishKeepsOrder DEF assert_not_last_owner, CanTake, Wants
    <2>4. CASE read_admin(p)
      BY <1>1, <2>4, SettleKeepsOrder DEF read_admin
    <2>5. CASE commit_admin(p)
      BY <1>1, <2>5, FinishKeepsOrder DEF commit_admin
    <2> QED
      BY <1>6, <2>1, <2>2, <2>3, <2>4, <2>5 DEF AdminStep
  <1>7. ASSUME NEW p \in Requests, acquire(p) \/ rollback(p)
        PROVE  \A q \in Requests : OrderInv(q)'
    BY <1>1, <1>7, TakeKeepsOrder, FinishKeepsOrder DEF acquire, rollback, CanTake, Wants
  <1>8. CASE UNCHANGED <<req, left, held>>
    BY <1>2, <1>8
  <1>9. CASE \/ \E t \in Tokens : expire_token(t)
             \/ \E c \in access : expire_access(c)
             \/ cleanup_tokens
    BY <1>2, <1>9 DEF expire_token, expire_access, cleanup_tokens, requestVars
  <1> QED
    BY <1>4, <1>6, <1>7, <1>8, <1>9 DEF Next, vars

\* Whoever waits for a member of a circle keeps it from being smaller.
LEMMA EachIsWaitedFor ==
    ASSUME NEW S \in SUBSET Requests, Circle(S), NEW p \in S
    PROVE  \E q \in S : q # p /\ Wants(q) /\ \E m \in held[p] : Conflict(Head(left[q]), m)
  <1> SUFFICES ASSUME \A q \in S : q # p /\ Wants(q) =>
                        ~ \E m \in held[p] : Conflict(Head(left[q]), m)
               PROVE  FALSE
    OBVIOUS
  <1> DEFINE T == S \ {p}
  <1>1. \A q \in S : Wants(q) /\ Holders(q, Head(left[q])) \cap S # {}
    BY DEF Circle, Waiting
  <1>2. T # {}
    BY <1>1 DEF Holders
  <1>3. \A q \in T : p \notin Holders(q, Head(left[q]))
    BY <1>1 DEF Holders
  <1>4. Waiting(T)
    BY <1>1, <1>2, <1>3 DEF Waiting
  <1> QED
    BY <1>4 DEF Circle

\* Logins, refreshes and logouts take the tenant, then the user, then the tokens: none is
\* ever part of a deadlock, whatever the administrators do.
THEOREM SessionsAreFreeOfDeadlock == Spec => []SessionsNeverDeadlock
  <1>1. Init => \A p \in Requests : OrderInv(p)
    BY DEF Init, OrderInv, IsSession, Idle
  <1>2. Inv /\ (\A p \in Requests : OrderInv(p)) /\ [Next]_vars => (\A p \in Requests : OrderInv(p))'
    BY NextKeepsOrder
  <1>3. Inv /\ (\A p \in Requests : OrderInv(p)) => SessionsNeverDeadlock
    <2> SUFFICES ASSUME Inv, \A p \in Requests : OrderInv(p),
                        NEW S \in SUBSET Requests, Circle(S), NEW p \in S,
                        IsSession(req[p])
                 PROVE  FALSE
      BY DEF SessionsNeverDeadlock, IsSession
    <2>1. PICK q \in S : q # p /\ Wants(q) /\ \E m \in held[p] : Conflict(Head(left[q]), m)
      BY EachIsWaitedFor
    <2>2. held[p] = {KeyShare(Tenant)}
      <3>1. held[p] # {} /\ left[p] # <<>>
        BY <2>1 DEF Circle, Waiting, Wants
      <3> QED
        BY <3>1 DEF OrderInv
    <2>3. left[q] \in Seq(Locks) /\ left[q] # <<>> /\ Conflict(Head(left[q]), KeyShare(Tenant))
      BY <2>1, <2>2 DEF Inv, TypeOK, Wants
    <2>4. 1 \in 1 .. Len(left[q]) /\ left[q][1] = Head(left[q]) /\ Head(left[q]) \in Locks
      BY <2>3
    <2>5. left[q][1] = ForUpdate(Tenant)
      <3> DEFINE l == Head(left[q])
      <3>1. l = [row |-> l.row, mode |-> l.mode]
        BY <2>4 DEF Locks
      <3>2. l.row = Tenant /\ l.mode = "update"
        BY <2>3 DEF Conflict, KeyShare
      <3> QED
        BY <2>4, <3>1, <3>2 DEF ForUpdate
    <2>6. held[q] = {}
      BY <2>4, <2>5 DEF OrderInv
    <2> QED
      BY <2>1, <2>6, EachIsWaitedFor
  <1> QED
    BY <1>1, <1>2, <1>3, InitInv, NextKeepsInv, PTL DEF Spec

=============================================================================
