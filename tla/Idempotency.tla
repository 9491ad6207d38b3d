---------------------------- MODULE Idempotency -----------------------------
(***************************************************************************)
(* POST /ingest/{slug} under X-Request-Id: the requests that carry the     *)
(* same id to the same receiver, the Redis key they share, and the         *)
(* notification each of them may commit.                                   *)
(*                                                                         *)
(* One Redis command or script is one step, one database transaction is    *)
(* one step; another request, a crash or the expiry of the key may fall    *)
(* between any two of them.  Time is relative: the key has a ttl, a waiter *)
(* has time left, and a reservation has an age, all of them moved by Tick. *)
(***************************************************************************)
EXTENDS Integers

CONSTANTS
    Requests,      \* requests with the same X-Request-Id, retries included
    Nobody,        \* the owner of no key
    Window,        \* IDEMPOTENCY_WINDOW_SECONDS, in ticks
    Wait           \* IDEMPOTENCY_WAIT_SECONDS, in ticks

ASSUME WindowAssumption == Window \in Nat \ {0} /\ Wait \in Nat

VARIABLES
    key,           \* the value in Redis: absent, a sentinel, or a saved body
    owner,         \* whose sentinel, or whose response, the value is
    ttl,           \* ticks until the key expires, 0 for never
    pc,            \* where each request is
    wait_left,     \* ticks until the deadline of a waiter
    committed,     \* requests whose notification is in the database
    answer,        \* the answer: an error, a conflict, or whose notification
    age,           \* ticks since the reservation, Window and beyond as Window
    near,          \* pairs <<r, s>>: s reserved less than a window after r
    unsure         \* requests that saw their commit fail after it succeeded

redisVars == <<key, owner, ttl>>
ghostVars == <<age, near, unsure>>
vars == <<redisVars, pc, wait_left, committed, answer, ghostVars>>

-----------------------------------------------------------------------------
Places == {"start", "waiting", "taking_over", "owner", "uploaded", "releasing", "committed",
           "done", "dead"}
Errors == {"none", "error", "conflict"}
Never == -1        \* the age of a request that reserved nothing

ASSUME RequestsAssumption == Requests \cap (Errors \cup {Nobody}) = {}

Init ==
    /\ key = "absent"
    /\ owner = Nobody
    /\ ttl = 0
    /\ pc = [r \in Requests |-> "start"]
    /\ wait_left = [r \in Requests |-> 0]
    /\ committed = {}
    /\ answer = [r \in Requests |-> "none"]
    /\ age = [r \in Requests |-> Never]
    /\ near = {}
    /\ unsure = {}

goto(r, place) == pc' = [pc EXCEPT ![r] = place]
respond(r, what) == goto(r, "done") /\ answer' = [answer EXCEPT ![r] = what]

\* Mistake: the sentinel has no expiry.
set_nx_without_expiry(r) ==
    /\ key = "absent"
    /\ key' = "processing"
    /\ owner' = r
    /\ ttl' = 0
    /\ age' = [age EXCEPT ![r] = 0]
    /\ near' = near \cup {<<q, r>> : q \in {s \in Requests : age[s] \in 0 .. Window - 1}}

\* SET key sentinel NX EX window, when it succeeds.
set_nx(r) ==
    /\ key = "absent"
    /\ key' = "processing"
    /\ owner' = r
    /\ ttl' = Window
    /\ age' = [age EXCEPT ![r] = 0]
    /\ near' = near \cup {<<q, r>> : q \in {s \in Requests : age[s] \in 0 .. Window - 1}}

-----------------------------------------------------------------------------
(* reserve. *)

\* The first SET NX: the request owns the id, or waits for whoever does, or
\* (Redis answered too late) fails with its sentinel in place.
reserve(r) ==
    /\ pc[r] = "start"
    /\ \/ /\ set_nx(r)
          /\ \/ goto(r, "owner") /\ UNCHANGED answer
             \/ respond(r, "error")
          /\ UNCHANGED wait_left
       \/ /\ key # "absent"
          /\ goto(r, "waiting")
          /\ wait_left' = [wait_left EXCEPT ![r] = Wait]
          /\ UNCHANGED <<redisVars, answer, age, near>>
    /\ UNCHANGED <<committed, unsure>>

\* Mistake: GET of a key that expired is taken for a saved body.
poll_replays_absent(r) ==
    /\ pc[r] = "waiting"
    /\ \/ /\ key # "processing"
          /\ respond(r, owner)
       \/ /\ key = "processing"
          /\ wait_left[r] = 0
          /\ respond(r, "conflict")
    /\ UNCHANGED <<redisVars, wait_left, committed, ghostVars>>

\* One turn of the polling loop: GET.  A saved body is replayed; an absent key
\* may be taken over; a sentinel is waited for until the deadline.
poll(r) ==
    /\ pc[r] = "waiting"
    /\ \/ /\ key = "body"
          /\ respond(r, owner)
       \/ /\ key = "absent"
          /\ goto(r, "taking_over")
          /\ UNCHANGED answer
       \/ /\ key = "processing"
          /\ wait_left[r] = 0
          /\ respond(r, "conflict")
    /\ UNCHANGED <<redisVars, wait_left, committed, ghostVars>>

\* The SET NX of a waiter that found the key absent; when somebody was faster
\* the loop goes on, if there is time left.
take_over(r) ==
    /\ pc[r] = "taking_over"
    /\ \/ /\ set_nx(r)
          /\ \/ goto(r, "owner") /\ UNCHANGED answer
             \/ respond(r, "error")
       \/ /\ key # "absent"
          /\ \/ wait_left[r] > 0 /\ goto(r, "waiting") /\ UNCHANGED answer
             \/ wait_left[r] = 0 /\ respond(r, "conflict")
          /\ UNCHANGED <<redisVars, age, near>>
    /\ UNCHANGED <<wait_left, committed, unsure>>

\* A Redis command of reserve fails without effect: the request fails with it.
reserve_fails(r) ==
    /\ pc[r] \in {"start", "waiting", "taking_over"}
    /\ respond(r, "error")
    /\ UNCHANGED <<redisVars, wait_left, committed, ghostVars>>

-----------------------------------------------------------------------------
(* The transactions of _ingest, and what follows them. *)

\* A payload over the inline limit: the first transaction, then the PUT.
upload_object(r) ==
    /\ pc[r] = "owner"
    /\ goto(r, "uploaded")
    /\ UNCHANGED <<redisVars, wait_left, committed, answer, ghostVars>>

\* Anything fails before the commit: a quota, the PUT, the database.
fail(r) ==
    /\ pc[r] \in {"owner", "uploaded"}
    /\ goto(r, "releasing")
    /\ UNCHANGED <<redisVars, wait_left, committed, answer, ghostVars>>

\* The transaction that writes commits.
commit(r) ==
    /\ pc[r] \in {"owner", "uploaded"}
    /\ committed' = committed \cup {r}
    /\ goto(r, "committed")
    /\ UNCHANGED <<redisVars, wait_left, answer, ghostVars>>

\* The transaction commits, but its session ends with an exception all the
\* same: the connection is lost, or the task is cancelled, before the commit is
\* acknowledged or while the session is closed.
commit_reported_as_failed(r) ==
    /\ pc[r] \in {"owner", "uploaded"}
    /\ committed' = committed \cup {r}
    /\ unsure' = unsure \cup {r}
    /\ goto(r, "releasing")
    /\ UNCHANGED <<redisVars, wait_left, answer, age, near>>

\* Mistake: DEL without the comparison.
release_any(r) ==
    /\ pc[r] = "releasing"
    /\ respond(r, "error")
    /\ \/ key' = "absent" /\ owner' = Nobody /\ ttl' = 0
       \/ UNCHANGED redisVars
    /\ UNCHANGED <<wait_left, committed, ghostVars>>

\* _COMPARE_AND_DELETE; a Redis error is logged and the sentinel stays.
release(r) ==
    /\ pc[r] = "releasing"
    /\ respond(r, "error")
    /\ \/ /\ key = "processing"
          /\ owner = r
          /\ key' = "absent"
          /\ owner' = Nobody
          /\ ttl' = 0
       \/ UNCHANGED redisVars
    /\ UNCHANGED <<wait_left, committed, ghostVars>>

\* _COMPARE_AND_STORE, which opens a new window; a Redis error is logged and the
\* sentinel stays.
store_response(r) ==
    /\ pc[r] = "committed"
    /\ respond(r, r)
    /\ \/ /\ key = "processing"
          /\ owner = r
          /\ key' = "body"
          /\ ttl' = Window
          /\ UNCHANGED owner
       \/ UNCHANGED redisVars
    /\ UNCHANGED <<wait_left, committed, ghostVars>>

\* The process of the API is killed, or the waiter's client goes away.
crash(r) ==
    /\ pc[r] \notin {"start", "done", "dead"}
    /\ goto(r, "dead")
    /\ UNCHANGED <<redisVars, wait_left, committed, answer, ghostVars>>

-----------------------------------------------------------------------------
\* A reservation gets older, up to Window.
older(a) == IF a \in 0 .. Window - 1 THEN a + 1 ELSE a

\* One tick: the key gets closer to its expiry, and goes when it gets there.
Tick ==
    /\ \/ ttl > 1 /\ ttl' = ttl - 1 /\ UNCHANGED <<key, owner>>
       \/ ttl = 1 /\ ttl' = 0 /\ key' = "absent" /\ owner' = Nobody
       \/ ttl = 0 /\ UNCHANGED redisVars
    /\ wait_left' = [r \in Requests |-> IF wait_left[r] > 0 THEN wait_left[r] - 1 ELSE 0]
    /\ age' = [r \in Requests |-> older(age[r])]
    /\ UNCHANGED <<pc, committed, answer, near, unsure>>

Step(r) ==
    \/ reserve(r) \/ poll(r) \/ take_over(r) \/ reserve_fails(r)
    \/ upload_object(r) \/ fail(r) \/ commit(r) \/ commit_reported_as_failed(r)
    \/ release(r) \/ store_response(r)

Next ==
    \/ \E r \in Requests : Step(r)
    \/ \E r \in Requests : crash(r)
    \/ Tick

Spec == Init /\ [][Next]_vars

\* A request that has arrived runs until it is answered or killed, and time
\* passes.  Nothing is assumed of arrivals, and no failure has to happen.
Progress(r) ==
    poll(r) \/ take_over(r) \/ upload_object(r) \/ commit(r) \/ release(r) \/ store_response(r)

Fairness ==
    /\ WF_vars(Tick)
    /\ \A r \in Requests : WF_vars(Progress(r))

FairSpec == Spec /\ Fairness

-----------------------------------------------------------------------------
(* Properties. *)

\* Type invariant of the requests and of the key they share.
TypeOK ==
    /\ key \in {"absent", "processing", "body"}
    /\ owner \in Requests \cup {Nobody}
    /\ ttl \in 0 .. Window
    /\ pc \in [Requests -> Places]
    /\ wait_left \in [Requests -> 0 .. Wait]
    /\ committed \subseteq Requests
    /\ answer \in [Requests -> Errors \cup Requests]
    /\ age \in [Requests -> Never .. Window]
    /\ near \subseteq Requests \X Requests
    /\ unsure \subseteq Requests

\* Two requests with one id both create a notification only if the second one
\* reserved the id a window or more after the first (which was that slow, or whose
\* saved response had expired), or if the first had its commit reported as failed.
NoDuplicate ==
    \A r, s \in committed : <<r, s>> \in near => r \in unsure

\* Every 201 and every replay names a notification that was committed.
AnswerIsBacked ==
    \A r \in Requests : answer[r] \in Requests => answer[r] \in committed

\* What notifyhub-spec 6.3 promises of a repeated id, "entro la finestra: nessuna
\* scrittura", with no exception: the code keeps it but for commits that succeed
\* and are reported as failed, after which _ingest releases the key.
NoWriteWithinWindow ==
    \A r, s \in committed : <<r, s>> \notin near

\* A value in Redis goes by expiry, or by the last step of the request it belongs
\* to: a slow owner that lost the key never removes or replaces its successor's.
KeyHasOneWriter ==
    [][\/ UNCHANGED <<key, owner>>
       \/ key = "absent"
       \/ ttl = 1 /\ key' = "absent" /\ UNCHANGED pc
       \/ /\ key = "processing"
          /\ pc[owner] \in {"releasing", "committed"}
          /\ pc'[owner] = "done"]_vars

\* Every request that arrived is answered, whatever happens to the owner it waits for,
\* unless its own process dies; and an id whose owner died is not blocked for ever: every
\* sentinel goes.
EveryRequestAnswered ==
    /\ \A r \in Requests : pc[r] # "start" ~> pc[r] \in {"done", "dead"}
    /\ key = "processing" ~> key # "processing"
=============================================================================
