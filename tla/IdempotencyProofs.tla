------------------------- MODULE IdempotencyProofs --------------------------
(***************************************************************************)
(* Idempotency for every number of requests and every length of the        *)
(* window: the key excludes the second writer.  The invariant says that a  *)
(* request that may still commit, or has, holds the key for the rest of    *)
(* its window; one that gave the key up within it commits no more.         *)
(***************************************************************************)
EXTENDS Idempotency, TLAPS

\* r may still write its notification, or wrote it and knows.
Holds(r) ==
    /\ age[r] \in 0 .. Window - 1
    /\ \/ pc[r] \in {"owner", "uploaded", "committed"}
       \/ r \in committed /\ r \notin unsure

\* A request before its reservation has no age and no notification.
FreshInv ==
    \A r \in Requests : pc[r] \in {"start", "waiting", "taking_over"} =>
        age[r] = Never /\ r \notin committed

\* The key outlives the window of whoever holds it.
HoldInv ==
    \A r \in Requests : Holds(r) =>
        key # "absent" /\ owner = r /\ ttl >= Window - age[r]

\* Who gave the key up within the window writes no more.
NearInv ==
    \A r, s \in Requests : <<r, s>> \in near =>
        \/ r \in unsure
        \/ r \notin committed /\ pc[r] \in {"releasing", "done", "dead"}

\* A value in Redis belongs to a request, and a saved body to one that committed.
KeyInv ==
    /\ key # "absent" => owner \in Requests
    /\ key = "body" => owner \in committed
    /\ \A r \in Requests : pc[r] = "committed" => r \in committed
    /\ \A r \in committed :
         pc[r] \in {"committed", "done", "dead"} \/ (pc[r] = "releasing" /\ r \in unsure)

Inv == TypeOK /\ FreshInv /\ HoldInv /\ NearInv /\ KeyInv /\ AnswerIsBacked

-----------------------------------------------------------------------------

\* Nothing is reserved, written or answered at the start.
LEMMA InitInv == Init => Inv
  BY WindowAssumption, RequestsAssumption
     DEF Init, Inv, TypeOK, FreshInv, HoldInv, NearInv, KeyInv, AnswerIsBacked, Holds, Places,
         Errors, Never

\* A SET NX that succeeds: nobody holds the key, so everybody within the window
\* has given up.
LEMMA SetKeepsInv ==
  ASSUME Inv, NEW r \in Requests, set_nx(r),
         pc[r] \in {"start", "waiting", "taking_over"},
         \/ pc' = [pc EXCEPT ![r] = "owner"] /\ answer' = answer
         \/ pc' = [pc EXCEPT ![r] = "done"] /\ answer' = [answer EXCEPT ![r] = "error"],
         wait_left' = wait_left, committed' = committed, unsure' = unsure
  PROVE  Inv'
  <1>1. \A s \in Requests : ~Holds(s)
    BY DEF Inv, HoldInv, set_nx
  <1>2. TypeOK'
    BY WindowAssumption DEF Inv, TypeOK, set_nx, Places, Errors, Never
  <1>3. FreshInv'
    BY DEF Inv, TypeOK, FreshInv, set_nx
  <1>4. HoldInv'
    <2> SUFFICES ASSUME NEW s \in Requests, Holds(s)'
                 PROVE  key' # "absent" /\ owner' = s /\ ttl' >= Window - age'[s]
      BY DEF HoldInv
    <2>1. s = r
      BY <1>1 DEF Inv, TypeOK, Holds, set_nx
    <2> QED
      BY <2>1, WindowAssumption DEF set_nx, Inv, TypeOK
  <1>5. NearInv'
    <2> SUFFICES ASSUME NEW q \in Requests, NEW s \in Requests, <<q, s>> \in near'
                 PROVE  \/ q \in unsure
                        \/ q \notin committed /\ pc'[q] \in {"releasing", "done", "dead"}
      BY DEF NearInv
    <2>1. CASE <<q, s>> \in near
      BY <2>1 DEF Inv, TypeOK, NearInv
    <2>2. CASE <<q, s>> \notin near
      <3>1. age[q] \in 0 .. Window - 1
        BY <2>2 DEF set_nx
      <3>2. q \notin committed \/ q \in unsure
        BY <1>1, <3>1 DEF Holds
      <3>3. pc[q] \notin {"owner", "uploaded", "committed", "start", "waiting", "taking_over"}
        BY <1>1, <3>1 DEF Holds, Inv, FreshInv, Never
      <3> QED
        BY <3>2, <3>3 DEF Inv, TypeOK, Places
    <2> QED
      BY <2>1, <2>2
  <1>6. KeyInv' /\ AnswerIsBacked'
    BY RequestsAssumption DEF Inv, TypeOK, KeyInv, AnswerIsBacked, set_nx, Errors
  <1> QED
    BY <1>2, <1>3, <1>4, <1>5, <1>6 DEF Inv

\* Steps of reserve and the polling loop.
LEMMA ReserveKeepsInv ==
  ASSUME Inv, NEW r \in Requests, reserve(r) \/ poll(r) \/ take_over(r) \/ reserve_fails(r)
  PROVE  Inv'
  <1>1. CASE set_nx(r) /\ (reserve(r) \/ take_over(r))
    BY <1>1, SetKeepsInv DEF reserve, take_over, goto, respond, set_nx
  <1>2. CASE /\ UNCHANGED <<redisVars, committed, ghostVars>>
             /\ pc[r] \in {"start", "waiting", "taking_over"}
             /\ \/ goto(r, "waiting") \/ goto(r, "taking_over") \/ goto(r, "done")
             /\ \/ UNCHANGED answer
                \/ answer' = [answer EXCEPT ![r] = "error"]
                \/ answer' = [answer EXCEPT ![r] = "conflict"]
                \/ key = "body" /\ answer' = [answer EXCEPT ![r] = owner]
             /\ \/ UNCHANGED wait_left
                \/ wait_left' = [wait_left EXCEPT ![r] = Wait]
    <2>1. TypeOK'
      BY <1>2, WindowAssumption
         DEF Inv, TypeOK, KeyInv, goto, Places, Errors, redisVars, ghostVars
    <2>2. FreshInv' /\ HoldInv' /\ NearInv'
      BY <1>2 DEF Inv, TypeOK, FreshInv, HoldInv, NearInv, Holds, goto, redisVars, ghostVars
    <2>3. KeyInv'
      BY <1>2 DEF Inv, TypeOK, KeyInv, goto, redisVars, ghostVars
    <2>4. AnswerIsBacked'
      <3> SUFFICES ASSUME NEW s \in Requests, answer'[s] \in Requests
                   PROVE  answer'[s] \in committed
        BY <1>2 DEF AnswerIsBacked
      <3>1. CASE answer'[s] = answer[s]
        BY <3>1 DEF Inv, AnswerIsBacked
      <3>2. CASE answer'[s] # answer[s]
        <4>1. CASE key = "body" /\ answer' = [answer EXCEPT ![r] = owner]
          BY <3>2, <4>1 DEF Inv, TypeOK, KeyInv
        <4>2. CASE \/ answer' = [answer EXCEPT ![r] = "error"]
                   \/ answer' = [answer EXCEPT ![r] = "conflict"]
          BY <3>2, <4>2, RequestsAssumption DEF Inv, TypeOK, AnswerIsBacked, Errors
        <4> QED
          BY <3>2, <4>1, <4>2, <1>2
      <3> QED
        BY <3>1, <3>2
    <2> QED
      BY <2>1, <2>2, <2>3, <2>4 DEF Inv
  <1> QED
    BY <1>1, <1>2 DEF reserve, poll, take_over, reserve_fails, goto, respond, redisVars, ghostVars

\* Steps from the reservation to the commit, or to its failure.
LEMMA CommitKeepsInv ==
  ASSUME Inv, NEW r \in Requests,
         upload_object(r) \/ fail(r) \/ commit(r) \/ commit_reported_as_failed(r)
  PROVE  Inv'
  <1> USE DEF upload_object, fail, commit, commit_reported_as_failed, goto, redisVars, ghostVars
  <1>1. TypeOK'
    BY DEF Inv, TypeOK, Places
  <1>2. FreshInv'
    BY DEF Inv, TypeOK, FreshInv
  <1>3. HoldInv'
    BY DEF Inv, TypeOK, HoldInv, Holds
  <1>4. NearInv'
    BY DEF Inv, TypeOK, NearInv
  <1>5. KeyInv' /\ AnswerIsBacked'
    BY DEF Inv, TypeOK, KeyInv, AnswerIsBacked
  <1> QED
    BY <1>1, <1>2, <1>3, <1>4, <1>5 DEF Inv

\* The last step of a request, or its death.
LEMMA EndKeepsInv ==
  ASSUME Inv, NEW r \in Requests, release(r) \/ store_response(r) \/ crash(r)
  PROVE  Inv'
  <1> USE DEF release, store_response, crash, goto, respond, redisVars, ghostVars
  <1>1. TypeOK'
    BY WindowAssumption DEF Inv, TypeOK, Places, Errors
  <1>2. FreshInv'
    BY DEF Inv, TypeOK, FreshInv
  <1>3. HoldInv'
    <2> SUFFICES ASSUME NEW s \in Requests, Holds(s)'
                 PROVE  key' # "absent" /\ owner' = s /\ ttl' >= Window - age'[s]
      BY DEF HoldInv
    <2>1. Holds(s)
      BY DEF Inv, TypeOK, Holds
    <2>2. key # "absent" /\ owner = s /\ ttl >= Window - age[s] /\ age[s] \in 0 .. Window - 1
      BY <2>1 DEF Inv, HoldInv, Holds
    <2>3. CASE release(r)
      BY <2>2, <2>3 DEF Inv, TypeOK, Holds, KeyInv, NearInv
    <2>4. CASE store_response(r)
      BY <2>2, <2>4, WindowAssumption DEF Inv, TypeOK
    <2>5. CASE crash(r)
      BY <2>2, <2>5
    <2> QED
      BY <2>3, <2>4, <2>5
  <1>4. NearInv'
    BY DEF Inv, TypeOK, NearInv
  <1>5. KeyInv' /\ AnswerIsBacked'
    BY RequestsAssumption DEF Inv, TypeOK, KeyInv, AnswerIsBacked, Errors
  <1> QED
    BY <1>1, <1>2, <1>3, <1>4, <1>5 DEF Inv

\* Time: the key and the window of its holder run down together.
LEMMA TickKeepsInv ==
  ASSUME Inv, Tick
  PROVE  Inv'
  <1> USE DEF Tick, older, redisVars
  <1>1. TypeOK'
    BY WindowAssumption, RequestsAssumption DEF Inv, TypeOK, Never
  <1>2. FreshInv'
    BY DEF Inv, TypeOK, FreshInv, Never
  <1>3. HoldInv'
    <2> SUFFICES ASSUME NEW s \in Requests, Holds(s)'
                 PROVE  key' # "absent" /\ owner' = s /\ ttl' >= Window - age'[s]
      BY DEF HoldInv
    <2>1. Holds(s) /\ age'[s] = age[s] + 1 /\ age[s] \in 0 .. Window - 2
      BY WindowAssumption DEF Inv, TypeOK, Holds, Never
    <2> QED
      BY <2>1, WindowAssumption DEF Inv, TypeOK, HoldInv
  <1>4. NearInv'
    BY DEF Inv, TypeOK, NearInv
  <1>5. KeyInv' /\ AnswerIsBacked'
    BY DEF Inv, TypeOK, KeyInv, AnswerIsBacked
  <1> QED
    BY <1>1, <1>2, <1>3, <1>4, <1>5 DEF Inv

\* Every step keeps the invariant.
LEMMA NextKeepsInv == Inv /\ [Next]_vars => Inv'
  <1> SUFFICES ASSUME Inv, [Next]_vars PROVE Inv'
    OBVIOUS
  <1>1. CASE UNCHANGED vars
    BY <1>1 DEF vars, redisVars, ghostVars, Inv, TypeOK, FreshInv, HoldInv, NearInv, KeyInv,
                AnswerIsBacked, Holds
  <1>2. CASE Next
    BY <1>2, ReserveKeepsInv, CommitKeepsInv, EndKeepsInv, TickKeepsInv DEF Next, Step
  <1> QED
    BY <1>1, <1>2

\* The invariant holds in every reachable state.
LEMMA InvHolds == Spec => []Inv
  BY InitInv, NextKeepsInv, PTL DEF Spec

\* The requests and the key are well typed in every reachable state.
THEOREM IdempotencyTypes == Spec => []TypeOK
  <1>1. Inv => TypeOK
    BY DEF Inv
  <1> QED
    BY <1>1, InvHolds, PTL

\* Two requests with one X-Request-Id both write a notification only a window
\* apart, or after a commit that was reported as failed.
THEOREM DuplicatesAreAWindowApart == Spec => []NoDuplicate
  <1>1. Inv => NoDuplicate
    BY DEF Inv, TypeOK, NearInv, NoDuplicate
  <1> QED
    BY <1>1, InvHolds, PTL

\* Every 201 and every replay names a notification that was committed.
THEOREM AnswersAreBacked == Spec => []AnswerIsBacked
  <1>1. Inv => AnswerIsBacked
    BY DEF Inv
  <1> QED
    BY <1>1, InvHolds, PTL

\* No request removes or replaces a value of another one before it expires.
THEOREM OneWriterPerValue == Spec => KeyHasOneWriter
  <1> DEFINE OneWriter ==
        \/ UNCHANGED <<key, owner>>
        \/ key = "absent"
        \/ ttl = 1 /\ key' = "absent" /\ UNCHANGED pc
        \/ /\ key = "processing"
           /\ pc[owner] \in {"releasing", "committed"}
           /\ pc'[owner] = "done"
  <1>1. Inv /\ [Next]_vars => [OneWriter]_vars
    <2> SUFFICES ASSUME Inv, Next PROVE OneWriter
      OBVIOUS
    <2>1. ASSUME NEW r \in Requests, Step(r) \/ crash(r) PROVE OneWriter
      BY <2>1 DEF Step, reserve, poll, take_over, reserve_fails, set_nx, upload_object, fail,
                  commit, commit_reported_as_failed, release, store_response, crash, goto,
                  respond, redisVars, Inv, TypeOK
    <2>2. CASE Tick
      BY <2>2 DEF Tick, redisVars
    <2> QED
      BY <2>1, <2>2 DEF Next
  <1> QED
    BY <1>1, InvHolds, PTL DEF Spec, KeyHasOneWriter
=============================================================================
