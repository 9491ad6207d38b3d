------------------------------ MODULE ApiProofs -------------------------------
(***************************************************************************)
(* Theorems about the inbox, the directory and the API as a whole, for     *)
(* every value of the constants.  A behaviour keeps its scope, so what     *)
(* each module keeps by itself, the whole keeps where the scope is its     *)
(* own; SendProofs has the other modules.                                  *)
(***************************************************************************)
EXTENDS SendProofs, FunctionTheorems

-----------------------------------------------------------------------------
(* Notifications and their audit. *)

Statuses == {"unread", "read"}
Values == Statuses \cup BOOLEAN

\* A row, with the actors of its two marks.
NotificationOK(row) ==
    /\ row \in [status : Statuses, read_by : Users \cup {Null},
                verified : BOOLEAN, verified_by : Users \cup {Null}]
    /\ row.status = "unread" <=> row.read_by = Null
    /\ row.verified <=> row.verified_by # Null

ColumnNames == {"status", "read_by", "verified", "verified_by"}

\* The columns of a mark come with their actors.
ColumnsOK(columns, actor) ==
    /\ DOMAIN columns \subseteq ColumnNames
    /\ "status" \in DOMAIN columns <=> "read_by" \in DOMAIN columns
    /\ "verified" \in DOMAIN columns <=> "verified_by" \in DOMAIN columns
    /\ "status" \in DOMAIN columns =>
          /\ columns["status"] \in Statuses
          /\ columns["read_by"] = IF columns["status"] = "read" THEN actor ELSE Null
    /\ "verified" \in DOMAIN columns =>
          /\ columns["verified"] \in BOOLEAN
          /\ columns["verified_by"] = IF columns["verified"] = TRUE THEN actor ELSE Null

InboxRequest(r) ==
    /\ r.op \in {"mark", "bulk", "delete"} /\ r.actor \in Users
    /\ r.ids \subseteq Notifications /\ r.at \in Nat
    /\ r.op = "mark" => ColumnsOK(r.columns, r.actor)

Fields == {"status", "verified", "deleted"}

EventType ==
    [at : Nat, id : Nat, about : SUBSET Notifications, field : Fields,
     value : Values, actor : Users, kept : BOOLEAN]

\* What the theorems assume of the constants: the values that stand for no row, no column,
\* no request and nobody are none of the data.
InboxGiven ==
    /\ \A none \in {NoRow, Unborn, Same} : ~NotificationOK(none)
    /\ Unborn # NoRow /\ Same # NoRow
    /\ ~InboxRequest(NoRequest)
    /\ Null \notin Users \cup Values \cup EventType
    /\ MaxRequests \in Nat

InboxTypes ==
    /\ DOMAIN rows = Notifications /\ \A n \in Notifications : I!Exists(rows[n]) => NotificationOK(rows[n])
    /\ trail \in Seq(EventType)
    /\ DOMAIN written = Requests /\ \A p \in Requests : DOMAIN written[p] = Notifications
    /\ DOMAIN request = Requests /\ DOMAIN pc = Requests /\ DOMAIN todo = Requests
    /\ \A p \in Requests : request[p] = NoRequest \/ InboxRequest(request[p])
    /\ started \in 0 .. MaxRequests

\* A transaction writes each row once, from what it still is: nobody else can change it.
InboxWrites(p) ==
    /\ pc[p] \in {"idle", "scanning", "writing"} /\ (pc[p] = "idle" <=> request[p] = NoRequest)
    /\ pc[p] # "writing" => todo[p] = {} /\ \A n \in Notifications : written[p][n] = Same
    /\ pc[p] = "scanning" => request[p].op = "bulk"
    /\ pc[p] = "writing" =>
          /\ todo[p] \subseteq request[p].ids
          /\ \A n \in request[p].ids : rows[n] # Unborn
          /\ \A n \in Notifications : written[p][n] # Same =>
                n \in request[p].ids \ todo[p] /\ I!Exists(rows[n]) /\ written[p][n] = I!After(p, n)
          /\ request[p].op = "mark" =>
                /\ DOMAIN request[p].columns = {} => request[p].ids = {}
                /\ \A n \in request[p].ids \ todo[p] : written[p][n] # Same

InboxOneWriter ==
    \A p, q \in Requests : p # q =>
        \A n \in Notifications : written[p][n] = Same \/ written[q][n] = Same

TrailInv == \A i \in DOMAIN trail : \A n \in trail[i].about : rows[n] # Unborn

\* What TrailTellsTheState says of one notification.
Told(n) ==
    I!Exists(rows[n]) =>
        /\ IF I!Said(n, "status") = Null THEN rows[n].status = "unread"
           ELSE /\ rows[n].status = I!Said(n, "status").value
                /\ rows[n].read_by = IF rows[n].status = "read" THEN I!Said(n, "status").actor ELSE Null
        /\ IF I!Said(n, "verified") = Null THEN ~rows[n].verified
           ELSE /\ rows[n].verified = I!Said(n, "verified").value
                /\ rows[n].verified_by = IF rows[n].verified THEN I!Said(n, "verified").actor ELSE Null

ToldInv == \A n \in Notifications : Told(n)

InboxInv ==
    /\ InboxTypes /\ (\A p \in Requests : InboxWrites(p)) /\ InboxOneWriter /\ TrailInv /\ ToldInv

-----------------------------------------------------------------------------
\* A set of numbers up to another has a largest.
LEMMA LargestExists ==
    ASSUME NEW k \in Nat, NEW S \in SUBSET (1 .. k), S # {}
    PROVE  /\ I!Max(S) \in S /\ \A i \in S : I!Max(S) >= i
  <1> DEFINE T == {k - i : i \in S}
  <1>1. T \subseteq Nat /\ T # {}
    <2>1. \A i \in S : k - i \in Nat OBVIOUS
    <2> QED BY <2>1
  <1>2. PICK t \in T : \A y \in T : ~ (<<y, t>> \in OpToRel(<, Nat))
    <2> HIDE DEF T
    <2> QED BY <1>1, WFMin, NatLessThanWellFounded
  <1>3. \A y \in T : ~ (y < t) BY <1>1, <1>2 DEF OpToRel
  <1>4. PICK i \in S : t = k - i OBVIOUS
  <1>5. \A j \in S : i >= j
    <2> TAKE j \in S
    <2>1. ~ (k - j < k - i) BY <1>3, <1>4
    <2> QED BY <2>1
  <1> QED BY <1>5 DEF I!Max

\* What is said after a commit: its last event about the field, or what was said before.
LEMMA SaidAfter ==
    ASSUME trail \in Seq(EventType), NEW events \in Seq(EventType), trail' = trail \o events,
           NEW n, NEW field
    PROVE  /\ (\A k \in 1 .. Len(events) : ~ (events[k].field = field /\ n \in events[k].about))
                  => I!Said(n, field)' = I!Said(n, field)
           /\ \A j \in 1 .. Len(events) :
                 /\ events[j].field = field /\ n \in events[j].about
                 /\ \A k \in j + 1 .. Len(events) :
                       ~ (events[k].field = field /\ n \in events[k].about)
                 => I!Said(n, field)' = events[j]
  <1> DEFINE about == {i \in DOMAIN trail : trail[i].field = field /\ n \in trail[i].about}
             later == {i \in DOMAIN trail' : trail'[i].field = field /\ n \in trail'[i].about}
             L == Len(trail)
  <1>1. /\ L \in Nat /\ Len(events) \in Nat /\ DOMAIN trail = 1 .. L
        /\ DOMAIN trail' = 1 .. (L + Len(events))
        /\ \A i \in 1 .. L : trail'[i] = trail[i]
        /\ \A k \in 1 .. Len(events) : trail'[L + k] = events[k]
    BY ConcatProperties, LenProperties
  <1>2. /\ I!Said(n, field) = IF about = {} THEN Null ELSE trail[I!Max(about)]
        /\ I!Said(n, field)' = IF later = {} THEN Null ELSE trail'[I!Max(later)]
    BY DEF I!Said
  <1>3. \A i \in later : i \in 1 .. L \/ \E k \in 1 .. Len(events) : i = L + k
    BY <1>1
  <1>4. ASSUME \A k \in 1 .. Len(events) : ~ (events[k].field = field /\ n \in events[k].about)
        PROVE  I!Said(n, field)' = I!Said(n, field)
    <2>1. later = about
      <3>1. \A i : i \in about => i \in later BY <1>1
      <3>2. \A i : i \in later => i \in about BY <1>1, <1>3, <1>4
      <3> QED BY <3>1, <3>2
    <2>2. about \in SUBSET (1 .. L) BY <1>1
    <2> HIDE DEF about, later
    <2>3. about # {} => I!Max(about) \in 1 .. L BY <1>1, <2>2, LargestExists
    <2> QED BY <1>1, <1>2, <2>1, <2>3
  <1>5. ASSUME NEW j \in 1 .. Len(events), events[j].field = field, n \in events[j].about,
               \A k \in j + 1 .. Len(events) :
                   ~ (events[k].field = field /\ n \in events[k].about)
        PROVE  I!Said(n, field)' = events[j]
    <2>1. L + j \in later BY <1>1, <1>5
    <2>2. \A i \in later : i <= L + j
      <3> TAKE i \in later
      <3>1. ASSUME NEW k \in 1 .. Len(events), i = L + k PROVE i <= L + j
        <4>1. events[k].field = field /\ n \in events[k].about BY <1>1, <3>1
        <4>2. ~ (k >= j + 1) BY <1>1, <1>5, <4>1
        <4> QED BY <1>1, <3>1, <4>2
      <3> QED BY <1>1, <1>3, <3>1
    <2>3. later \in SUBSET (1 .. (L + Len(events))) /\ L + Len(events) \in Nat BY <1>1
    <2> HIDE DEF later
    <2>4. I!Max(later) \in later /\ I!Max(later) >= L + j BY <2>1, <2>3, LargestExists
    <2>5. L + j \in Int BY <1>1
    <2>6. I!Max(later) \in 1 .. (L + Len(events)) BY <2>3, <2>4
    <2>7. I!Max(later) = L + j
      <3> DEFINE m == I!Max(later)
                 l == L + j
      <3> HIDE DEF m, l
      <3>1. m \in Int BY <1>1, <2>6 DEF m
      <3>2. m <= l /\ m >= l BY <2>2, <2>4 DEF m, l
      <3>3. l \in Int BY <2>5 DEF l
      <3>4. m = l BY <3>1, <3>2, <3>3
      <3> QED BY <3>4 DEF m, l
    <2> QED BY <1>1, <1>2, <2>1, <2>7
  <1> QED BY <1>4, <1>5

-----------------------------------------------------------------------------
\* What another does to rows that a transaction has not written leaves it as it was.
LEMMA InboxWritesKept ==
    ASSUME InboxInv, NEW q \in Requests, request'[q] = request[q], pc'[q] = pc[q],
           todo'[q] = todo[q], written'[q] = written[q],
           \A n \in Notifications :
               /\ rows[n] # Unborn => rows'[n] # Unborn
               /\ written[q][n] # Same => rows'[n] = rows[n]
    PROVE  InboxWrites(q)'
  <1>1. InboxWrites(q) BY DEF InboxInv
  <1>2. request[q] # NoRequest => request[q].ids \subseteq Notifications
    BY DEF InboxInv, InboxTypes, InboxRequest
  <1>3. ASSUME NEW n \in Notifications, written[q][n] # Same
        PROVE  I!After(q, n)' = I!After(q, n)
    BY <1>3 DEF I!After, I!still_unread, I!Exists, I!Updated
  <1> QED BY <1>1, <1>2, <1>3 DEF InboxWrites, I!Exists

\* A row keeps telling what the trail says of it while neither changes.
LEMMA ToldKept ==
    ASSUME InboxInv, NEW n \in Notifications, rows'[n] = rows[n] \/ ~I!Exists(rows'[n]),
           I!Said(n, "status")' = I!Said(n, "status"), I!Said(n, "verified")' = I!Said(n, "verified")
    PROVE  Told(n)'
  <1>1. Told(n) BY DEF InboxInv, ToldInv
  <1> QED BY <1>1 DEF Told, I!Exists

\* A step of one transaction that leaves the rows and the trail.
LEMMA InboxOneMoves ==
    ASSUME InboxInv, InboxTypes', UNCHANGED <<rows, trail>>, NEW p \in Requests,
           \A q \in Requests \ {p} : /\ request'[q] = request[q] /\ pc'[q] = pc[q]
                                     /\ todo'[q] = todo[q] /\ written'[q] = written[q],
           InboxWrites(p)',
           \A n \in Notifications, q \in Requests \ {p} :
               written[q][n] # Same => written'[p][n] = Same
    PROVE  InboxInv'
  <1>1. \A q \in Requests \ {p} : InboxWrites(q)' BY InboxWritesKept
  <1>2. InboxOneWriter' BY DEF InboxInv, InboxOneWriter
  <1>3. TrailInv' BY DEF InboxInv, TrailInv
  <1>4. \A n \in Notifications, field \in {"status", "verified"} :
            I!Said(n, field)' = I!Said(n, field)
    BY DEF I!Said
  <1>5. ToldInv' BY <1>4, ToldKept DEF ToldInv
  <1> QED BY <1>1, <1>2, <1>3, <1>5 DEF InboxInv

\* A transaction ends without a trace.
LEMMA InboxFinish ==
    ASSUME InboxGiven, InboxInv, NEW p \in Requests, I!Finish(p), UNCHANGED <<rows, trail, started>>
    PROVE  InboxInv'
  <1>1. /\ \A q \in Requests \ {p} : /\ request'[q] = request[q] /\ pc'[q] = pc[q]
                                     /\ todo'[q] = todo[q] /\ written'[q] = written[q]
        /\ request'[p] = NoRequest /\ pc'[p] = "idle" /\ todo'[p] = {}
        /\ written'[p] = [n \in Notifications |-> Same]
    BY DEF InboxInv, InboxTypes, I!Finish, I!Go
  <1>2. InboxTypes'
    BY <1>1 DEF InboxInv, InboxTypes, I!Finish, I!Go, I!Exists
  <1>3. InboxWrites(p)' BY <1>1 DEF InboxWrites
  <1> QED BY <1>1, <1>2, <1>3, InboxOneMoves

\* A request begins with nothing written.
LEMMA InboxBegin ==
    ASSUME InboxGiven, InboxInv, NEW p \in Requests, NEW op, NEW actor, NEW columns, NEW groups,
           NEW place, NEW ids, I!Begin(p, op, actor, columns, groups, place, ids),
           op \in {"mark", "bulk", "delete"}, actor \in Users, ids \subseteq Notifications,
           op = "mark" => ColumnsOK(columns, actor) /\ (DOMAIN columns = {} => ids = {}),
           IF op = "bulk" THEN place = "scanning" /\ ids = {} ELSE place = "writing",
           \A n \in ids : I!Exists(rows[n])
    PROVE  InboxInv'
  <1> DEFINE new == [op |-> op, actor |-> actor, columns |-> columns, groups |-> groups,
                     ids |-> ids, at |-> started + 1]
  <1>1. /\ \A q \in Requests \ {p} : /\ request'[q] = request[q] /\ pc'[q] = pc[q]
                                     /\ todo'[q] = todo[q] /\ written'[q] = written[q]
        /\ request'[p] = new /\ pc'[p] = place /\ todo'[p] = ids
        /\ written' = written /\ pc[p] = "idle"
    BY DEF InboxInv, InboxTypes, I!Begin, I!Go
  <1>2. started \in Nat /\ started' = started + 1 /\ started < MaxRequests
    BY DEF InboxInv, InboxTypes, InboxGiven, I!Begin
  <1>3. InboxRequest(new)
    <2>1. new.ids \subseteq Notifications /\ new.at \in Nat BY <1>2
    <2> QED BY <2>1 DEF InboxRequest
  <1>4. new # NoRequest BY <1>3 DEF InboxGiven
  <1>5. InboxTypes'
    <2>1. started' \in 0 .. MaxRequests BY <1>2 DEF InboxGiven
    <2> QED BY <1>1, <1>3, <2>1 DEF InboxInv, InboxTypes, I!Begin, I!Go, I!Exists
  <1>6. \A n \in Notifications : written[p][n] = Same
    BY <1>1 DEF InboxInv, InboxWrites
  <1>8. UNCHANGED <<rows, trail>> BY DEF I!Begin
  <1>7. InboxWrites(p)'
    <2>1. place \in {"scanning", "writing"} /\ (place = "scanning" => ids = {} /\ op = "bulk")
      OBVIOUS
    <2>2. new.ids = ids /\ new.op = op /\ new.columns = columns OBVIOUS
    <2>3. \A n \in ids : rows'[n] # Unborn BY <1>8 DEF I!Exists
    <2> HIDE DEF new
    <2> QED BY <1>1, <1>4, <1>6, <2>1, <2>2, <2>3 DEF InboxWrites
  <1> QED BY <1>1, <1>5, <1>6, <1>7, <1>8, InboxOneMoves

\* The columns a mark sets come with their actors.
LEMMA ChangesAreColumns ==
    ASSUME InboxGiven, NEW row, NEW actor \in Users, NEW status \in Statuses \cup {Null},
           NEW verified \in BOOLEAN \cup {Null}
    PROVE  ColumnsOK(I!Changes(row, actor, status, verified), actor)
  <1> DEFINE c == I!Changes(row, actor, status, verified)
             names == (IF status \in {Null, row.status} THEN {} ELSE {"status", "read_by"}) \cup
                  (IF verified \in {Null, row.verified} THEN {} ELSE {"verified", "verified_by"})
  <1>1. /\ DOMAIN c = names
        /\ "status" \in names => c["status"] = status
        /\ "read_by" \in names => c["read_by"] = IF status = "read" THEN actor ELSE Null
        /\ "verified" \in names => c["verified"] = verified
        /\ "verified_by" \in names => c["verified_by"] = IF verified = TRUE THEN actor ELSE Null
    BY DEF I!Changes
  <1>2. names \subseteq ColumnNames BY DEF ColumnNames
  <1>3. ("status" \in names <=> "read_by" \in names) /\ ("verified" \in names <=> "verified_by" \in names)
    OBVIOUS
  <1>4. ("status" \in names => status \in Statuses) /\ ("verified" \in names => verified \in BOOLEAN)
    OBVIOUS
  <1> HIDE DEF c, names
  <1>5. ColumnsOK(c, actor) BY <1>1, <1>2, <1>3, <1>4 DEF ColumnsOK
  <1> QED BY <1>5 DEF c

\* A mark, a bulk read or a deletion arrives.
LEMMA InboxArrival ==
    ASSUME InboxGiven, InboxInv, NEW p \in Requests, I!Arrival(p)
    PROVE  InboxInv'
  <1>1. PICK actor \in Users :
            \/ I!bulk_mark_read(p, actor)
            \/ \E n \in Notifications :
                  \/ \E status \in Statuses \cup {Null}, verified \in BOOLEAN \cup {Null} :
                         I!mark_notification_status(p, n, actor, status, verified)
                  \/ I!delete_notification(p, n, actor)
    BY DEF I!Arrival, Statuses
  <1>2. CASE I!bulk_mark_read(p, actor)
    BY <1>2, InboxBegin DEF I!bulk_mark_read
  <1>3. ASSUME NEW n \in Notifications, I!delete_notification(p, n, actor) PROVE InboxInv'
    BY <1>3, InboxBegin DEF I!delete_notification
  <1>4. ASSUME NEW n \in Notifications, NEW status \in Statuses \cup {Null},
               NEW verified \in BOOLEAN \cup {Null},
               I!mark_notification_status(p, n, actor, status, verified)
        PROVE  InboxInv'
    <2> DEFINE c == I!Changes(rows[n], actor, status, verified)
               ids == IF DOMAIN c = {} THEN {} ELSE {n}
    <2>1. I!Exists(rows[n]) /\ I!Begin(p, "mark", actor, c, Null, "writing", ids)
      BY <1>4 DEF I!mark_notification_status
    <2>2. ColumnsOK(c, actor) BY ChangesAreColumns
    <2>3. ids \subseteq Notifications /\ (DOMAIN c = {} => ids = {}) /\ \A m \in ids : I!Exists(rows[m])
      BY <2>1
    <2> HIDE DEF c, ids
    <2> QED BY <2>1, <2>2, <2>3, InboxBegin
  <1> QED BY <1>1, <1>2, <1>3, <1>4

-----------------------------------------------------------------------------
\* The bulk read has found the unread notifications it is to mark.
LEMMA InboxScan ==
    ASSUME InboxGiven, InboxInv, NEW p \in Requests, I!bulk_scan(p)
    PROVE  InboxInv'
  <1> DEFINE found == {n \in Notifications : /\ I!Exists(rows[n]) /\ rows[n].status = "unread"
                                            /\ GroupOf[n] \in request[p].groups}
             new == [request[p] EXCEPT !.ids = found]
  <1>1. InboxWrites(p) /\ pc[p] = "scanning" /\ InboxRequest(request[p])
    BY DEF InboxInv, InboxTypes, InboxWrites, I!bulk_scan
  <1>2. /\ \A q \in Requests \ {p} : /\ request'[q] = request[q] /\ pc'[q] = pc[q]
                                     /\ todo'[q] = todo[q] /\ written'[q] = written[q]
        /\ request'[p] = new /\ pc'[p] = "writing" /\ todo'[p] = found /\ written' = written
        /\ UNCHANGED <<rows, trail, started>>
    BY DEF InboxInv, InboxTypes, I!bulk_scan, I!Go
  <1>3. request[p].op = "bulk" /\ \A n \in Notifications : written[p][n] = Same
    BY <1>1 DEF InboxWrites
  <1>4. new.op = "bulk" /\ new.ids = found /\ new.actor = request[p].actor /\ new.at = request[p].at
    BY <1>3
  <1>5. found \subseteq Notifications /\ \A n \in found : rows[n] # Unborn BY DEF I!Exists
  <1> HIDE DEF found, new
  <1>6. InboxRequest(new) BY <1>1, <1>4, <1>5 DEF InboxRequest
  <1>7. InboxTypes'
    BY <1>2, <1>6 DEF InboxInv, InboxTypes, I!bulk_scan, I!Go, I!Exists
  <1>8. InboxWrites(p)'
    BY <1>2, <1>3, <1>4, <1>5, <1>6 DEF InboxWrites, InboxGiven
  <1> QED BY <1>2, <1>3, <1>7, <1>8, InboxOneMoves

\* What a request makes of a row is a row, or none.
LEMMA InboxAfter ==
    ASSUME InboxGiven, InboxInv, NEW p \in Requests, pc[p] = "writing", NEW n \in request[p].ids,
           request[p].op = "mark" => I!Exists(rows[n])
    PROVE  /\ n \in Notifications
           /\ I!After(p, n) # Same => I!Exists(rows[n])
           /\ I!After(p, n) = Same \/ I!After(p, n) = NoRow \/ NotificationOK(I!After(p, n))
           /\ request[p].op = "mark" => NotificationOK(I!After(p, n)) /\ I!After(p, n) # Same
  <1>1. InboxRequest(request[p]) /\ (I!Exists(rows[n]) => NotificationOK(rows[n])) /\ n \in Notifications
    BY DEF InboxInv, InboxTypes, InboxWrites, InboxRequest
  <1>2. CASE request[p].op = "delete"
    BY <1>1, <1>2 DEF I!After
  <1>3. CASE request[p].op = "bulk"
    <2> DEFINE c == [status |-> "read", read_by |-> request[p].actor]
    <2>1. CASE I!still_unread(n)
      <3>1. NotificationOK(I!Updated(rows[n], c))
        BY <1>1, <2>1 DEF I!Updated, NotificationOK, Statuses, I!still_unread, InboxRequest, InboxGiven
      <3> QED BY <1>1, <1>3, <2>1, <3>1 DEF I!After, I!still_unread
    <2> QED BY <1>1, <1>3, <2>1 DEF I!After
  <1>4. CASE request[p].op = "mark"
    <2> DEFINE c == request[p].columns
    <2>1. ColumnsOK(c, request[p].actor) /\ NotificationOK(rows[n]) /\ request[p].actor \in Users
      BY <1>1, <1>4 DEF InboxRequest
    <2>2. I!Updated(rows[n], c) = [k \in ColumnNames |-> IF k \in DOMAIN c THEN c[k] ELSE rows[n][k]]
      BY <2>1 DEF I!Updated, NotificationOK, ColumnNames
    <2>3. NotificationOK(I!Updated(rows[n], c))
      BY <2>1, <2>2 DEF NotificationOK, ColumnsOK, ColumnNames, Statuses, InboxGiven, Values
    <2> QED BY <1>1, <1>4, <2>3 DEF I!After, InboxGiven
  <1> QED BY <1>1, <1>2, <1>3, <1>4 DEF InboxRequest

\* A request writes one row, that nobody else has written.
LEMMA InboxWrite ==
    ASSUME InboxGiven, InboxInv, NEW p \in Requests, NEW n \in Notifications, I!write(p, n)
    PROVE  InboxInv'
  <1>1. CASE I!Finish(p)
    BY <1>1, InboxFinish DEF I!write
  <1>2. CASE ~I!Finish(p)
    <2>1. /\ pc[p] = "writing" /\ n \in todo[p] /\ I!Holders(p, n) = {}
          /\ request[p].op = "mark" => I!Exists(rows[n])
          /\ written' = [written EXCEPT ![p][n] = I!After(p, n)]
          /\ I!Go(p, "writing", todo[p] \ {n})
          /\ UNCHANGED <<request, rows, trail, started>>
      BY <1>2 DEF I!write
    <2>2. InboxWrites(p) /\ n \in request[p].ids BY <2>1 DEF InboxInv, InboxWrites
    <2>3. /\ \A q \in Requests \ {p} : /\ request'[q] = request[q] /\ pc'[q] = pc[q]
                                       /\ todo'[q] = todo[q] /\ written'[q] = written[q]
          /\ request'[p] = request[p] /\ pc'[p] = "writing" /\ todo'[p] = todo[p] \ {n}
          /\ \A m \in Notifications \ {n} : written'[p][m] = written[p][m]
          /\ written'[p][n] = I!After(p, n) /\ DOMAIN written'[p] = Notifications
      BY <2>1 DEF InboxInv, InboxTypes, I!Go
    <2>4. InboxTypes'
      BY <2>1, <2>3 DEF InboxInv, InboxTypes, I!Go, I!Exists
    <2>5. \A m \in Notifications : I!After(p, m)' = I!After(p, m)
      BY <2>1, <2>3 DEF I!After, I!Updated, I!still_unread, I!Exists
    <2>6. /\ I!After(p, n) # Same => I!Exists(rows[n])
          /\ request[p].op = "mark" => I!After(p, n) # Same
      BY <2>1, <2>2, InboxAfter
    <2>7. ASSUME NEW m \in Notifications, written'[p][m] # Same
          PROVE  /\ m \in request'[p].ids \ todo'[p] /\ I!Exists(rows'[m])
                 /\ written'[p][m] = I!After(p, m)'
      <3>1. CASE m = n BY <2>1, <2>2, <2>3, <2>5, <2>6, <2>7, <3>1
      <3>2. CASE m # n BY <2>1, <2>2, <2>3, <2>5, <2>7, <3>2 DEF InboxWrites
      <3> QED BY <3>1, <3>2
    <2>8. request[p].op = "mark" =>
            /\ DOMAIN request[p].columns = {} => request[p].ids = {}
            /\ \A m \in request[p].ids \ todo'[p] : written'[p][m] # Same
      <3>1. request[p].ids \subseteq Notifications
        BY <2>1, <2>2 DEF InboxInv, InboxTypes, InboxRequest, InboxWrites
      <3> QED BY <2>1, <2>2, <2>3, <2>6, <3>1 DEF InboxWrites
    <2>9. InboxWrites(p)'
      BY <2>1, <2>2, <2>3, <2>7, <2>8 DEF InboxWrites, I!Exists
    <2>10. \A m \in Notifications, q \in Requests \ {p} :
               written[q][m] # Same => written'[p][m] = Same
      BY <2>1, <2>3 DEF I!Holders, InboxInv, InboxOneWriter
    <2> QED BY <2>1, <2>3, <2>4, <2>9, <2>10, InboxOneMoves
  <1> QED BY <1>1, <1>2

-----------------------------------------------------------------------------
\* The columns a commit sets, and what the audit has to say of each.
LEMMA ToldAnew ==
    ASSUME InboxGiven, InboxInv, NEW n \in Notifications, I!Exists(rows[n]), NEW c,
           NEW actor \in Users, ColumnsOK(c, actor), rows'[n] = I!Updated(rows[n], c),
           \A field \in {"status", "verified"} :
               IF field \in DOMAIN c
               THEN /\ I!Said(n, field)' \in EventType
                    /\ I!Said(n, field)'.value = c[field] /\ I!Said(n, field)'.actor = actor
               ELSE I!Said(n, field)' = I!Said(n, field)
    PROVE  Told(n)'
  <1>1. Told(n) /\ NotificationOK(rows[n]) BY DEF InboxInv, ToldInv, InboxTypes
  <1>2. rows'[n] = [k \in ColumnNames |-> IF k \in DOMAIN c THEN c[k] ELSE rows[n][k]]
    BY <1>1 DEF I!Updated, NotificationOK, ColumnNames
  <1>3. /\ rows'[n].status = IF "status" \in DOMAIN c THEN c["status"] ELSE rows[n].status
        /\ rows'[n].read_by = IF "read_by" \in DOMAIN c THEN c["read_by"] ELSE rows[n].read_by
        /\ rows'[n].verified = IF "verified" \in DOMAIN c THEN c["verified"] ELSE rows[n].verified
        /\ rows'[n].verified_by =
              IF "verified_by" \in DOMAIN c THEN c["verified_by"] ELSE rows[n].verified_by
    BY <1>2 DEF ColumnNames
  <1>4. /\ "status" \in DOMAIN c <=> "read_by" \in DOMAIN c
        /\ "verified" \in DOMAIN c <=> "verified_by" \in DOMAIN c
    BY DEF ColumnsOK
  <1> DEFINE about(field) == I!Said(n, field)
  <1>5. /\ IF I!Said(n, "status")' = Null THEN rows'[n].status = "unread"
           ELSE /\ rows'[n].status = I!Said(n, "status")'.value
                /\ rows'[n].read_by =
                      IF rows'[n].status = "read" THEN I!Said(n, "status")'.actor ELSE Null
    <2>1. CASE "status" \in DOMAIN c
      <3>1. /\ rows'[n].status = c["status"] /\ rows'[n].read_by = c["read_by"]
            /\ c["read_by"] = IF c["status"] = "read" THEN actor ELSE Null
        BY <1>3, <1>4, <2>1 DEF ColumnsOK
      <3>2. /\ I!Said(n, "status")' # Null
            /\ I!Said(n, "status")'.value = c["status"] /\ I!Said(n, "status")'.actor = actor
        BY <2>1 DEF InboxGiven
      <3> QED BY <3>1, <3>2
    <2>2. CASE "status" \notin DOMAIN c
      <3>1. I!Said(n, "status")' = I!Said(n, "status") BY <2>2
      <3> QED BY <1>1, <1>3, <1>4, <2>2, <3>1 DEF Told
    <2> QED BY <2>1, <2>2
  <1>6. /\ IF I!Said(n, "verified")' = Null THEN ~rows'[n].verified
           ELSE /\ rows'[n].verified = I!Said(n, "verified")'.value
                /\ rows'[n].verified_by =
                      IF rows'[n].verified THEN I!Said(n, "verified")'.actor ELSE Null
    <2>1. CASE "verified" \in DOMAIN c
      <3>1. /\ rows'[n].verified = c["verified"] /\ rows'[n].verified_by = c["verified_by"]
            /\ c["verified_by"] = IF c["verified"] = TRUE THEN actor ELSE Null
            /\ c["verified"] \in BOOLEAN
        BY <1>3, <1>4, <2>1 DEF ColumnsOK
      <3>2. /\ I!Said(n, "verified")' # Null
            /\ I!Said(n, "verified")'.value = c["verified"] /\ I!Said(n, "verified")'.actor = actor
        BY <2>1 DEF InboxGiven
      <3> QED BY <3>1, <3>2
    <2>2. CASE "verified" \notin DOMAIN c
      <3>1. I!Said(n, "verified")' = I!Said(n, "verified") BY <2>2
      <3>2. rows'[n].verified = rows[n].verified /\ rows'[n].verified_by = rows[n].verified_by
        BY <1>3, <1>4, <2>2
      <3> QED BY <1>1, <3>1, <3>2 DEF Told
    <2> QED BY <2>1, <2>2
  <1> QED BY <1>5, <1>6 DEF Told

\* What is said of a request is an event.
LEMMA EventTyped ==
    ASSUME NEW p \in Requests, InboxRequest(request[p]), NEW k \in Nat,
           NEW about \in SUBSET request[p].ids, NEW f \in Fields, NEW value \in Values
    PROVE  I!Event(p, k, about, f, value) \in EventType
  <1>1. request[p].at \in Nat /\ 2 * request[p].at + k \in Nat /\ request[p].actor \in Users
    BY DEF InboxRequest
  <1>2. about \in SUBSET Notifications BY DEF InboxRequest
  <1> QED BY <1>1, <1>2 DEF I!Event, EventType

\* The events of a commit, one for each field it sets.
LEMMA EventsOf ==
    ASSUME InboxGiven, NEW p \in Requests, InboxRequest(request[p]), NEW field \in {"status", "verified"}
    PROVE  LET events == I!_audit_before_flush(p)
               r == request[p]
           IN  /\ events \in Seq(EventType)
               /\ \A k \in 1 .. Len(events) :
                     /\ events[k].about \subseteq r.ids /\ events[k].actor = r.actor
                     /\ r.op = "bulk" => events[k].about = I!marked_ids(p)
                     /\ r.op # "bulk" => events[k].about = r.ids
               /\ r.op = "delete" => \A k \in 1 .. Len(events) : events[k].field # field
               /\ r.op = "bulk" =>
                     /\ field = "status" /\ I!marked_ids(p) # {} =>
                           /\ Len(events) = 1 /\ events[1].field = "status"
                           /\ events[1].value = "read"
                     /\ field = "verified" => \A k \in 1 .. Len(events) : events[k].field # field
                     /\ I!marked_ids(p) = {} => Len(events) = 0
               /\ r.op = "mark" =>
                     /\ field \notin DOMAIN r.columns =>
                           \A k \in 1 .. Len(events) : events[k].field # field
                     /\ field \in DOMAIN r.columns =>
                           \E j \in 1 .. Len(events) :
                               /\ events[j].field = field /\ events[j].value = r.columns[field]
                               /\ \A k \in j + 1 .. Len(events) : events[k].field # field
  <1> DEFINE r == request[p]
             E(k, about, f, value) == I!Event(p, k, about, f, value)
  <1>1. /\ r.op \in {"mark", "bulk", "delete"} /\ r.actor \in Users
        /\ r.ids \subseteq Notifications /\ r.at \in Nat
        /\ I!marked_ids(p) \subseteq r.ids
    BY DEF InboxRequest, I!marked_ids
  <1>3. CASE r.op = "delete"
    <2> DEFINE e == I!Event(p, 0, r.ids, "deleted", TRUE)
    <2>1. I!_audit_before_flush(p) = <<e>> BY <1>3 DEF I!_audit_before_flush
    <2>5. TRUE \in Values BY DEF Values
    <2>2. /\ e \in EventType /\ e.field = "deleted" /\ e.about = r.ids /\ e.actor = r.actor
      <3>1. PICK yes \in Values : yes = TRUE BY <2>5
      <3>2. e = I!Event(p, 0, r.ids, "deleted", yes) BY <3>1
      <3> HIDE DEF e
      <3>3. PICK f \in Fields : f = "deleted" BY DEF Fields
      <3>4. PICK about \in SUBSET r.ids : about = r.ids OBVIOUS
      <3>5. PICK k \in Nat : k = 0 OBVIOUS
      <3>6. PICK new : new = e OBVIOUS
      <3>7. new = I!Event(p, k, about, f, yes) BY <3>2, <3>3, <3>4, <3>5, <3>6
      <3>8. new.field = f /\ new.about = about /\ new.actor = request[p].actor
        BY <3>7 DEF I!Event
      <3>9. new \in EventType BY <3>7, EventTyped
      <3> QED BY <3>3, <3>4, <3>6, <3>8, <3>9
    <2> HIDE DEF e
    <2>3. <<e>> \in Seq(EventType) /\ Len(<<e>>) = 1 /\ <<e>>[1] = e BY <2>2
    <2> QED BY <1>3, <2>1, <2>2, <2>3
  <1>4. CASE r.op = "bulk"
    <2> DEFINE e == I!Event(p, 0, I!marked_ids(p), "status", "read")
    <2>1. I!_audit_before_flush(p) = IF I!marked_ids(p) = {} THEN <<>> ELSE <<e>>
      BY <1>4 DEF I!_audit_before_flush
    <2>2. /\ e \in EventType /\ e.field = "status" /\ e.about = I!marked_ids(p) /\ e.actor = r.actor
          /\ e.value = "read"
      <3>1. "read" \in Values BY DEF Values, Statuses
      <3>2. PICK word \in Values : word = "read" BY <3>1
      <3>3. PICK about \in SUBSET r.ids : about = I!marked_ids(p) BY <1>1
      <3>4. e = I!Event(p, 0, about, "status", word) BY <3>2, <3>3
      <3> HIDE DEF e
      <3>5. PICK f \in Fields : f = "status" BY DEF Fields
      <3>6. PICK k \in Nat : k = 0 OBVIOUS
      <3>7. PICK new : new = e OBVIOUS
      <3>8. new = I!Event(p, k, about, f, word) BY <3>4, <3>5, <3>6, <3>7
      <3>9. /\ new.field = f /\ new.about = about
            /\ new.actor = request[p].actor /\ new.value = word
        BY <3>8 DEF I!Event
      <3>10. new \in EventType BY <3>8, EventTyped
      <3> QED BY <3>2, <3>3, <3>5, <3>7, <3>9, <3>10
    <2> HIDE DEF e
    <2>3. <<e>> \in Seq(EventType) /\ Len(<<e>>) = 1 /\ <<e>>[1] = e BY <2>2
    <2>4. <<>> \in Seq(EventType) /\ Len(<<>>) = 0 OBVIOUS
    <2> QED BY <1>1, <1>4, <2>1, <2>2, <2>3, <2>4
  <1>5. CASE r.op = "mark"
    <2> DEFINE s == I!Event(p, 0, r.ids, "status", r.columns.status)
               v == I!Event(p, 1, r.ids, "verified", r.columns.verified)
               hasS == "status" \in DOMAIN r.columns
               hasV == "verified" \in DOMAIN r.columns
    <2>1. I!_audit_before_flush(p) =
              (IF hasS THEN <<s>> ELSE <<>>) \o (IF hasV THEN <<v>> ELSE <<>>)
      BY <1>5 DEF I!_audit_before_flush
    <2>2. hasS => r.columns.status \in Values BY <1>5 DEF InboxRequest, ColumnsOK, Values
    <2>3. hasV => r.columns.verified \in Values BY <1>5 DEF InboxRequest, ColumnsOK, Values
    <2>4. hasS => /\ s \in EventType /\ s.field = "status" /\ s.about = r.ids
                  /\ s.actor = r.actor /\ s.value = r.columns.status
      <3> SUFFICES ASSUME hasS
                   PROVE  /\ s \in EventType /\ s.field = "status" /\ s.about = r.ids
                          /\ s.actor = r.actor /\ s.value = r.columns.status
        OBVIOUS
      <3>1. PICK value \in Values : value = r.columns.status BY <2>2
      <3>2. PICK about \in SUBSET r.ids : about = r.ids OBVIOUS
      <3>3. PICK e : e = I!Event(p, 0, about, "status", value) OBVIOUS
      <3>4. s = e BY <3>1, <3>2, <3>3
      <3>5. /\ e \in EventType /\ e.field = "status" /\ e.about = about /\ e.actor = request[p].actor
            /\ e.value = value
        <4>1. PICK k \in Nat : k = 0 OBVIOUS
        <4>2. PICK f \in Fields : f = "status" BY DEF Fields
        <4>3. e = I!Event(p, k, about, f, value) BY <3>3, <4>1, <4>2
        <4> HIDE DEF s, v, hasS, hasV
        <4>4. /\ e.field = f /\ e.about = about /\ e.actor = request[p].actor /\ e.value = value
          BY <4>3 DEF I!Event
        <4>5. e \in EventType BY <4>3, EventTyped
        <4> QED BY <4>2, <4>4, <4>5
      <3> HIDE DEF s
      <3> QED BY <3>1, <3>2, <3>4, <3>5
    <2>5. hasV => /\ v \in EventType /\ v.field = "verified" /\ v.about = r.ids
                  /\ v.actor = r.actor /\ v.value = r.columns.verified
      <3> SUFFICES ASSUME hasV
                   PROVE  /\ v \in EventType /\ v.field = "verified" /\ v.about = r.ids
                          /\ v.actor = r.actor /\ v.value = r.columns.verified
        OBVIOUS
      <3>1. PICK value \in Values : value = r.columns.verified BY <2>3
      <3>2. PICK about \in SUBSET r.ids : about = r.ids OBVIOUS
      <3>3. PICK e : e = I!Event(p, 1, about, "verified", value) OBVIOUS
      <3>4. v = e BY <3>1, <3>2, <3>3
      <3>5. /\ e \in EventType /\ e.field = "verified" /\ e.about = about /\ e.actor = request[p].actor
            /\ e.value = value
        <4>1. PICK k \in Nat : k = 1 OBVIOUS
        <4>2. PICK f \in Fields : f = "verified" BY DEF Fields
        <4>3. e = I!Event(p, k, about, f, value) BY <3>3, <4>1, <4>2
        <4> HIDE DEF s, v, hasS, hasV
        <4>4. /\ e.field = f /\ e.about = about /\ e.actor = request[p].actor /\ e.value = value
          BY <4>3 DEF I!Event
        <4>5. e \in EventType BY <4>3, EventTyped
        <4> QED BY <4>2, <4>4, <4>5
      <3> HIDE DEF v
      <3> QED BY <3>1, <3>2, <3>4, <3>5
    <2> DEFINE events == I!_audit_before_flush(p)
    <2>6. CASE hasS /\ hasV
      <3> HIDE DEF s, v
      <3>1. events = <<s>> \o <<v>> BY <2>1, <2>6
      <3> HIDE DEF events
      <3>2. /\ events \in Seq(EventType) /\ Len(events) = 2 /\ events[1] = s /\ events[2] = v
        <4>1. /\ <<s>> \in Seq(EventType) /\ Len(<<s>>) = 1 /\ <<s>>[1] = s
              /\ <<v>> \in Seq(EventType) /\ Len(<<v>>) = 1 /\ <<v>>[1] = v
          BY <2>4, <2>5, <2>6
        <4> QED BY <3>1, <4>1, ConcatProperties
      <3>3. /\ 1 \in 1 .. Len(events) /\ 2 \in 1 .. Len(events)
            /\ \A k \in 1 .. Len(events) : k = 1 \/ k = 2
            /\ \A k \in 2 + 1 .. Len(events) : FALSE
            /\ \A k \in 1 + 1 .. Len(events) : k = 2
        BY <3>2
      <3>4. field \in DOMAIN r.columns /\ r.op # "bulk" /\ r.op # "delete"
        <4>1. field = "status" \/ field = "verified" OBVIOUS
        <4> QED BY <1>5, <2>6, <4>1
      <3>5. /\ \A k \in 1 .. Len(events) :
                  events[k].about \subseteq r.ids /\ events[k].actor = r.actor /\ events[k].about = r.ids
        BY <2>4, <2>5, <2>6, <3>2, <3>3
      <3>6. CASE field = "status"
        <4>1. /\ events[1].field = field /\ events[1].value = r.columns[field]
              /\ \A k \in 1 + 1 .. Len(events) : events[k].field # field
          BY <2>4, <2>5, <2>6, <3>2, <3>3, <3>6
        <4> QED BY <3>2, <3>3, <3>4, <3>5, <4>1 DEF events
      <3>7. CASE field = "verified"
        <4>1. /\ events[2].field = field /\ events[2].value = r.columns[field]
              /\ \A k \in 2 + 1 .. Len(events) : events[k].field # field
          BY <2>4, <2>5, <2>6, <3>2, <3>3, <3>7
        <4> QED BY <3>2, <3>3, <3>4, <3>5, <4>1 DEF events
      <3> QED BY <3>6, <3>7
    <2>7. CASE hasS /\ ~hasV
      <3>1. events = <<s>> BY <2>1, <2>7
      <3> HIDE DEF s, v, events
      <3>2. /\ events \in Seq(EventType) /\ Len(events) = 1 /\ events[1] = s
        BY <2>4, <2>7, <3>1
      <3>3. /\ 1 \in 1 .. Len(events) /\ \A k \in 1 .. Len(events) : k = 1
            /\ \A k \in 1 + 1 .. Len(events) : FALSE
        BY <3>2
      <3> QED BY <1>5, <2>4, <2>7, <3>2, <3>3 DEF events
    <2>8. CASE ~hasS /\ hasV
      <3>1. events = <<v>> BY <2>1, <2>8
      <3> HIDE DEF s, v, events
      <3>2. /\ events \in Seq(EventType) /\ Len(events) = 1 /\ events[1] = v
        BY <2>5, <2>8, <3>1
      <3>3. /\ 1 \in 1 .. Len(events) /\ \A k \in 1 .. Len(events) : k = 1
            /\ \A k \in 1 + 1 .. Len(events) : FALSE
        BY <3>2
      <3> QED BY <1>5, <2>5, <2>8, <3>2, <3>3 DEF events
    <2>9. CASE ~hasS /\ ~hasV
      <3>1. events = <<>> BY <2>1, <2>9
      <3> HIDE DEF s, v, events
      <3>2. /\ events \in Seq(EventType) /\ Len(events) = 0 BY <3>1
      <3>3. \A k \in 1 .. Len(events) : FALSE BY <3>2
      <3> QED BY <1>5, <2>9, <3>2, <3>3 DEF events
    <2> QED BY <2>6, <2>7, <2>8, <2>9
  <1> QED BY <1>1, <1>3, <1>4, <1>5

\* A commit puts its rows in place and its events at the end of the trail.
LEMMA InboxCommit ==
    ASSUME InboxGiven, InboxInv, NEW p \in Requests, I!commit(p)
    PROVE  InboxInv'
  <1> DEFINE r == request[p]
             events == I!_audit_before_flush(p)
  <1>1. /\ pc[p] = "writing" /\ todo[p] = {} /\ I!Finish(p) /\ trail' = trail \o events
        /\ rows' = [n \in Notifications |-> IF written[p][n] = Same THEN rows[n] ELSE written[p][n]]
        /\ started' = started
    BY DEF I!commit
  <1>2. /\ InboxWrites(p) /\ InboxRequest(r) /\ trail \in Seq(EventType)
        /\ \A n \in Notifications : I!Exists(rows[n]) => NotificationOK(rows[n])
    BY <1>1 DEF InboxInv, InboxTypes, InboxWrites
  <1>3. ASSUME NEW n \in Notifications, written[p][n] # Same
        PROVE  /\ n \in r.ids /\ I!Exists(rows[n]) /\ rows'[n] = I!After(p, n)
               /\ rows'[n] = NoRow \/ NotificationOK(rows'[n])
    <2>1. n \in r.ids /\ I!Exists(rows[n]) /\ written[p][n] = I!After(p, n) /\ rows'[n] = written[p][n]
      BY <1>1, <1>2, <1>3 DEF InboxWrites
    <2>2. I!After(p, n) = NoRow \/ NotificationOK(I!After(p, n)) BY <1>1, <1>3, <2>1, InboxAfter
    <2> QED BY <2>1, <2>2
  <1>4. \A n \in Notifications : written[p][n] = Same => rows'[n] = rows[n]
    BY <1>1
  <1>5. \A field \in {"status", "verified"} :
           /\ events \in Seq(EventType)
           /\ \A k \in 1 .. Len(events) : events[k].about \subseteq r.ids
    BY <1>2, EventsOf
  <1>6. \A n \in Notifications : rows[n] # Unborn => rows'[n] # Unborn
    BY <1>3, <1>4 DEF InboxGiven
  <1>7. r.ids \subseteq Notifications /\ \A n \in r.ids : rows[n] # Unborn
    BY <1>1, <1>2 DEF InboxWrites, InboxRequest
  <1>8. /\ events \in Seq(EventType) /\ \A k \in 1 .. Len(events) : events[k].about \subseteq r.ids
    <2>1. "status" \in {"status", "verified"} OBVIOUS
    <2> HIDE DEF events
    <2> QED BY <1>5, <2>1
  <1> HIDE DEF events
  <1>16. \A n, field :
           /\ (\A k \in 1 .. Len(events) : ~ (events[k].field = field /\ n \in events[k].about))
                  => I!Said(n, field)' = I!Said(n, field)
           /\ \A j \in 1 .. Len(events) :
                 /\ events[j].field = field /\ n \in events[j].about
                 /\ \A k \in j + 1 .. Len(events) :
                       ~ (events[k].field = field /\ n \in events[k].about)
                 => I!Said(n, field)' = events[j]
    <2>1. PICK new \in Seq(EventType) : new = events BY <1>8
    <2>2. trail \in Seq(EventType) /\ trail' = trail \o new BY <1>1, <1>2, <2>1
    <2> QED BY <2>1, <2>2, SaidAfter
  <1>9. trail' \in Seq(EventType) BY <1>1, <1>2, <1>8, ConcatProperties
  <1>10. /\ \A q \in Requests \ {p} : /\ request'[q] = request[q] /\ pc'[q] = pc[q]
                                      /\ todo'[q] = todo[q] /\ written'[q] = written[q]
         /\ request'[p] = NoRequest /\ pc'[p] = "idle" /\ todo'[p] = {}
         /\ written'[p] = [n \in Notifications |-> Same]
    BY <1>1 DEF InboxInv, InboxTypes, I!Finish, I!Go
  <1>11. InboxTypes'
    <2>1. DOMAIN rows' = Notifications BY <1>1
    <2>2. \A n \in Notifications : I!Exists(rows'[n]) => NotificationOK(rows'[n])
      BY <1>2, <1>3, <1>4 DEF I!Exists
    <2>3. /\ DOMAIN written' = Requests /\ \A q \in Requests : DOMAIN written'[q] = Notifications
          /\ DOMAIN request' = Requests /\ DOMAIN pc' = Requests /\ DOMAIN todo' = Requests
          /\ \A q \in Requests : request'[q] = NoRequest \/ InboxRequest(request'[q])
          /\ started' \in 0 .. MaxRequests
      BY <1>1, <1>10 DEF InboxInv, InboxTypes, I!Finish, I!Go
    <2> QED BY <1>9, <2>1, <2>2, <2>3 DEF InboxTypes, I!Exists
  <1>12. \A q \in Requests : InboxWrites(q)'
    <2>1. InboxWrites(p)' BY <1>10 DEF InboxWrites
    <2>2. ASSUME NEW q \in Requests \ {p} PROVE InboxWrites(q)'
      <3>1. \A n \in Notifications : written[q][n] # Same => rows'[n] = rows[n]
        BY <1>4 DEF InboxInv, InboxOneWriter
      <3> QED BY <1>6, <1>10, <3>1, InboxWritesKept
    <2> QED BY <2>1, <2>2
  <1>13. InboxOneWriter' BY <1>10 DEF InboxInv, InboxOneWriter
  <1>14. TrailInv'
    <2> SUFFICES ASSUME NEW i \in DOMAIN trail', NEW n \in trail'[i].about PROVE rows'[n] # Unborn
      BY DEF TrailInv
    <2>1. /\ Len(trail) \in Nat /\ Len(events) \in Nat /\ DOMAIN trail = 1 .. Len(trail)
          /\ DOMAIN trail' = 1 .. (Len(trail) + Len(events))
          /\ \A j \in 1 .. Len(trail) : trail'[j] = trail[j]
          /\ \A k \in 1 .. Len(events) : trail'[Len(trail) + k] = events[k]
      BY <1>1, <1>2, <1>8, ConcatProperties, LenProperties
    <2>2. CASE i \in 1 .. Len(trail)
      <3>1. n \in trail[i].about /\ trail[i] \in EventType BY <1>2, <2>1, <2>2
      <3>2. n \in Notifications /\ rows[n] # Unborn
        BY <2>1, <2>2, <3>1 DEF InboxInv, TrailInv, EventType
      <3> QED BY <1>6, <3>2
    <2>3. ASSUME NEW k \in 1 .. Len(events), i = Len(trail) + k PROVE rows'[n] # Unborn
      <3>1. n \in r.ids BY <1>8, <2>1, <2>3
      <3> QED BY <1>6, <1>7, <3>1
    <2>4. i \in 1 .. Len(trail) \/ \E k \in 1 .. Len(events) : i = Len(trail) + k
      <3>1. i \in 1 .. (Len(trail) + Len(events)) BY <2>1
      <3>2. i \in 1 .. Len(trail) \/ i - Len(trail) \in 1 .. Len(events) BY <2>1, <3>1
      <3>3. i = Len(trail) + (i - Len(trail)) BY <2>1, <3>1
      <3> QED BY <3>2, <3>3
    <2> QED BY <2>2, <2>3, <2>4
  <1>15. ToldInv'
    <2> SUFFICES ASSUME NEW n \in Notifications PROVE Told(n)'
      BY DEF ToldInv
    <2>1. ASSUME \A k \in 1 .. Len(events) : /\ n \in events[k].about => events[k].field # "status"
                                             /\ n \in events[k].about => events[k].field # "verified",
                 rows'[n] = rows[n] \/ ~I!Exists(rows'[n])
          PROVE  Told(n)'
      <3>1. I!Said(n, "status")' = I!Said(n, "status") BY <1>16, <2>1
      <3>2. I!Said(n, "verified")' = I!Said(n, "verified") BY <1>16, <2>1
      <3> QED BY <2>1, <3>1, <3>2, ToldKept
    <2>2. CASE r.op = "delete"
      <3>1. \A k \in 1 .. Len(events) : events[k].field # "status" /\ events[k].field # "verified"
        BY <1>2, <2>2, EventsOf DEF events
      <3>2. rows'[n] = rows[n] \/ ~I!Exists(rows'[n])
        BY <1>3, <1>4, <2>2 DEF I!After, I!Exists
      <3> QED BY <2>1, <3>1, <3>2
    <2>3. CASE r.op = "bulk"
      <3>1. \A k \in 1 .. Len(events) : events[k].about = I!marked_ids(p) /\ events[k].field # "verified"
        BY <1>2, <2>3, EventsOf DEF events
      <3>2. CASE written[p][n] = Same
        <4>1. n \notin I!marked_ids(p) BY <3>2 DEF I!marked_ids
        <4> QED BY <1>4, <2>1, <3>1, <3>2, <4>1
      <3>3. CASE written[p][n] # Same
        <4> DEFINE c == [status |-> "read", read_by |-> r.actor]
        <4>1. n \in I!marked_ids(p) BY <1>3, <3>3 DEF I!marked_ids
        <4>2. Len(events) = 1 /\ events[1].field = "status" /\ events[1].value = "read"
          BY <1>2, <2>3, <4>1, EventsOf DEF events
        <4>3. events[1].about = I!marked_ids(p) /\ events[1].actor = r.actor /\ events[1] \in EventType
          <5>1. 1 \in 1 .. Len(events) BY <4>2
          <5>2. \A k \in 1 .. Len(events) : events[k].actor = r.actor
            BY <1>2, EventsOf DEF events
          <5> QED BY <1>8, <3>1, <5>1, <5>2
        <4>4. I!Said(n, "status")' = events[1]
          <5>1. 1 \in 1 .. Len(events) /\ \A k \in 1 + 1 .. Len(events) : FALSE BY <4>2
          <5> QED BY <1>16, <4>1, <4>2, <4>3, <5>1
        <4>5. I!Said(n, "verified")' = I!Said(n, "verified")
          BY <1>16, <3>1
        <4>6. rows'[n] = I!Updated(rows[n], c) /\ I!Exists(rows[n])
          <5>1. n \in r.ids /\ I!Exists(rows[n]) /\ rows'[n] = I!After(p, n) /\ rows'[n] # Same
            BY <1>1, <1>3, <3>3
          <5>2. I!After(p, n) = IF I!still_unread(n) THEN I!Updated(rows[n], c) ELSE Same
            BY <2>3 DEF I!After
          <5> QED BY <5>1, <5>2
        <4>7. ColumnsOK(c, r.actor) /\ r.actor \in Users /\ DOMAIN c = {"status", "read_by"}
              /\ c["status"] = "read"
          BY <1>2 DEF ColumnsOK, ColumnNames, Statuses, InboxRequest
        <4> HIDE DEF c
        <4>8. \A field \in {"status", "verified"} :
               IF field \in DOMAIN c
               THEN /\ I!Said(n, field)' \in EventType
                    /\ I!Said(n, field)'.value = c[field] /\ I!Said(n, field)'.actor = r.actor
               ELSE I!Said(n, field)' = I!Said(n, field)
          BY <4>2, <4>3, <4>4, <4>5, <4>7
        <4> QED BY <4>6, <4>7, <4>8, ToldAnew
      <3> QED BY <3>2, <3>3
    <2>4. CASE r.op = "mark"
      <3>1. \A k \in 1 .. Len(events) : events[k].about = r.ids /\ events[k].actor = r.actor
        BY <1>2, <2>4, EventsOf DEF events
      <3>2. CASE written[p][n] = Same
        <4>1. n \notin r.ids BY <1>1, <1>2, <2>4, <3>2 DEF InboxWrites
        <4> QED BY <1>4, <2>1, <3>1, <3>2, <4>1
      <3>3. CASE written[p][n] # Same
        <4> DEFINE c == r.columns
        <4>1. n \in r.ids /\ I!Exists(rows[n]) /\ rows'[n] = I!Updated(rows[n], c)
          BY <1>3, <2>4, <3>3 DEF I!After
        <4>2. ColumnsOK(c, r.actor) /\ r.actor \in Users BY <1>2, <2>4 DEF InboxRequest
        <4>3. ASSUME NEW field \in {"status", "verified"}
              PROVE  IF field \in DOMAIN c
                     THEN /\ I!Said(n, field)' \in EventType
                          /\ I!Said(n, field)'.value = c[field] /\ I!Said(n, field)'.actor = r.actor
                     ELSE I!Said(n, field)' = I!Said(n, field)
          <5>1. /\ field \notin DOMAIN c => \A k \in 1 .. Len(events) : events[k].field # field
                /\ field \in DOMAIN c =>
                     \E j \in 1 .. Len(events) :
                         /\ events[j].field = field /\ events[j].value = c[field]
                         /\ \A k \in j + 1 .. Len(events) : events[k].field # field
            BY <1>2, <2>4, EventsOf DEF events
          <5>2. CASE field \notin DOMAIN c
            <6>1. I!Said(n, field)' = I!Said(n, field)
              BY <1>16, <5>1, <5>2
            <6> QED BY <5>2, <6>1
          <5>3. CASE field \in DOMAIN c
            <6>1. PICK j \in 1 .. Len(events) :
                         /\ events[j].field = field /\ events[j].value = c[field]
                         /\ \A k \in j + 1 .. Len(events) : events[k].field # field
              BY <5>1, <5>3
            <6>2. I!Said(n, field)' = events[j]
              BY <1>16, <3>1, <4>1, <6>1
            <6>3. events[j] \in EventType /\ events[j].actor = r.actor BY <1>8, <3>1
            <6> QED BY <5>3, <6>1, <6>2, <6>3
          <5> QED BY <5>2, <5>3
        <4> QED BY <4>1, <4>2, <4>3, ToldAnew
      <3> QED BY <3>2, <3>3
    <2> QED BY <1>2, <2>2, <2>3, <2>4 DEF InboxRequest
  <1> QED BY <1>11, <1>12, <1>13, <1>14, <1>15 DEF InboxInv

-----------------------------------------------------------------------------
\* A row comes or goes by itself, when no transaction has written it.
LEMMA InboxRow ==
    ASSUME InboxGiven, InboxInv, UNCHANGED <<trail, I!txVars, started>>, NEW n \in Notifications,
           NEW row, rows' = [rows EXCEPT ![n] = row], row # Unborn, I!Exists(row) => NotificationOK(row),
           \A p \in Requests : written[p][n] = Same, Told(n)'
    PROVE  InboxInv'
  <1>1. /\ DOMAIN rows' = Notifications /\ rows'[n] = row
        /\ \A m \in Notifications \ {n} : rows'[m] = rows[m]
        /\ UNCHANGED <<trail, written, request, pc, todo, started>>
    BY DEF InboxInv, InboxTypes, I!txVars
  <1>2. InboxTypes'
    BY <1>1 DEF InboxInv, InboxTypes, I!Exists
  <1>3. \A q \in Requests : InboxWrites(q)' BY <1>1, InboxWritesKept
  <1>4. InboxOneWriter' BY <1>1 DEF InboxInv, InboxOneWriter
  <1>5. TrailInv'
    <2>1. \A i \in DOMAIN trail : trail[i].about \subseteq Notifications
      <3>1. \A i \in DOMAIN trail : trail[i] \in EventType BY DEF InboxInv, InboxTypes
      <3> QED BY <3>1 DEF EventType
    <2> QED BY <1>1, <2>1 DEF InboxInv, TrailInv
  <1>6. ToldInv'
    <2> SUFFICES ASSUME NEW m \in Notifications, m # n PROVE Told(m)'
      BY DEF ToldInv
    <2>1. \A field \in {"status", "verified"} : I!Said(m, field)' = I!Said(m, field)
      BY <1>1 DEF I!Said
    <2> QED BY <1>1, <2>1, ToldKept
  <1> QED BY <1>2, <1>3, <1>4, <1>5, <1>6 DEF InboxInv

\* A notification arrives, which no event is about.
LEMMA InboxArrive ==
    ASSUME InboxGiven, InboxInv, NEW n \in Notifications, I!arrive(n)
    PROVE  InboxInv'
  <1>1. /\ rows[n] = Unborn /\ rows' = [rows EXCEPT ![n] = I!Arrived]
        /\ UNCHANGED <<trail, I!txVars, started>>
    BY DEF I!arrive
  <1>2. NotificationOK(I!Arrived) /\ I!Arrived # Unborn
    <2>1. NotificationOK(I!Arrived) BY DEF NotificationOK, I!Arrived, Statuses, InboxGiven
    <2> QED BY <2>1 DEF InboxGiven
  <1>3. \A p \in Requests : written[p][n] = Same
    <2>1. \A p \in Requests : written[p][n] # Same => I!Exists(rows[n])
      BY DEF InboxInv, InboxWrites
    <2> QED BY <1>1, <2>1 DEF I!Exists
  <1>4. Told(n)'
    <2>1. \A field : I!Said(n, field)' = Null
      <3>1. \A i \in DOMAIN trail : n \notin trail[i].about
        BY <1>1 DEF InboxInv, TrailInv
      <3> QED BY <1>1, <3>1 DEF I!Said
    <2>2. rows'[n] = I!Arrived BY <1>1 DEF InboxInv, InboxTypes
    <2>3. I!Said(n, "status")' = Null /\ I!Said(n, "verified")' = Null BY <2>1
    <2>4. I!Arrived.status = "unread" /\ ~I!Arrived.verified BY DEF I!Arrived
    <2> QED BY <2>2, <2>3, <2>4 DEF Told
  <1> QED BY <1>1, <1>2, <1>3, <1>4, InboxRow

\* The retention deletes a notification that nobody is writing.
LEMMA InboxPurge ==
    ASSUME InboxGiven, InboxInv, NEW n \in Notifications, I!purge_old_notifications(n)
    PROVE  InboxInv'
  <1>1. /\ rows' = [rows EXCEPT ![n] = NoRow] /\ UNCHANGED <<trail, I!txVars, started>>
        /\ \A p \in Requests : written[p][n] = Same
    BY DEF I!purge_old_notifications
  <1>2. Told(n)'
    <2>1. rows'[n] = NoRow BY <1>1 DEF InboxInv, InboxTypes
    <2> QED BY <2>1 DEF Told, I!Exists
  <1> QED BY <1>1, <1>2, InboxRow DEF InboxGiven, I!Exists

\* An event leaves the table and stays history.
LEMMA InboxPurgeEvents ==
    ASSUME InboxGiven, InboxInv, NEW i \in DOMAIN trail, I!purge_audit_events(i)
    PROVE  InboxInv'
  <1>1. trail' = [trail EXCEPT ![i].kept = FALSE] /\ UNCHANGED <<rows, I!txVars, started>>
    BY DEF I!purge_audit_events
  <1>2. /\ trail \in Seq(EventType) /\ \A j \in DOMAIN trail : trail[j] \in EventType
    BY DEF InboxInv, InboxTypes
  <1>3. /\ DOMAIN trail' = DOMAIN trail
        /\ \A j \in DOMAIN trail :
              /\ trail'[j] \in EventType /\ trail'[j].field = trail[j].field
              /\ trail'[j].about = trail[j].about /\ trail'[j].value = trail[j].value
              /\ trail'[j].actor = trail[j].actor
    BY <1>1, <1>2 DEF EventType
  <1>4. trail' \in Seq(EventType)
    <2>1. trail[i] \in EventType /\ [trail[i] EXCEPT !.kept = FALSE] \in EventType
      BY <1>2 DEF EventType
    <2> QED BY <1>1, <1>2, <2>1
  <1>5. InboxTypes' BY <1>1, <1>4 DEF InboxInv, InboxTypes, I!txVars, I!Exists
  <1>6. \A q \in Requests : InboxWrites(q)' BY <1>1, InboxWritesKept DEF I!txVars
  <1>7. InboxOneWriter' /\ TrailInv' BY <1>1, <1>3 DEF InboxInv, InboxOneWriter, TrailInv, I!txVars
  <1>8. ToldInv'
    <2> SUFFICES ASSUME NEW n \in Notifications PROVE Told(n)'
      BY DEF ToldInv
    <2>1. \A field \in {"status", "verified"} :
             /\ I!Said(n, field) = Null <=> I!Said(n, field)' = Null
             /\ I!Said(n, field) # Null => /\ I!Said(n, field)'.value = I!Said(n, field).value
                                         /\ I!Said(n, field)'.actor = I!Said(n, field).actor
      <3> TAKE field \in {"status", "verified"}
      <3> DEFINE S == {j \in DOMAIN trail : trail[j].field = field /\ n \in trail[j].about}
      <3>1. {j \in DOMAIN trail' : trail'[j].field = field /\ n \in trail'[j].about} = S
        BY <1>3
      <3>2. /\ S \in SUBSET (1 .. Len(trail)) /\ Len(trail) \in Nat
            /\ DOMAIN trail = 1 .. Len(trail)
        BY <1>2
      <3>3. /\ I!Said(n, field) = IF S = {} THEN Null ELSE trail[I!Max(S)]
            /\ I!Said(n, field)' = IF S = {} THEN Null ELSE trail'[I!Max(S)]
        BY <3>1 DEF I!Said
      <3> HIDE DEF S
      <3>4. S # {} => I!Max(S) \in DOMAIN trail BY <1>2, <3>2, LargestExists
      <3>5. S # {} => trail[I!Max(S)] # Null /\ trail'[I!Max(S)] # Null
        BY <1>2, <1>3, <3>4 DEF InboxGiven
      <3> QED BY <1>3, <3>3, <3>4, <3>5
    <2>2. Told(n) /\ rows'[n] = rows[n] BY <1>1 DEF InboxInv, ToldInv
    <2> QED BY <2>1, <2>2 DEF Told, I!Exists
  <1> QED BY <1>5, <1>6, <1>7, <1>8 DEF InboxInv

\* Whoever reads, and a change of groups, leaves all of it.
LEMMA InboxStill ==
    ASSUME InboxInv, UNCHANGED <<rows, trail, I!txVars, started>>
    PROVE  InboxInv'
  <1>1. InboxTypes' BY DEF InboxInv, InboxTypes, I!txVars, I!Exists
  <1>2. \A q \in Requests : InboxWrites(q)' BY InboxWritesKept DEF I!txVars
  <1>3. InboxOneWriter' /\ TrailInv' BY DEF InboxInv, InboxOneWriter, TrailInv, I!txVars
  <1>4. \A n \in Notifications, field \in {"status", "verified"} :
            I!Said(n, field)' = I!Said(n, field)
    BY DEF I!Said
  <1>5. ToldInv' BY <1>4, ToldKept DEF ToldInv
  <1> QED BY <1>1, <1>2, <1>3, <1>5 DEF InboxInv

\* The notifications at the start have no history.
LEMMA InboxStart ==
    ASSUME InboxGiven, I!Init
    PROVE  InboxInv
  <1>1. NotificationOK(I!Arrived) /\ I!Arrived # Unborn
    <2>1. NotificationOK(I!Arrived) BY DEF NotificationOK, I!Arrived, Statuses, InboxGiven
    <2> QED BY <2>1 DEF InboxGiven
  <1>2. \A n \in Notifications : rows[n] = I!Arrived \/ ~I!Exists(rows[n])
    BY DEF I!Init, I!Exists
  <1>3. trail = <<>> /\ DOMAIN trail = {} /\ trail \in Seq(EventType)
    BY DEF I!Init
  <1>4. InboxTypes
    BY <1>1, <1>2, <1>3 DEF I!Init, InboxTypes, InboxGiven
  <1>5. (\A p \in Requests : InboxWrites(p)) /\ InboxOneWriter
    BY DEF I!Init, InboxWrites, InboxOneWriter
  <1>6. \A n \in Notifications : I!Said(n, "status") = Null /\ I!Said(n, "verified") = Null
    BY <1>3 DEF I!Said
  <1>7. TrailInv /\ ToldInv
    <2>1. I!Arrived.status = "unread" /\ ~I!Arrived.verified BY DEF I!Arrived
    <2> QED BY <1>2, <1>3, <1>6, <2>1 DEF TrailInv, ToldInv, Told
  <1> QED BY <1>4, <1>5, <1>7 DEF InboxInv

\* One step of the inbox, by its kind.
LEMMA InboxStay ==
    ASSUME InboxGiven, InboxInv, [I!Next]_I!vars
    PROVE  InboxInv'
  <1>1. CASE UNCHANGED I!vars BY <1>1, InboxStill DEF I!vars
  <1>2. ASSUME NEW p \in Requests, I!Arrival(p) \/ I!Step(p) PROVE InboxInv'
    <2>1. CASE I!Arrival(p) BY <2>1, InboxArrival
    <2>2. CASE I!bulk_scan(p) BY <2>2, InboxScan
    <2>3. CASE I!commit(p) BY <2>3, InboxCommit
    <2>4. CASE I!rollback(p) BY <2>4, InboxFinish DEF I!rollback
    <2>5. ASSUME NEW n \in Notifications, I!write(p, n) PROVE InboxInv' BY <2>5, InboxWrite
    <2> QED BY <1>2, <2>1, <2>2, <2>3, <2>4, <2>5 DEF I!Step
  <1>3. CASE I!Around
    <2>1. ASSUME NEW groups, I!change_groups(groups) PROVE InboxInv'
      BY <2>1, InboxStill DEF I!change_groups
    <2> QED BY <1>3, <2>1, InboxArrive, InboxPurge, InboxPurgeEvents DEF I!Around
  <1>4. CASE I!Reading
    <2>1. UNCHANGED <<rows, trail, I!txVars, started>>
      BY <1>4 DEF I!Reading, I!list_notifications, I!list_deliveries, I!list_audit_events,
          I!export_audit_events, I!Listing, I!accessible_group_ids, I!_paginated, I!_righe
    <2> QED BY <2>1, InboxStill
  <1>5. (\E p \in Requests : I!Arrival(p) \/ I!Step(p)) \/ I!Around \/ I!Reading \/ UNCHANGED I!vars
    BY DEF I!Next
  <1> QED BY <1>1, <1>2, <1>3, <1>4, <1>5

\* What the invariant says to whoever reads the rows and the trail.
LEMMA InboxMeans ==
    ASSUME InboxGiven, InboxInv
    PROVE  I!TrailTellsTheState /\ I!TypeOK
  <1>1. I!TrailTellsTheState BY DEF InboxInv, ToldInv, Told, I!TrailTellsTheState
  <1>2. \A n \in Notifications : I!Exists(rows[n]) =>
          /\ DOMAIN rows[n] = DOMAIN I!Arrived
          /\ rows[n].read_by # Null <=> rows[n].status = "read"
          /\ rows[n].verified_by # Null <=> rows[n].verified
    BY DEF InboxInv, InboxTypes, NotificationOK, I!Arrived, Statuses
  <1>3. I!TypeOK
    BY <1>2 DEF InboxInv, InboxOneWriter, InboxWrites, InboxTypes, I!TypeOK
  <1> QED BY <1>1, <1>3

\* A behaviour of the inbox keeps all of it.
LEMMA InboxInvariant == ASSUME InboxGiven PROVE Spec => [](scope = "inbox" => InboxInv)
  <1>0. InboxGiven OBVIOUS
  <1>1. ASSUME Init PROVE scope = "inbox" => InboxInv
    BY <1>1, InboxStart DEF Init
  <1>2. ASSUME scope = "inbox" => InboxInv, [Next]_vars PROVE (scope = "inbox" => InboxInv)'
    <2>1. scope' = scope BY <1>2 DEF Next, vars
    <2>2. scope = "inbox" => [I!Next]_I!vars
      BY <1>2 DEF Next, vars, ofInbox, I!vars, I!txVars
    <2>3. ASSUME scope = "inbox" PROVE InboxInv'
      <3>1. InboxInv /\ [I!Next]_I!vars BY <1>2, <2>2, <2>3
      <3> QED BY <1>0, <3>1, InboxStay
    <2> QED BY <2>1, <2>3
  <1> QED BY <1>1, <1>2, PTL DEF Spec

\* A notification is read, and verified, exactly as the last event of the audit about it
\* says, with its actor, however many marks, bulk reads, deletions and retentions overlap: a
\* request writes each row under its lock, and its events are committed with its rows.
THEOREM TrailTells == ASSUME InboxGiven PROVE Spec => []TrailTellsTheState
  <1>1. (scope = "inbox" => InboxInv) => TrailTellsTheState
    BY InboxMeans DEF TrailTellsTheState
  <1> QED BY <1>1, InboxInvariant, PTL

-----------------------------------------------------------------------------
(* Lists, page by page. *)

\* A row of a list: its instant and its number.
ListKeys == Nat \X Nat

\* What the theorem assumes of the constants: notifications and deliveries are numbered, a
\* page has a row at least, and Null is no key and no set of keys.
ListingGiven ==
    /\ InboxGiven
    /\ Notifications \subseteq Nat /\ IsFiniteSet(Notifications)
    /\ Deliveries \subseteq Nat /\ IsFiniteSet(Deliveries)
    /\ ReceivedAt \in [Notifications -> Nat]
    /\ NotificationOf \in [Deliveries -> Notifications]
    /\ Limit \in Nat \ {0} /\ ExportMax \in Nat
    /\ Null \notin ListKeys /\ Null \notin SUBSET ListKeys

\* The latest first, each once.
Descending(s) == \A i, j \in DOMAIN s : i < j => I!Later(s[i], s[j])

\* A list that goes on: its cursor is the last row that it has shown, and whatever every page has
\* selected has been shown or comes after the cursor.
GoesOn(l) ==
    /\ l.cursor = IF l.listed = <<>> THEN Null ELSE l.listed[Len(l.listed)]
    /\ l.steady = Null => l.listed = <<>>
    /\ l.steady # Null => \A k \in l.steady : k \in I!Range(l.listed) \/ I!Below(k, l.cursor)

ListingOK(l) ==
    /\ DOMAIN l = {"source", "filter", "groups", "cursor", "listed", "steady", "place"}
    /\ l.source \in {"notifications", "deliveries", "audit", "export"}
    /\ l.place \in {"access", "refused", "rows", "end", "maximum"}
    /\ l.listed \in Seq(ListKeys)
    /\ l.cursor \in ListKeys \cup {Null}
    /\ l.steady # Null => l.steady \subseteq ListKeys
    /\ Descending(l.listed)
    /\ l.place \in {"access", "rows"} => GoesOn(l)
    /\ l.place = "end" => l.steady \subseteq I!Range(l.listed)

ListInv == listing # Null => ListingOK(listing)

-----------------------------------------------------------------------------
\* ORDER BY and the cursor agree on a strict order of the rows.
LEMMA LaterIsAnOrder ==
    ASSUME ListingGiven
    PROVE  /\ \A j \in ListKeys : ~ I!Later(j, j)
           /\ \A j, k \in ListKeys : j # k => I!Later(j, k) \/ I!Later(k, j)
           /\ \A j, k, l \in ListKeys : I!Later(j, k) /\ I!Later(k, l) => I!Later(j, l)
           /\ \A j, k \in ListKeys : I!Below(j, k) <=> I!Later(k, j)
           /\ \A j : I!Below(j, Null)
  <1>1. \A j \in ListKeys : ~ I!Later(j, j) BY DEF ListKeys, I!Later
  <1>2. \A j, k \in ListKeys : j # k => I!Later(j, k) \/ I!Later(k, j)
    <2> TAKE j, k \in ListKeys
    <2>1. PICK a, b, c, d \in Nat : j = <<a, b>> /\ k = <<c, d>> BY DEF ListKeys
    <2> QED BY <2>1 DEF I!Later
  <1>3. \A j, k, l \in ListKeys : I!Later(j, k) /\ I!Later(k, l) => I!Later(j, l)
    BY DEF ListKeys, I!Later
  <1>4. \A j, k \in ListKeys : I!Below(j, k) <=> I!Later(k, j)
    <2> TAKE j, k \in ListKeys
    <2>1. PICK a, b, c, d \in Nat : j = <<a, b>> /\ k = <<c, d>> BY DEF ListKeys
    <2>2. k # Null BY DEF ListingGiven
    <2> QED BY <2>1, <2>2 DEF I!Later, I!Below
  <1>5. \A j : I!Below(j, Null) BY DEF I!Below
  <1> QED BY <1>1, <1>2, <1>3, <1>4, <1>5

LEMMA SameSizes == \A S : I!Cardinality(S) = Cardinality(S)
  BY DEF I!Cardinality, Cardinality

Before(S, x) == {y \in S : I!Later(y, x)}

\* The row with i - 1 later ones.
Nth(S, i) == CHOOSE x \in S : I!Cardinality(Before(S, x)) = i - 1

\* The rows of a finite set by their places.
LEMMA Placed ==
    ASSUME ListingGiven, NEW S, IsFiniteSet(S), S \subseteq ListKeys
    PROVE  /\ Cardinality(S) \in Nat
           /\ \A i \in 1 .. Cardinality(S) : Nth(S, i) \in S
           /\ \A i, j \in 1 .. Cardinality(S) : i < j => I!Later(Nth(S, i), Nth(S, j))
           /\ \A x \in S : \E i \in 1 .. Cardinality(S) : Nth(S, i) = x
  <1> DEFINE n == Cardinality(S)
             before(x) == Before(S, x)
             rank(x) == Cardinality(before(x))
             r == [x \in S |-> rank(x)]
  <1>1. n \in Nat BY FS_CardinalityType
  <1>2. ASSUME NEW x \in S, NEW T \in SUBSET S, x \notin T
        PROVE  IsFiniteSet(T) /\ Cardinality(T) \in Nat /\ Cardinality(T) < n
    <2>1. IsFiniteSet(T) /\ Cardinality(T) <= n /\ (n = Cardinality(T) => S = T) BY FS_Subset
    <2>2. Cardinality(T) \in Nat BY <2>1, FS_CardinalityType
    <2> QED BY <1>1, <1>2, <2>1, <2>2
  <1>3. \A x \in S : rank(x) \in 0 .. n - 1
    <2> SUFFICES ASSUME NEW x \in S PROVE rank(x) \in 0 .. n - 1 OBVIOUS
    <2>1. before(x) \in SUBSET S /\ x \notin before(x) BY LaterIsAnOrder DEF Before
    <2> HIDE DEF before
    <2> QED BY <1>1, <1>2, <2>1
  <1>4. \A x, y \in S : I!Later(x, y) => rank(x) < rank(y)
    <2> SUFFICES ASSUME NEW x \in S, NEW y \in S, I!Later(x, y) PROVE rank(x) < rank(y) OBVIOUS
    <2>1. /\ before(x) \in SUBSET before(y) /\ x \in before(y) /\ x \notin before(x)
          /\ before(y) \in SUBSET S
      BY LaterIsAnOrder DEF Before
    <2> HIDE DEF before
    <2>2. IsFiniteSet(before(y)) BY <2>1, FS_Subset
    <2>3. Cardinality(before(x)) <= Cardinality(before(y)) BY <2>1, <2>2, FS_Subset
    <2>4. Cardinality(before(x)) # Cardinality(before(y)) BY <2>1, <2>2, FS_Subset
    <2>5. rank(x) \in Int /\ rank(y) \in Int BY <1>1, <1>3
    <2> QED BY <2>3, <2>4, <2>5
  <1> HIDE DEF rank, before
  <1>5. \A x, y \in S : rank(x) = rank(y) => x = y
    <2> SUFFICES ASSUME NEW x \in S, NEW y \in S, rank(x) = rank(y), x # y PROVE FALSE OBVIOUS
    <2>1. I!Later(x, y) \/ I!Later(y, x) BY LaterIsAnOrder
    <2> QED BY <1>1, <1>3, <1>4, <2>1
  <1>6. r \in Injection(S, 0 .. n - 1) BY <1>3, <1>5 DEF Injection, IsInjective
  <1>7. IsFiniteSet(0 .. n - 1) /\ Cardinality(0 .. n - 1) = n
    <2>1. 0 \in Int /\ n - 1 \in Int BY <1>1
    <2>2. /\ IsFiniteSet(0 .. (n - 1))
          /\ Cardinality(0 .. (n - 1)) = IF 0 > n - 1 THEN 0 ELSE (n - 1) - 0 + 1
      BY <2>1, FS_Interval
    <2> QED BY <1>1, <2>2
  <1>8. r \in Surjection(S, 0 .. n - 1) BY <1>6, <1>7, FS_Injection
  <1>9. \A i \in 1 .. n : \E x \in S : rank(x) = i - 1
    <2> SUFFICES ASSUME NEW i \in 1 .. n PROVE \E x \in S : rank(x) = i - 1 OBVIOUS
    <2>1. i - 1 \in 0 .. n - 1 BY <1>1
    <2> QED BY <1>8, <2>1 DEF Surjection
  <1>10. \A i \in 1 .. n : Nth(S, i) \in S /\ rank(Nth(S, i)) = i - 1
    BY <1>9, SameSizes DEF rank, before, Nth
  <1>11. ASSUME NEW i \in 1 .. n, NEW j \in 1 .. n, i < j PROVE I!Later(Nth(S, i), Nth(S, j))
    <2>1. Nth(S, i) \in S /\ Nth(S, j) \in S /\ rank(Nth(S, i)) < rank(Nth(S, j))
      BY <1>1, <1>10, <1>11
    <2>2. Nth(S, i) # Nth(S, j) BY <1>3, <2>1
    <2>3. ~ I!Later(Nth(S, j), Nth(S, i)) BY <1>1, <1>3, <1>4, <2>1
    <2> QED BY <2>1, <2>2, <2>3, LaterIsAnOrder
  <1>12. ASSUME NEW x \in S PROVE \E i \in 1 .. n : Nth(S, i) = x
    <2> DEFINE i == rank(x) + 1
    <2>1. i \in 1 .. n /\ i - 1 = rank(x) BY <1>1, <1>3
    <2> HIDE DEF i
    <2>2. Nth(S, i) \in S /\ rank(Nth(S, i)) = rank(x) BY <1>10, <2>1
    <2>3. Nth(S, i) = x BY <1>5, <2>2
    <2> QED BY <2>1, <2>3
  <1> QED BY <1>1, <1>10, <1>11, <1>12

\* The first rows under a cursor: in order, and nothing between them is left out.
LEMMA FirstAre ==
    ASSUME ListingGiven, NEW keys, IsFiniteSet(keys), keys \subseteq ListKeys,
           NEW cursor, NEW limit \in Nat
    PROVE  LET found == I!First(keys, cursor, limit)
               under == {k \in keys : I!Below(k, cursor)}
           IN  /\ found \in Seq(ListKeys) /\ Len(found) <= limit
               /\ \A i \in DOMAIN found : found[i] \in under
               /\ Descending(found)
               /\ \A i \in DOMAIN found, u \in under :
                     (\E j \in 1 .. i : found[j] = u) \/ I!Later(found[i], u)
               /\ Len(found) < limit => under \subseteq I!Range(found)
  <1> DEFINE under == {k \in keys : I!Below(k, cursor)}
             n == Cardinality(under)
             m == IF n < limit THEN n ELSE limit
             found == I!First(keys, cursor, limit)
  <1>1. IsFiniteSet(under) /\ under \subseteq ListKeys BY FS_Subset
  <1>2. /\ n \in Nat
        /\ \A i \in 1 .. n : Nth(under, i) \in under
        /\ \A i, j \in 1 .. n : i < j => I!Later(Nth(under, i), Nth(under, j))
        /\ \A x \in under : \E i \in 1 .. n : Nth(under, i) = x
    <2> HIDE DEF under
    <2> QED BY <1>1, Placed
  <1>3. m \in Nat /\ m <= n /\ m <= limit /\ (m < limit => m = n) BY <1>2
  <1>4. found = [i \in 1 .. m |-> Nth(under, i)]
    <2>1. found = [i \in 1 .. IF I!Cardinality(under) < limit THEN I!Cardinality(under) ELSE limit
                      |-> Nth(under, i)]
      BY DEF I!First, Nth, Before
    <2> HIDE DEF under, found
    <2> QED BY <2>1, SameSizes
  <1>5. \A k \in under : k \in ListKeys BY <1>1
  <1> HIDE DEF under, n, m, found
  <1>6. /\ DOMAIN found = 1 .. m /\ found \in Seq(ListKeys) /\ Len(found) = m
        /\ \A i \in 1 .. m : found[i] = Nth(under, i) /\ found[i] \in under
    <2>1. DOMAIN found = 1 .. m BY <1>4
    <2>2. \A i \in 1 .. m : found[i] = Nth(under, i) /\ found[i] \in under BY <1>2, <1>3, <1>4
    <2>3. found \in [1 .. m -> ListKeys] BY <1>4, <1>5, <2>2
    <2> QED BY <1>3, <2>1, <2>2, <2>3
  <1>7. Descending(found) BY <1>2, <1>3, <1>6 DEF Descending
  <1>8. ASSUME NEW i \in 1 .. m, NEW u \in under
        PROVE  (\E j \in 1 .. i : found[j] = u) \/ I!Later(found[i], u)
    <2>1. PICK j \in 1 .. n : Nth(under, j) = u BY <1>2
    <2>2. CASE j <= i BY <1>3, <1>6, <2>1, <2>2
    <2>3. CASE i < j BY <1>2, <1>3, <1>6, <2>1, <2>3
    <2> QED BY <1>2, <1>3, <2>2, <2>3
  <1>9. ASSUME Len(found) < limit PROVE under \subseteq I!Range(found)
    BY <1>2, <1>3, <1>6, <1>9 DEF I!Range
  <1> QED BY <1>3, <1>6, <1>7, <1>8, <1>9 DEF under, found

\* A function takes finitely many values on a finite set.
LEMMA FinitelyMany ==
    ASSUME NEW S, IsFiniteSet(S), NEW f
    PROVE  IsFiniteSet({f[x] : x \in S})
  <1> DEFINE T == {f[x] : x \in S}
             g == [x \in S |-> f[x]]
  <1>1. g \in [S -> T] /\ \A t \in T : \E x \in S : g[x] = t OBVIOUS
  <1>2. g \in Surjection(S, T) BY <1>1 DEF Surjection
  <1> QED BY <1>2, FS_Surjection

\* What a list selects: finitely many rows.
LEMMA SelectedKeys ==
    ASSUME ListingGiven, InboxInv, NEW filter, NEW groups,
           NEW source \in {"notifications", "deliveries", "audit", "export"}
    PROVE  LET keys == I!Selected(source, filter, groups)
           IN  IsFiniteSet(keys) /\ keys \subseteq ListKeys
  <1>1. CASE source = "notifications"
    <2> DEFINE found == {m \in Notifications :
                            /\ I!Exists(rows[m]) /\ GroupOf[m] \in groups
                            /\ filter # Null => rows[m].status = filter}
               f == [n \in Notifications |-> <<ReceivedAt[n], n>>]
    <2>1. IsFiniteSet(found) /\ found \subseteq Notifications BY FS_Subset DEF ListingGiven
    <2>2. I!Selected(source, filter, groups) = {<<ReceivedAt[n], n>> : n \in found}
      BY <1>1 DEF I!Selected, I!_apply_filters
    <2> HIDE DEF found
    <2>3. {<<ReceivedAt[n], n>> : n \in found} = {f[n] : n \in found} BY <2>1
    <2>4. \A n \in found : f[n] \in ListKeys BY <2>1 DEF ListingGiven, ListKeys
    <2> HIDE DEF f
    <2>5. IsFiniteSet({f[n] : n \in found}) BY <2>1, FinitelyMany
    <2> QED BY <2>2, <2>3, <2>4, <2>5
  <1>2. CASE source = "deliveries"
    <2> DEFINE found == {e \in Deliveries :
                            I!Exists(rows[NotificationOf[e]]) /\ GroupOf[NotificationOf[e]] \in groups}
               f == [d \in Deliveries |-> <<ReceivedAt[NotificationOf[d]], d>>]
    <2>1. IsFiniteSet(found) /\ found \subseteq Deliveries BY FS_Subset DEF ListingGiven
    <2>2. I!Selected(source, filter, groups) = {<<ReceivedAt[NotificationOf[d]], d>> : d \in found}
      BY <1>2 DEF I!Selected, I!DeliveriesOf
    <2> HIDE DEF found
    <2>3. {<<ReceivedAt[NotificationOf[d]], d>> : d \in found} = {f[d] : d \in found} BY <2>1
    <2>4. ASSUME NEW d \in found PROVE f[d] \in ListKeys
      <3>1. NotificationOf[d] \in Notifications /\ d \in Nat BY <2>1 DEF ListingGiven
      <3>2. ReceivedAt[NotificationOf[d]] \in Nat BY <3>1 DEF ListingGiven
      <3> QED BY <2>1, <3>1, <3>2 DEF ListKeys
    <2> HIDE DEF f
    <2>5. IsFiniteSet({f[d] : d \in found}) BY <2>1, FinitelyMany
    <2> QED BY <2>2, <2>3, <2>4, <2>5
  <1>3. CASE source \in {"audit", "export"}
    <2> DEFINE found == {f \in I!Range(trail) : f.kept}
               g == [e \in EventType |-> <<e.at, e.id>>]
    <2>1. trail \in Seq(EventType) BY DEF InboxInv, InboxTypes
    <2>2. PICK n \in Nat : n = Len(trail) BY <2>1
    <2>3. DOMAIN trail = 1 .. n /\ I!Range(trail) \subseteq EventType BY <2>1, <2>2 DEF I!Range
    <2>4. IsFiniteSet(1 .. n)
      <3>1. 1 \in Int /\ n \in Int BY <2>2
      <3> QED BY <3>1, FS_Interval
    <2>5. I!Range(trail) = {trail[i] : i \in 1 .. n} BY <2>3 DEF I!Range
    <2>6. IsFiniteSet(I!Range(trail)) BY <2>4, <2>5, FinitelyMany
    <2>7. IsFiniteSet(found) /\ found \subseteq EventType BY <2>3, <2>6, FS_Subset
    <2>8. I!Selected(source, filter, groups) = {<<e.at, e.id>> : e \in found}
      BY <1>3 DEF I!Selected, I!_base_query
    <2> HIDE DEF found
    <2>9. {<<e.at, e.id>> : e \in found} = {g[e] : e \in found} BY <2>7
    <2>10. \A e \in found : g[e] \in ListKeys BY <2>7 DEF EventType, ListKeys
    <2> HIDE DEF g
    <2>11. IsFiniteSet({g[e] : e \in found}) BY <2>7, FinitelyMany
    <2> QED BY <2>8, <2>9, <2>10, <2>11
  <1> QED BY <1>1, <1>2, <1>3

\* A page more: the list stays in order.
Added(l, keys, page) ==
    LET steady == IF l.steady = Null THEN keys ELSE l.steady \cap keys
        all == l.listed \o page
    IN  /\ all \in Seq(ListKeys) /\ Descending(all)
        /\ \A k \in steady : k \in I!Range(l.listed) \/ I!Below(k, l.cursor)
        /\ I!Range(all) = I!Range(l.listed) \cup I!Range(page)
        /\ page # <<>> => all[Len(all)] = page[Len(page)]

LEMMA PageAdds ==
    ASSUME ListingGiven, NEW l, ListingOK(l), GoesOn(l), NEW keys, keys \subseteq ListKeys,
           NEW page \in Seq(ListKeys), Descending(page),
           \A i \in DOMAIN page : page[i] \in keys /\ I!Below(page[i], l.cursor)
    PROVE  Added(l, keys, page)
  <1> DEFINE old == l.listed
             all == l.listed \o page
             steady == IF l.steady = Null THEN keys ELSE l.steady \cap keys
             under == {k \in keys : I!Below(k, l.cursor)}
  <1>1. old \in Seq(ListKeys) /\ Descending(old) BY DEF ListingOK
  <1>2. PICK m, n \in Nat : m = Len(old) /\ n = Len(page) BY <1>1
  <1>3. /\ all \in Seq(ListKeys) /\ Len(all) = m + n
        /\ DOMAIN old = 1 .. m /\ DOMAIN page = 1 .. n /\ DOMAIN all = 1 .. m + n
        /\ \A i \in 1 .. m : all[i] = old[i] /\ old[i] \in ListKeys
        /\ \A i \in m + 1 .. m + n : all[i] = page[i - m] /\ i - m \in 1 .. n
        /\ \A i \in 1 .. n : page[i] \in ListKeys
    BY <1>1, <1>2
  <1>4. Null \notin ListKeys BY DEF ListingGiven
  <1>5. \A i \in 1 .. m, j \in 1 .. n : I!Later(old[i], page[j])
    <2> SUFFICES ASSUME NEW i \in 1 .. m, NEW j \in 1 .. n PROVE I!Later(old[i], page[j]) OBVIOUS
    <2>1. l.cursor = old[m] /\ old[m] \in ListKeys /\ m \in 1 .. m BY <1>2, <1>3 DEF GoesOn
    <2>2. I!Below(page[j], old[m]) BY <1>3, <2>1
    <2>3. I!Later(old[m], page[j]) BY <1>3, <2>1, <2>2, LaterIsAnOrder
    <2>4. i = m \/ I!Later(old[i], old[m])
      <3>1. i = m \/ i < m BY <1>2
      <3> QED BY <1>1, <1>3, <2>1, <3>1 DEF Descending
    <2> QED BY <1>3, <2>1, <2>3, <2>4, LaterIsAnOrder
  <1>6. Descending(all)
    <2> SUFFICES ASSUME NEW i \in 1 .. m + n, NEW j \in 1 .. m + n, i < j
                 PROVE  I!Later(all[i], all[j])
      BY <1>3 DEF Descending
    <2>1. CASE j <= m
      <3>1. i \in 1 .. m /\ j \in 1 .. m BY <1>2, <2>1
      <3> QED BY <1>1, <1>3, <3>1 DEF Descending
    <2>2. CASE i > m
      <3>1. /\ i \in m + 1 .. m + n /\ j \in m + 1 .. m + n /\ i - m < j - m
        BY <1>2, <2>2
      <3>2. i - m \in DOMAIN page /\ j - m \in DOMAIN page BY <1>3, <3>1
      <3> QED BY <1>3, <3>1, <3>2 DEF Descending
    <2>3. CASE i <= m /\ m < j
      <3>1. i \in 1 .. m /\ j \in m + 1 .. m + n BY <1>2, <2>3
      <3> QED BY <1>3, <1>5, <3>1
    <2> QED BY <1>2, <2>1, <2>2, <2>3
  <1>7. ASSUME NEW k \in steady PROVE k \in I!Range(old) \/ k \in under
    <2>1. CASE l.steady # Null BY <1>7, <2>1 DEF GoesOn
    <2>2. CASE l.steady = Null /\ old = <<>>
      <3>1. l.cursor = Null BY <2>2 DEF GoesOn
      <3> QED BY <1>7, <2>2, <3>1, LaterIsAnOrder
    <2> QED BY <1>7, <2>1, <2>2 DEF GoesOn
  <1>8. I!Range(all) = I!Range(old) \cup I!Range(page)
    <2>1. \A i \in 1 .. n : m + i \in m + 1 .. m + n /\ (m + i) - m = i BY <1>2
    <2>2. \A i \in 1 .. n : all[m + i] = page[i] BY <1>3, <2>1
    <2>3. I!Range(all) \subseteq I!Range(old) \cup I!Range(page)
      <3>1. \A i \in 1 .. m + n : i \in 1 .. m \/ i \in m + 1 .. m + n BY <1>2
      <3> QED BY <1>3, <3>1 DEF I!Range
    <2>4. \A i \in 1 .. n : m + i \in 1 .. m + n BY <1>2
    <2>5. I!Range(page) \subseteq I!Range(all) BY <1>3, <2>2, <2>4 DEF I!Range
    <2>6. \A i \in 1 .. m : i \in 1 .. m + n BY <1>2
    <2>7. I!Range(old) \subseteq I!Range(all) BY <1>3, <2>6 DEF I!Range
    <2> QED BY <2>3, <2>5, <2>7
  <1>9. page # <<>> => all[m + n] = page[n]
    <2> SUFFICES ASSUME page # <<>> PROVE all[m + n] = page[n] OBVIOUS
    <2>1. n > 0 BY <1>2
    <2>2. m + n \in m + 1 .. m + n /\ (m + n) - m = n BY <1>2, <2>1
    <2> QED BY <1>3, <2>2
  <1> QED BY <1>2, <1>3, <1>6, <1>7, <1>8, <1>9 DEF Added

\* What every page has selected is shown already or comes after the page, and a page of all
\* the rows, when there are fewer than asked for, is the end.
Turned(limit, found, m, page, l, steady, all) ==
    /\ found \in Seq(ListKeys) /\ Len(found) <= limit
    /\ page \in Seq(ListKeys) /\ Len(page) = m
    /\ all \in Seq(ListKeys) /\ Descending(all)
    /\ steady \subseteq ListKeys /\ steady # Null
    /\ m = 0 => page = <<>> /\ all = l.listed
    /\ m # 0 => /\ page # <<>> /\ all # <<>>
                /\ page[Len(page)] \in ListKeys /\ page[Len(page)] = all[Len(all)]
                /\ \A k \in steady : k \in I!Range(all) \/ I!Below(k, page[Len(page)])
    /\ m = Len(found) /\ m < limit => steady \subseteq I!Range(all)

\* A page of the first rows under the cursor.
LEMMA PageTurns ==
    ASSUME ListingGiven, NEW l, ListingOK(l), GoesOn(l), NEW keys, IsFiniteSet(keys),
           keys \subseteq ListKeys, NEW limit \in Nat,
           NEW found, found = I!First(keys, l.cursor, limit),
           NEW m \in Nat, m <= Len(found), NEW page, page = SubSeq(found, 1, m),
           NEW steady, steady = IF l.steady = Null THEN keys ELSE l.steady \cap keys,
           NEW all, all = l.listed \o page
    PROVE  Turned(limit, found, m, page, l, steady, all)
  <1> DEFINE under == {k \in keys : I!Below(k, l.cursor)}
  <1>1. /\ found \in Seq(ListKeys) /\ Len(found) <= limit
        /\ \A i \in DOMAIN found : found[i] \in under
        /\ Descending(found)
        /\ \A i \in DOMAIN found, u \in under :
              (\E j \in 1 .. i : found[j] = u) \/ I!Later(found[i], u)
        /\ Len(found) < limit => under \subseteq I!Range(found)
    <2>1. ASSUME NEW f, f = I!First(keys, l.cursor, limit)
          PROVE  /\ f \in Seq(ListKeys) /\ Len(f) <= limit
                 /\ \A i \in DOMAIN f : f[i] \in under
                 /\ Descending(f)
                 /\ \A i \in DOMAIN f, u \in under :
                       (\E j \in 1 .. i : f[j] = u) \/ I!Later(f[i], u)
                 /\ Len(f) < limit => under \subseteq I!Range(f)
      <3>1. LET g == I!First(keys, l.cursor, limit)
            IN  /\ g \in Seq(ListKeys) /\ Len(g) <= limit
                /\ \A i \in DOMAIN g : g[i] \in under
                /\ Descending(g)
                /\ \A i \in DOMAIN g, u \in under :
                      (\E j \in 1 .. i : g[j] = u) \/ I!Later(g[i], u)
                /\ Len(g) < limit => under \subseteq I!Range(g)
        BY FirstAre
      <3> HIDE DEF under
      <3> QED BY <2>1, <3>1
    <2> HIDE DEF under
    <2> QED BY <2>1
  <1> HIDE DEF under
  <1>2. /\ page \in Seq(ListKeys) /\ Len(page) = m /\ DOMAIN page = 1 .. m
        /\ \A i \in 1 .. m : page[i] = found[i] /\ i \in DOMAIN found /\ page[i] \in ListKeys
    BY <1>1
  <1>3. Descending(page) BY <1>1, <1>2 DEF Descending
  <1>4. \A i \in DOMAIN page : page[i] \in keys /\ I!Below(page[i], l.cursor)
    BY <1>1, <1>2 DEF under
  <1>5. /\ all \in Seq(ListKeys) /\ Descending(all)
        /\ \A k \in steady : k \in I!Range(l.listed) \/ k \in under
        /\ I!Range(all) = I!Range(l.listed) \cup I!Range(page)
        /\ page # <<>> => all[Len(all)] = page[Len(page)]
    <2>1. Added(l, keys, page) BY <1>2, <1>3, <1>4, PageAdds
    <2>2. \A k \in steady : k \in keys OBVIOUS
    <2> QED BY <2>1, <2>2 DEF under, Added
  <1>6. steady \subseteq ListKeys /\ steady # Null BY DEF ListingGiven, ListingOK
  <1>7. ASSUME m = 0 PROVE page = <<>> /\ all = l.listed
    BY <1>2, <1>7 DEF ListingOK
  <1>8. ASSUME m # 0
        PROVE  /\ page # <<>> /\ all # <<>>
               /\ page[Len(page)] \in ListKeys /\ page[Len(page)] = all[Len(all)]
               /\ \A k \in steady : k \in I!Range(all) \/ I!Below(k, page[Len(page)])
    <2>1. page # <<>> /\ m \in 1 .. m /\ page[Len(page)] = page[m] BY <1>2, <1>8
    <2>2. page[m] \in ListKeys /\ page[m] = found[m] /\ m \in DOMAIN found BY <1>2, <2>1
    <2>3. page[Len(page)] = all[Len(all)] BY <1>2, <1>5, <2>1
    <2>4. all # <<>>
      <3>1. l.listed \in Seq(ListKeys) BY DEF ListingOK
      <3> QED BY <1>2, <1>8, <3>1
    <2>5. ASSUME NEW k \in steady PROVE k \in I!Range(all) \/ I!Below(k, page[m])
      <3>1. CASE k \in I!Range(l.listed) BY <1>5, <3>1
      <3>2. CASE k \in under
        <4>1. CASE \E j \in 1 .. m : found[j] = k BY <1>2, <1>5, <4>1 DEF I!Range
        <4>2. CASE I!Later(found[m], k)
          <5>1. k \in ListKeys BY <1>6
          <5> QED BY <2>2, <4>2, <5>1, LaterIsAnOrder
        <4> QED BY <1>1, <2>2, <3>2, <4>1, <4>2
      <3> QED BY <1>5, <3>1, <3>2
    <2> QED BY <2>1, <2>2, <2>3, <2>4, <2>5
  <1>9. ASSUME m = Len(found), m < limit PROVE steady \subseteq I!Range(all)
    <2>1. DOMAIN found = 1 .. m BY <1>1, <1>9
    <2>2. I!Range(page) = I!Range(found) BY <1>2, <2>1 DEF I!Range
    <2> QED BY <1>1, <1>5, <1>9, <2>2
  <1> QED BY <1>1, <1>2, <1>5, <1>6, <1>7, <1>8, <1>9 DEF Turned

\* A page of a list.
LEMMA PaginatedLists ==
    ASSUME ListingGiven, InboxInv, ListInv, I!_paginated
    PROVE  ListInv'
  <1>1. PICK l : l = listing OBVIOUS
  <1>2. /\ l # Null /\ l.place = "rows" /\ l.source # "export" BY <1>1 DEF I!_paginated
  <1>3. ListingOK(l) /\ GoesOn(l) BY <1>1, <1>2 DEF ListInv, ListingOK
  <1>4. PICK keys : keys = I!Selected(l.source, l.filter, l.groups) OBVIOUS
  <1>5. IsFiniteSet(keys) /\ keys \subseteq ListKeys
    BY <1>3, <1>4, SelectedKeys DEF ListingOK
  <1>6. PICK limit \in Nat : limit = Limit + 1 /\ Limit \in Nat \ {0} BY DEF ListingGiven
  <1>7. PICK found : found = I!First(keys, l.cursor, limit) OBVIOUS
  <1>8. found \in Seq(ListKeys) /\ Len(found) <= limit BY <1>3, <1>5, <1>7, FirstAre
  <1>9. PICK m \in Nat : m = IF I!More(found) THEN Limit ELSE Len(found) BY <1>6, <1>8
  <1>10. m <= Len(found) BY <1>6, <1>8, <1>9 DEF I!More
  <1>11. PICK page : page = SubSeq(found, 1, m) OBVIOUS
  <1>12. PICK all : all = l.listed \o page OBVIOUS
  <1>13. PICK steady : steady = IF l.steady = Null THEN keys ELSE l.steady \cap keys OBVIOUS
  <1>14. PICK new : new = listing' OBVIOUS
  <1>15. new = [l EXCEPT !.listed = all, !.steady = steady,
                  !.cursor = IF I!More(found) THEN page[Len(page)] ELSE @,
                  !.place = CASE ~I!More(found) -> "end"
                              [] I!More(found) /\ l.source = "audit" -> "rows"
                              [] OTHER -> "access"]
    BY <1>1, <1>4, <1>6, <1>7, <1>9, <1>11, <1>12, <1>13, <1>14 DEF I!_paginated, I!Steady
  <1>16. Turned(limit, found, m, page, l, steady, all)
    BY <1>3, <1>5, <1>6, <1>7, <1>9, <1>10, <1>11, <1>12, <1>13, PageTurns
  <1>17. /\ DOMAIN new = DOMAIN l /\ new.source = l.source
         /\ new.listed = all /\ new.steady = steady
         /\ new.cursor = IF I!More(found) THEN page[Len(page)] ELSE l.cursor
         /\ new.place \in {"end", "rows", "access"} /\ (new.place = "end" <=> ~I!More(found))
    BY <1>3, <1>15 DEF ListingOK
  <1>18. ListingOK(new)
    <2>1. CASE I!More(found)
      <3>1. m # 0 BY <1>6, <1>9, <2>1
      <3>2. GoesOn(new) BY <1>16, <1>17, <2>1, <3>1 DEF GoesOn, Turned
      <3> QED BY <1>3, <1>16, <1>17, <2>1, <3>1, <3>2 DEF ListingOK, Turned
    <2>2. CASE ~I!More(found)
      <3>1. m = Len(found) /\ m < limit BY <1>6, <1>8, <1>9, <2>2 DEF I!More
      <3> QED BY <1>3, <1>16, <1>17, <2>2, <3>1 DEF ListingOK, Turned
    <2> QED BY <2>1, <2>2
  <1> QED BY <1>14, <1>18 DEF ListInv

\* A block of the export.
LEMMA BlocksList ==
    ASSUME ListingGiven, InboxInv, ListInv, I!_righe
    PROVE  ListInv'
  <1>1. PICK l : l = listing OBVIOUS
  <1>2. /\ l # Null /\ l.place = "rows" /\ l.source = "export" BY <1>1 DEF I!_righe
  <1>3. ListingOK(l) /\ GoesOn(l) BY <1>1, <1>2 DEF ListInv, ListingOK
  <1>4. PICK keys : keys = I!Selected(l.source, Null, l.groups) OBVIOUS
  <1>5. IsFiniteSet(keys) /\ keys \subseteq ListKeys
    BY <1>3, <1>4, SelectedKeys DEF ListingOK
  <1>6. Limit \in Nat \ {0} BY DEF ListingGiven
  <1>7. PICK block : block = I!First(keys, l.cursor, Limit) OBVIOUS
  <1>8. block \in Seq(ListKeys) /\ Len(block) <= Limit BY <1>3, <1>5, <1>6, <1>7, FirstAre
  <1>9. PICK m \in Nat : m = Len(block) BY <1>8
  <1>10. block = SubSeq(block, 1, m) BY <1>8, <1>9
  <1>11. PICK all : all = l.listed \o block OBVIOUS
  <1>12. PICK steady : steady = IF l.steady = Null THEN keys ELSE l.steady \cap keys OBVIOUS
  <1>13. PICK new : new = listing' OBVIOUS
  <1>14. new = [l EXCEPT !.listed = all, !.steady = steady,
                  !.cursor = IF block = <<>> THEN @ ELSE block[Len(block)],
                  !.place = CASE Len(block) < Limit -> "end"
                              [] Len(block) = Limit /\ Len(all) >= ExportMax -> "maximum"
                              [] OTHER -> "rows"]
    BY <1>1, <1>4, <1>7, <1>11, <1>12, <1>13 DEF I!_righe, I!Steady
  <1>15. Turned(Limit, block, m, block, l, steady, all)
    <2>1. PICK limit \in Nat : limit = Limit BY <1>6
    <2>2. PICK page : page = SubSeq(block, 1, m) OBVIOUS
    <2>3. page = block BY <1>10, <2>2
    <2>4. block = I!First(keys, l.cursor, limit) /\ all = l.listed \o page BY <1>7, <1>11, <2>1, <2>3
    <2>5. m <= Len(block) BY <1>8, <1>9
    <2> HIDE <2>3
    <2>6. Turned(limit, block, m, page, l, steady, all)
      BY <1>3, <1>5, <1>9, <1>12, <2>1, <2>2, <2>4, <2>5, PageTurns
    <2> QED BY <2>1, <2>3, <2>6
  <1>16. /\ DOMAIN new = DOMAIN l /\ new.source = l.source
         /\ new.listed = all /\ new.steady = steady
         /\ new.cursor = IF block = <<>> THEN l.cursor ELSE block[Len(block)]
         /\ new.place \in {"end", "maximum", "rows"} /\ (new.place = "end" <=> m < Limit)
    <2>1. Len(block) < Limit \/ Len(block) = Limit BY <1>6, <1>8, <1>9
    <2> QED BY <1>3, <1>9, <1>14, <2>1 DEF ListingOK
  <1>17. ListingOK(new)
    <2>1. CASE m < Limit BY <1>3, <1>9, <1>15, <1>16, <2>1 DEF ListingOK, Turned
    <2>2. CASE ~(m < Limit)
      <3>1. m # 0 BY <1>6, <2>2
      <3>2. GoesOn(new) BY <1>15, <1>16, <3>1 DEF GoesOn, Turned
      <3> QED BY <1>3, <1>15, <1>16, <2>2, <3>1, <3>2 DEF ListingOK, Turned
    <2> QED BY <2>1, <2>2
  <1> QED BY <1>13, <1>17 DEF ListInv

\* Every step of the inbox keeps the lists.
LEMMA ListStep ==
    ASSUME ListingGiven, InboxInv, ListInv, [I!Next]_I!vars
    PROVE  ListInv'
  <1> USE DEF ListInv
  <1>1. ASSUME NEW source \in {"notifications", "deliveries", "audit", "export"}, NEW filter,
               NEW groups, I!Listing(source, filter, groups)
        PROVE  ListInv'
    <2>1. PICK new : new = listing' OBVIOUS
    <2>2. new = [source |-> source, filter |-> filter, groups |-> groups, cursor |-> Null,
                 listed |-> <<>>, steady |-> Null,
                 place |-> IF groups = Null THEN "access" ELSE "rows"]
      BY <1>1, <2>1 DEF I!Listing
    <2>3. Descending(<<>>) BY DEF Descending
    <2> QED BY <2>1, <2>2, <2>3 DEF ListingOK, GoesOn
  <1>2. ASSUME I!accessible_group_ids PROVE ListInv'
    <2>1. PICK l : l = listing OBVIOUS
    <2>2. PICK new : new = listing' OBVIOUS
    <2>3. l # Null /\ l.place = "access" /\ ListingOK(l) BY <1>2, <2>1 DEF I!accessible_group_ids
    <2>4. new = [l EXCEPT !.groups = member,
                          !.place = IF member = {} THEN "refused" ELSE "rows"]
      BY <1>2, <2>1, <2>2 DEF I!accessible_group_ids
    <2>5. /\ DOMAIN new = DOMAIN l /\ new.source = l.source /\ new.listed = l.listed
          /\ new.steady = l.steady /\ new.cursor = l.cursor /\ new.place \in {"refused", "rows"}
      BY <2>3, <2>4 DEF ListingOK
    <2>6. ListingOK(new) BY <2>3, <2>5 DEF ListingOK, GoesOn
    <2> QED BY <2>2, <2>6
  <1>3. CASE I!Reading
    BY <1>1, <1>2, <1>3, PaginatedLists, BlocksList
    DEF I!Reading, I!list_notifications, I!list_deliveries, I!list_audit_events,
        I!export_audit_events
  <1>4. CASE I!Around \/ UNCHANGED I!vars \/ \E p \in Requests : I!Arrival(p) \/ I!Step(p)
    <2>1. ASSUME UNCHANGED I!vars PROVE listing' = listing BY <2>1 DEF I!vars
    <2>2. ASSUME I!Around PROVE listing' = listing
      BY <2>2 DEF I!Around, I!arrive, I!purge_old_notifications, I!purge_audit_events,
        I!change_groups
    <2>3. ASSUME NEW p \in Requests, I!Arrival(p) PROVE listing' = listing
      BY <2>3 DEF I!Arrival, I!bulk_mark_read, I!mark_notification_status,
        I!delete_notification, I!Begin
    <2>4. ASSUME NEW p \in Requests, I!Step(p) PROVE listing' = listing
      BY <2>4 DEF I!Step, I!bulk_scan, I!commit, I!rollback, I!write
    <2>5. listing' = listing BY <1>4, <2>1, <2>2, <2>3, <2>4
    <2> QED BY <2>5 DEF ListingOK, GoesOn, Descending
  <1> QED BY <1>3, <1>4 DEF I!Next

\* However the pages of the notifications, of the deliveries, of the audit and of the export are
\* turned while others mark, delete and arrive, who reaches the end has met, once and in order,
\* every row that all the pages could have shown: the cursor is the last row, and the order of
\* its instant and number leaves none between two pages.
THEOREM ListsMeetAllOnce == ASSUME ListingGiven PROVE Spec => []ListedOnce
  <1>0. InboxGiven BY DEF ListingGiven
  <1> DEFINE Inv == scope = "inbox" => InboxInv /\ ListInv
  <1>1. ASSUME Init PROVE Inv
    <2>1. ASSUME scope = "inbox" PROVE ListInv BY <1>1, <2>1 DEF Init, I!Init, ListInv
    <2> QED BY <1>0, <1>1, <2>1, InboxStart DEF Init
  <1>2. ASSUME Inv, [Next]_vars PROVE Inv'
    <2>1. scope' = scope BY <1>2 DEF Next, vars
    <2>2. scope = "inbox" => [I!Next]_I!vars
      BY <1>2 DEF Next, vars, ofInbox, I!vars, I!txVars
    <2>3. ASSUME scope = "inbox" PROVE InboxInv' /\ ListInv'
      <3>1. InboxInv /\ ListInv /\ [I!Next]_I!vars BY <1>2, <2>2, <2>3
      <3>2. InboxInv' BY <1>0, <3>1, InboxStay
      <3> QED BY <3>1, <3>2, ListStep
    <2> QED BY <2>1, <2>3
  <1>3. Inv => ListedOnce
    <2> SUFFICES ASSUME Inv, scope = "inbox", listing # Null PROVE ListedOnce
      BY DEF ListedOnce, I!ListedOnce
    <2>1. ListingOK(listing) BY DEF ListInv
    <2> QED BY <2>1 DEF ListedOnce, I!ListedOnce, ListingOK, Descending
  <1> QED BY <1>1, <1>2, <1>3, PTL DEF Spec

-----------------------------------------------------------------------------
(* Invitations and accounts. *)

AccountRows == [id : Nat, via : Invitations \cup {Null}]
InvitationRows == [id : Nat, accepted : BOOLEAN]
GroupRows == [id : Nat, name : GroupNames]
MemberRows == [id : Nat]
AnyRow == AccountRows \cup InvitationRows \cup GroupRows \cup MemberRows

\* The row of a key, by its kind.
RowOf(k, row) ==
    /\ row \in AnyRow
    /\ k \in Emails => row \in AccountRows
    /\ k \in Invitations => row \in InvitationRows
    /\ k \in Groups => row \in GroupRows
    /\ k \in D!Members => row \in MemberRows

CellOf(k, row) ==
    \/ row = NoRow
    \/ row = Unborn /\ k \in Invitations \cup Groups
    \/ RowOf(k, row)

UserOps == {"create_user", "update_user"}
InvitationOps == {"create_invitation", "revoke_invitation", "accept_invitation"}
GroupOps == {"create_group", "update_group", "delete_group"}

DirectoryRequest(r) ==
    /\ r.op \in UserOps \cup InvitationOps \cup GroupOps /\ r.id \in Nat
    /\ r.op \in UserOps => r.about \in Emails /\ r.ask \in Seq(Groups)
    /\ r.op \in InvitationOps => r.about \in Invitations
    /\ r.op \in GroupOps => r.about \in Groups

\* An account tells the invitation it comes from, and only an accepted one has its account.
Linked(cells) ==
    /\ \A i \in Invitations : D!Exists(cells[i]) =>
          (cells[i].accepted <=> cells[EmailOf[i]] # NoRow /\ cells[EmailOf[i]].via = i)
    /\ \A e \in Emails : cells[e] # NoRow /\ cells[e].via \in Invitations =>
          cells[cells[e].via] # Unborn

\* What the theorems assume of the constants: keys of different kinds are different, what
\* stands for no row, no write, no request and nobody is none of the data, and the rows at
\* the start agree.
DirectoryGiven ==
    /\ IsFiniteSet(Emails) /\ IsFiniteSet(Groups)
    /\ EmailOf \in [Invitations -> Emails]
    /\ Emails \cap Invitations = {} /\ Emails \cap Groups = {} /\ Invitations \cap Groups = {}
    /\ D!Members \cap (Emails \cup Invitations \cup Groups) = {}
    /\ {NoRow, Unborn, Same} \cap AnyRow = {}
    /\ NoRow # Unborn /\ NoRow # Same /\ Unborn # Same
    /\ ~DirectoryRequest(NoRequest)
    /\ Null \notin Invitations
    /\ MaxRequests \in Nat
    /\ DOMAIN InitialDirectory = D!Keys /\ \A k \in D!Keys : CellOf(k, InitialDirectory[k])
    /\ Linked(InitialDirectory)

Statements ==
    [kind : {"insert", "lock", "update", "delete", "cascade"}, key : D!Keys,
     row : AnyRow \cup [accepted : {TRUE}] \cup [name : GroupNames] \cup {Null}]

\* What a request that accepts no invitation may have yet to execute.
Planned(r, s) ==
    /\ s \in Statements
    /\ s.kind = "insert" =>
          /\ RowOf(s.key, s.row)
          /\ s.key \in Emails => r.op = "create_user" /\ s.row.via = Null
          /\ s.key \in Invitations =>
                r.op = "create_invitation" /\ s.key = r.about /\ ~s.row.accepted
    /\ s.kind # "lock"
    /\ s.kind = "update" => s.key \in Groups /\ s.row \in [name : GroupNames]
    /\ s.kind = "delete" =>
          /\ s.key \notin Emails
          /\ s.key \in Invitations => r.op = "revoke_invitation" /\ s.key = r.about
    /\ s.kind = "cascade" => s.key \in Groups

\* Where an acceptance stands: nothing done, locked, with its account, and done.
Accepting(p) ==
    LET r == request[p]
        i == r.about
        account == [id |-> r.id, via |-> i]
        plan == D!acceptance(i, r.id)
    IN  \/ todo[p] = plan /\ written[p][i] = Same /\ written[p][EmailOf[i]] = Same
        \/ /\ todo[p] = <<plan[2], plan[3]>>
           /\ written[p][i] = rows[i] /\ rows[i] # Same /\ written[p][EmailOf[i]] = Same
        \/ /\ todo[p] = <<plan[3]>>
           /\ written[p][i] = rows[i] /\ rows[i] # Same /\ written[p][EmailOf[i]] = account
        \/ /\ todo[p] = <<>> /\ written[p][EmailOf[i]] = account
           /\ written[p][i] \in InvitationRows /\ written[p][i].accepted

Places == {"idle", "registered", "groups", "replacing", "writing", "refused", "conflict"}

PlaceOK(p) ==
    /\ pc[p] \in Places /\ (pc[p] = "idle" <=> request[p] = NoRequest)
    /\ request[p] = NoRequest \/ DirectoryRequest(request[p])
    /\ pc[p] \in {"idle", "registered", "groups", "replacing"} =>
          \A k \in D!Keys : written[p][k] = Same
    /\ pc[p] = "registered" => request[p].op = "accept_invitation"
    /\ pc[p] = "groups" => request[p].op \in UserOps
    /\ pc[p] = "replacing" => request[p].op = "update_user"
    /\ pc[p] = "writing" =>
          IF request[p].op = "accept_invitation" THEN Accepting(p)
          ELSE /\ todo[p] \in Seq(Statements)
               /\ \A n \in DOMAIN todo[p] : Planned(request[p], todo[p][n])

\* What a transaction has written, and the row it has written it on.
WriteOK(p, k) ==
    LET w == written[p][k]
        r == request[p]
    IN  w # Same =>
          /\ r # NoRequest
          /\ w = NoRow \/ RowOf(k, w)
          /\ k \in Emails =>
                /\ rows[k] = NoRow /\ w # NoRow
                /\ \/ r.op = "create_user" /\ w.via = Null
                   \/ /\ r.op = "accept_invitation" /\ k = EmailOf[r.about] /\ w.via = r.about
                      /\ written[p][r.about] # Same
          /\ k \in Invitations =>
                /\ k = r.about
                /\ \/ r.op = "create_invitation" /\ w # NoRow /\ ~w.accepted
                   \/ r.op = "revoke_invitation" /\ w = NoRow
                   \/ /\ r.op = "accept_invitation" /\ D!Exists(rows[k]) /\ ~rows[k].accepted
                      /\ w # NoRow

\* A conflict of an acceptance is with another account.
ConflictOK(p) ==
    pc[p] = "conflict" /\ request[p].op = "accept_invitation" =>
        LET e == EmailOf[request[p].about]
        IN  rows[e] # NoRow /\ rows[e].via # request[p].about

Local(p) == PlaceOK(p) /\ ConflictOK(p) /\ \A k \in D!Keys : WriteOK(p, k)

\* An invitation to be sent is the business of one request.
Sending ==
    \A p \in Requests : request[p] # NoRequest /\ request[p].op = "create_invitation" =>
        /\ rows[request[p].about] = Unborn
        /\ \A q \in Requests \ {p} :
              request[q] # NoRequest => request[q].about # request[p].about

DirectoryOneWriter ==
    \A p, q \in Requests : p # q =>
        \A k \in D!Keys : written[p][k] = Same \/ written[q][k] = Same

DirectoryTypes ==
    /\ DOMAIN rows = D!Keys /\ \A k \in D!Keys : CellOf(k, rows[k])
    /\ DOMAIN written = Requests /\ \A p \in Requests : DOMAIN written[p] = D!Keys
    /\ DOMAIN request = Requests /\ DOMAIN pc = Requests /\ DOMAIN todo = Requests
    /\ DOMAIN contested = Requests
    /\ started \in 0 .. MaxRequests

DirectoryInv ==
    /\ DirectoryTypes /\ (\A p \in Requests : Local(p)) /\ Sending /\ DirectoryOneWriter
    /\ Linked(rows)

-----------------------------------------------------------------------------
\* What is known of a request, its invitation and its e-mail.
LEMMA DirectoryFacts ==
    ASSUME DirectoryGiven, DirectoryInv, NEW p \in Requests
    PROVE  /\ PlaceOK(p) /\ ConflictOK(p) /\ \A k \in D!Keys : WriteOK(p, k)
           /\ request[p] # NoRequest => DirectoryRequest(request[p])
           /\ request[p] # NoRequest /\ request[p].op = "accept_invitation" =>
                 /\ request[p].about \in Invitations /\ request[p].about \in D!Keys
                 /\ EmailOf[request[p].about] \in Emails /\ EmailOf[request[p].about] \in D!Keys
                 /\ EmailOf[request[p].about] # request[p].about
           /\ pc[p] # "idle" => request[p] # NoRequest
  <1>1. Local(p) BY DEF DirectoryInv
  <1>2. PlaceOK(p) /\ ConflictOK(p) /\ \A k \in D!Keys : WriteOK(p, k) BY <1>1 DEF Local
  <1>3. request[p] # NoRequest => DirectoryRequest(request[p]) BY <1>2 DEF PlaceOK
  <1>4. request[p] # NoRequest /\ request[p].op = "accept_invitation" =>
            request[p].about \in Invitations
    BY <1>3 DEF DirectoryRequest, InvitationOps
  <1>5. Invitations \subseteq D!Keys /\ Emails \subseteq D!Keys BY DEF D!Keys
  <1>6. pc[p] # "idle" => request[p] # NoRequest BY <1>2 DEF PlaceOK
  <1> QED BY <1>2, <1>3, <1>4, <1>5, <1>6 DEF DirectoryGiven

\* What another does to rows that a transaction has not written leaves it as it was.
LEMMA LocalKept ==
    ASSUME DirectoryGiven, DirectoryInv, NEW q \in Requests, request'[q] = request[q],
           pc'[q] = pc[q], todo'[q] = todo[q], written'[q] = written[q],
           \A k \in D!Keys : written[q][k] # Same => rows'[k] = rows[k],
           \A e \in Emails : rows[e] # NoRow => rows'[e] = rows[e]
    PROVE  Local(q)'
  <1>1. /\ PlaceOK(q) /\ ConflictOK(q) /\ \A k \in D!Keys : WriteOK(q, k)
        /\ request[q] # NoRequest /\ request[q].op = "accept_invitation" =>
                 /\ request[q].about \in Invitations /\ request[q].about \in D!Keys
                 /\ EmailOf[request[q].about] \in Emails
        /\ pc[q] # "idle" => request[q] # NoRequest
    BY DirectoryFacts
  <1>2. PlaceOK(q)'
    <2>1. ASSUME pc[q] = "writing", request[q].op = "accept_invitation" PROVE Accepting(q)'
      <3>1. Accepting(q) BY <1>1, <2>1 DEF PlaceOK
      <3> QED BY <1>1, <2>1, <3>1 DEF Accepting
    <2> QED BY <1>1, <2>1 DEF PlaceOK
  <1>3. ConflictOK(q)' BY <1>1 DEF ConflictOK
  <1>4. ASSUME NEW k \in D!Keys PROVE WriteOK(q, k)'
    <2>1. WriteOK(q, k) BY <1>1
    <2> QED BY <2>1 DEF WriteOK, D!Exists
  <1> QED BY <1>2, <1>3, <1>4 DEF Local

\* A step of one transaction that leaves the rows.
LEMMA DirectoryMoves ==
    ASSUME DirectoryGiven, DirectoryInv, DirectoryTypes', UNCHANGED rows, NEW p \in Requests,
           \A q \in Requests \ {p} : /\ request'[q] = request[q] /\ pc'[q] = pc[q]
                                     /\ todo'[q] = todo[q] /\ written'[q] = written[q],
           Local(p)', Sending',
           \A k \in D!Keys, q \in Requests \ {p} : written[q][k] # Same => written'[p][k] = Same
    PROVE  DirectoryInv'
  <1>1. \A q \in Requests \ {p} : Local(q)' BY LocalKept
  <1>2. DirectoryOneWriter' BY DEF DirectoryInv, DirectoryOneWriter
  <1>3. Linked(rows') BY DEF DirectoryInv, Linked
  <1>4. Linked(rows)' BY <1>3 DEF Linked, D!Exists
  <1> QED BY <1>1, <1>2, <1>4 DEF DirectoryInv

\* One that leaves its request too, or ends it.
LEMMA SendingKept ==
    ASSUME DirectoryInv, UNCHANGED rows, NEW p \in Requests,
           \A q \in Requests \ {p} : request'[q] = request[q],
           request'[p] = request[p] \/ request'[p] = NoRequest
    PROVE  Sending'
  BY DEF DirectoryInv, Sending

\* A request ends without a trace.
LEMMA DirectoryFinish ==
    ASSUME DirectoryGiven, DirectoryInv, NEW p \in Requests, D!Finish(p),
           UNCHANGED <<rows, contested, started>>
    PROVE  DirectoryInv'
  <1>1. /\ \A q \in Requests \ {p} : /\ request'[q] = request[q] /\ pc'[q] = pc[q]
                                     /\ todo'[q] = todo[q] /\ written'[q] = written[q]
        /\ request'[p] = NoRequest /\ pc'[p] = "idle" /\ todo'[p] = <<>>
        /\ written'[p] = [k \in D!Keys |-> Same]
    BY DEF DirectoryInv, DirectoryTypes, D!Finish, D!Go
  <1>2. DirectoryTypes'
    BY <1>1 DEF DirectoryInv, DirectoryTypes, D!Finish, D!Go, CellOf, RowOf
  <1>3. Local(p)' BY <1>1 DEF Local, PlaceOK, ConflictOK, WriteOK, Places
  <1>4. Sending' BY <1>1, SendingKept
  <1> QED BY <1>1, <1>2, <1>3, <1>4, DirectoryMoves

\* A request begins, about something that no invitation to be sent is about.
LEMMA DirectoryBegin ==
    ASSUME DirectoryGiven, DirectoryInv, NEW p \in Requests, NEW op, NEW about, NEW ask,
           NEW place, NEW statements, D!Begin(p, op, about, ask, place, statements),
           op \in UserOps \cup InvitationOps \cup GroupOps,
           op \in UserOps => about \in Emails /\ ask \in Seq(Groups) /\ place = "groups",
           op \in InvitationOps => about \in Invitations,
           op \in GroupOps => about \in Groups,
           IF op = "accept_invitation" THEN place = "registered"
           ELSE /\ place = "groups" => op \in UserOps
                /\ place \in {"groups", "writing"} /\ statements \in Seq(Statements)
                /\ \A n \in DOMAIN statements :
                      Planned([op |-> op, about |-> about, ask |-> ask, id |-> started + 1],
                              statements[n]),
           op \in {"revoke_invitation", "accept_invitation"} => D!Exists(rows[about]),
           op = "create_invitation" =>
              /\ rows[about] = Unborn
              /\ \A q \in Requests : request[q] # NoRequest => request[q].about # about
    PROVE  DirectoryInv'
  <1> DEFINE new == [op |-> op, about |-> about, ask |-> ask, id |-> started + 1]
  <1>1. /\ \A q \in Requests \ {p} : /\ request'[q] = request[q] /\ pc'[q] = pc[q]
                                     /\ todo'[q] = todo[q] /\ written'[q] = written[q]
        /\ request'[p] = new /\ pc'[p] = place /\ todo'[p] = statements
        /\ written' = written /\ pc[p] = "idle" /\ UNCHANGED rows
    BY DEF DirectoryInv, DirectoryTypes, D!Begin, D!Go
  <1>2. started \in Nat /\ started' = started + 1 /\ started < MaxRequests
    BY DEF DirectoryInv, DirectoryTypes, DirectoryGiven, D!Begin
  <1>3. new.op = op /\ new.about = about /\ new.ask = ask /\ new.id \in Nat
    BY <1>2
  <1>4. \A n \in DOMAIN statements : op # "accept_invitation" => Planned(new, statements[n])
    OBVIOUS
  <1> HIDE DEF new
  <1>5. DirectoryRequest(new) BY <1>3 DEF DirectoryRequest
  <1>6. new # NoRequest BY <1>5 DEF DirectoryGiven
  <1>7. DirectoryTypes'
    <2>1. started' \in 0 .. MaxRequests BY <1>2 DEF DirectoryGiven
    <2> QED BY <1>1, <2>1 DEF DirectoryInv, DirectoryTypes, D!Begin, D!Go, CellOf, RowOf
  <1>8. \A k \in D!Keys : written[p][k] = Same
    <2>1. PlaceOK(p) BY DirectoryFacts
    <2> QED BY <1>1, <2>1 DEF PlaceOK
  <1>9. Local(p)'
    <2>1. PlaceOK(p)'
      <3>1. place \in Places /\ place # "idle" /\ place # "replacing" BY DEF Places
      <3>2. place = "registered" => op = "accept_invitation" OBVIOUS
      <3>3. place = "groups" => op \in UserOps BY DEF UserOps
      <3>4. place = "writing" => op # "accept_invitation" OBVIOUS
      <3> QED BY <1>1, <1>3, <1>4, <1>5, <1>6, <1>8, <3>1, <3>2, <3>3, <3>4 DEF PlaceOK
    <2>2. ConflictOK(p)'
      <3>1. place # "conflict" OBVIOUS
      <3> QED BY <1>1, <3>1 DEF ConflictOK
    <2>3. \A k \in D!Keys : WriteOK(p, k)' BY <1>1, <1>8 DEF WriteOK
    <2> QED BY <2>1, <2>2, <2>3 DEF Local
  <1>10. Sending'
    <2> SUFFICES ASSUME NEW q \in Requests, request'[q] # NoRequest,
                        request'[q].op = "create_invitation"
                 PROVE  /\ rows[request'[q].about] = Unborn
                        /\ \A s \in Requests \ {q} :
                              request'[s] # NoRequest => request'[s].about # request'[q].about
      BY <1>1 DEF Sending
    <2>1. CASE q = p
      BY <1>1, <1>3, <2>1
    <2>2. CASE q # p
      <3>1. /\ rows[request[q].about] = Unborn
            /\ \A s \in Requests \ {q} :
                  request[s] # NoRequest => request[s].about # request[q].about
            /\ request[q].about \in Invitations
        <4>1. DirectoryRequest(request[q]) BY <1>1, <2>2, DirectoryFacts
        <4> QED BY <1>1, <2>2, <4>1 DEF DirectoryInv, Sending, DirectoryRequest, InvitationOps
      <3>2. about # request[q].about
        <4>1. CASE op = "create_invitation"
          BY <1>1, <2>2, <4>1
        <4>2. CASE op \in InvitationOps \ {"create_invitation"}
          BY <3>1, <4>2 DEF D!Exists, InvitationOps
        <4>3. CASE op \in UserOps \cup GroupOps
          BY <3>1, <4>3 DEF DirectoryGiven
        <4> QED BY <4>1, <4>2, <4>3
      <3> QED BY <1>1, <1>3, <2>2, <3>1, <3>2
    <2> QED BY <2>1, <2>2
  <1>11. \A k \in D!Keys, q \in Requests \ {p} : written[q][k] # Same => written'[p][k] = Same
    BY <1>1, <1>8
  <1> QED BY <1>1, <1>7, <1>9, <1>10, <1>11, DirectoryMoves

\* The elements of a finite set, in some order.
LEMMA Ordered ==
    ASSUME NEW S, IsFiniteSet(S), NEW order \in D!Orders(S)
    PROVE  /\ order \in Seq(S) /\ Len(order) \in Nat
           /\ DOMAIN order = 1 .. Len(order)
  <1>1. Cardinality(S) \in Nat BY FS_CardinalityType
  <1>2. D!Cardinality(S) = Cardinality(S) BY DEF D!Cardinality, Cardinality
  <1>3. order \in [1 .. D!Cardinality(S) -> S] BY DEF D!Orders, D!Bijection, D!Injection, D!IsInjective
  <1> QED BY <1>1, <1>2, <1>3

\* A request about a user, an invitation or a group arrives.
LEMMA DirectoryArrival ==
    ASSUME DirectoryGiven, DirectoryInv, NEW p \in Requests, D!Arrival(p)
    PROVE  DirectoryInv'
  <1>0. /\ started \in Nat
        /\ \A k \in D!Keys : D!Exists(rows[k]) => RowOf(k, rows[k])
        /\ Emails \cup Invitations \cup Groups \subseteq D!Keys
        /\ IsFiniteSet(Emails) /\ IsFiniteSet(Groups)
    BY DEF DirectoryInv, DirectoryTypes, DirectoryGiven, CellOf, D!Exists, D!Keys
  <1>a. /\ Emails \cap Invitations = {} /\ Emails \cap Groups = {} /\ Invitations \cap Groups = {}
        /\ D!Members \cap (Emails \cup Invitations \cup Groups) = {}
    BY DEF DirectoryGiven
  <1>1. ASSUME NEW i \in Invitations, D!create_invitation(p, i) PROVE DirectoryInv'
    <2> DEFINE row == [id |-> started + 1, accepted |-> FALSE]
               s == D!Insert(i, row)
               new == [op |-> "create_invitation", about |-> i, ask |-> <<>>, id |-> started + 1]
    <2>1. /\ rows[i] = Unborn /\ \A q \in Requests : request[q] # NoRequest => request[q].about # i
          /\ D!Begin(p, "create_invitation", i, <<>>, "writing", <<s>>)
      BY <1>1 DEF D!create_invitation
    <2>2. /\ row \in InvitationRows /\ ~row.accepted /\ row \in AnyRow
      BY <1>0 DEF InvitationRows, AnyRow
    <2>3. s.kind = "insert" /\ s.key = i /\ s.row = row BY DEF D!Insert
    <2>4. s \in Statements
      <3> HIDE DEF row
      <3> QED BY <1>0, <2>2 DEF D!Insert, Statements
    <2>5. new.op = "create_invitation" /\ new.about = i OBVIOUS
    <2>6. RowOf(i, row) BY <1>a, <2>2 DEF RowOf
    <2> HIDE DEF row, s, new
    <2>7. Planned(new, s) BY <1>a, <2>2, <2>3, <2>4, <2>5, <2>6 DEF Planned
    <2>8. <<s>> \in Seq(Statements) /\ \A n \in DOMAIN <<s>> : Planned(new, <<s>>[n])
      BY <2>4, <2>7
    <2> QED BY <2>1, <2>8, DirectoryBegin DEF new, InvitationOps, UserOps, GroupOps
  <1>2. ASSUME NEW i \in Invitations, D!revoke_invitation(p, i) PROVE DirectoryInv'
    <2> DEFINE row == [id |-> rows[i].id]
               s == D!Delete(i, rows[i].id)
               new == [op |-> "revoke_invitation", about |-> i, ask |-> <<>>, id |-> started + 1]
    <2>1. /\ D!Exists(rows[i]) /\ D!Begin(p, "revoke_invitation", i, <<>>, "writing", <<s>>)
      BY <1>2 DEF D!revoke_invitation
    <2>2. rows[i] \in InvitationRows BY <1>0, <2>1 DEF RowOf
    <2>3. s.kind = "delete" /\ s.key = i /\ s.row = row BY DEF D!Delete
    <2>4. s \in Statements
      <3>1. row \in AnyRow BY <2>2 DEF InvitationRows, AnyRow, MemberRows
      <3> HIDE DEF row
      <3> QED BY <1>0, <2>3, <3>1 DEF D!Delete, Statements, row
    <2>5. new.op = "revoke_invitation" /\ new.about = i OBVIOUS
    <2> HIDE DEF row, s, new
    <2>7. Planned(new, s) BY <1>a, <2>3, <2>4, <2>5 DEF Planned
    <2>8. <<s>> \in Seq(Statements) /\ \A n \in DOMAIN <<s>> : Planned(new, <<s>>[n])
      BY <2>4, <2>7
    <2> QED BY <2>1, <2>8, DirectoryBegin DEF new, InvitationOps, UserOps, GroupOps
  <1>3. ASSUME NEW i \in Invitations, D!accept_invitation(p, i) PROVE DirectoryInv'
    BY <1>3, DirectoryBegin
       DEF D!accept_invitation, D!find_invitation, InvitationOps, UserOps, GroupOps
  <1>4. ASSUME NEW e \in Emails, NEW asked \in SUBSET Groups, NEW groups \in D!Orders(asked),
               D!create_user(p, e, groups) \/ D!update_user(p, e, groups)
        PROVE  DirectoryInv'
    <2>1. groups \in Seq(Groups)
      <3>1. IsFiniteSet(asked) BY <1>0, FS_Subset
      <3>2. groups \in Seq(asked) BY <3>1, Ordered
      <3> QED BY <3>2
    <2>2. <<>> \in Seq(Statements) /\ \A n \in DOMAIN <<>> : FALSE OBVIOUS
    <2>3. CASE D!create_user(p, e, groups)
      <3>1. D!Begin(p, "create_user", e, groups, "groups", <<>>) BY <2>3 DEF D!create_user
      <3> QED BY <2>1, <2>2, <3>1, DirectoryBegin DEF InvitationOps, UserOps, GroupOps
    <2>4. CASE D!update_user(p, e, groups)
      <3>1. D!Begin(p, "update_user", e, groups, "groups", <<>>) BY <2>4 DEF D!update_user
      <3> QED BY <2>1, <2>2, <3>1, DirectoryBegin DEF InvitationOps, UserOps, GroupOps
    <2> QED BY <1>4, <2>3, <2>4
  <1>5. ASSUME NEW g \in Groups, NEW name \in GroupNames, D!create_group(p, g, name)
        PROVE  DirectoryInv'
    <2> DEFINE row == [id |-> started + 1, name |-> name]
               s == D!Insert(g, row)
               new == [op |-> "create_group", about |-> g, ask |-> <<>>, id |-> started + 1]
    <2>1. D!Begin(p, "create_group", g, <<>>, "writing", <<s>>)
      BY <1>5 DEF D!create_group
    <2>2. row \in GroupRows /\ row \in AnyRow BY <1>0 DEF GroupRows, AnyRow
    <2>3. s.kind = "insert" /\ s.key = g /\ s.row = row BY DEF D!Insert
    <2>4. s \in Statements
      <3> HIDE DEF row
      <3> QED BY <1>0, <2>2 DEF D!Insert, Statements
    <2>6. RowOf(g, row) BY <1>a, <2>2 DEF RowOf
    <2> HIDE DEF row, s, new
    <2>7. Planned(new, s) BY <1>a, <2>2, <2>3, <2>4, <2>6 DEF Planned
    <2>8. <<s>> \in Seq(Statements) /\ \A n \in DOMAIN <<s>> : Planned(new, <<s>>[n])
      BY <2>4, <2>7
    <2> QED BY <2>1, <2>8, DirectoryBegin DEF new, InvitationOps, UserOps, GroupOps
  <1>6. ASSUME NEW g \in Groups, NEW name \in GroupNames, D!update_group(p, g, name)
        PROVE  DirectoryInv'
    <2> DEFINE s == D!Update(g, [name |-> name])
               plan == IF name = rows[g].name THEN <<>> ELSE <<s>>
               new == [op |-> "update_group", about |-> g, ask |-> <<>>, id |-> started + 1]
    <2>1. D!Begin(p, "update_group", g, <<>>, "writing", plan)
      BY <1>6 DEF D!update_group
    <2>3. s.kind = "update" /\ s.key = g /\ s.row = [name |-> name] BY DEF D!Update
    <2>4. s \in Statements BY <1>0 DEF D!Update, Statements
    <2>5. s.row \in [name : GroupNames] BY <2>3
    <2> HIDE DEF s, new
    <2>7. Planned(new, s) BY <1>a, <2>3, <2>4, <2>5 DEF Planned
    <2>8. plan \in Seq(Statements) /\ \A n \in DOMAIN plan : Planned(new, plan[n])
      BY <2>4, <2>7
    <2> HIDE DEF plan
    <2> QED BY <2>1, <2>8, DirectoryBegin DEF new, InvitationOps, UserOps, GroupOps
  <1>7. ASSUME NEW g \in Groups, NEW name \in GroupNames, D!delete_group(p, g, name)
        PROVE  DirectoryInv'
    <2> DEFINE row == [id |-> rows[g].id]
               s == D!Delete(g, rows[g].id)
               c == D!Cascade(g)
               new == [op |-> "delete_group", about |-> g, ask |-> <<>>, id |-> started + 1]
    <2>1. D!Exists(rows[g]) /\ D!Begin(p, "delete_group", g, <<>>, "writing", <<s, c>>)
      BY <1>7 DEF D!delete_group
    <2>2. rows[g] \in GroupRows BY <1>0, <2>1 DEF RowOf
    <2>3. s.kind = "delete" /\ s.key = g /\ s.row = row BY DEF D!Delete
    <2>4. s \in Statements
      <3>1. row \in AnyRow BY <2>2 DEF GroupRows, AnyRow, MemberRows
      <3> HIDE DEF row
      <3> QED BY <1>0, <2>3, <3>1 DEF D!Delete, Statements, row
    <2>5. c \in Statements /\ c.kind = "cascade" /\ c.key = g BY <1>0 DEF D!Cascade, Statements
    <2> HIDE DEF row, s, c, new
    <2>7. Planned(new, s) /\ Planned(new, c) BY <1>a, <2>3, <2>4, <2>5 DEF Planned
    <2>8. <<s, c>> \in Seq(Statements) /\ \A n \in DOMAIN <<s, c>> : Planned(new, <<s, c>>[n])
      BY <2>4, <2>5, <2>7
    <2> QED BY <2>1, <2>8, DirectoryBegin DEF new, InvitationOps, UserOps, GroupOps
  <1> QED BY <1>1, <1>2, <1>3, <1>4, <1>5, <1>6, <1>7 DEF D!Arrival

-----------------------------------------------------------------------------
\* A step that reads: nothing has been written before it.
LEMMA DirectoryReads ==
    ASSUME DirectoryGiven, DirectoryInv, NEW p \in Requests, NEW next, NEW place,
           NEW statements, D!Reading(p, place, next, statements),
           place \in {"registered", "groups", "replacing"},
           \/ next = "refused"
           \/ next = "replacing" /\ request[p].op = "update_user"
           \/ /\ next = "writing"
              /\ IF request[p].op = "accept_invitation"
                 THEN statements = D!acceptance(request[p].about, request[p].id)
                 ELSE /\ statements \in Seq(Statements)
                      /\ \A n \in DOMAIN statements : Planned(request[p], statements[n])
    PROVE  DirectoryInv'
  <1>1. /\ \A q \in Requests \ {p} : /\ request'[q] = request[q] /\ pc'[q] = pc[q]
                                     /\ todo'[q] = todo[q] /\ written'[q] = written[q]
        /\ request' = request /\ pc'[p] = next /\ todo'[p] = statements
        /\ written' = written /\ pc[p] = place /\ UNCHANGED <<rows, contested, started>>
    BY DEF DirectoryInv, DirectoryTypes, D!Reading, D!Go
  <1>2. DirectoryTypes'
    BY <1>1 DEF DirectoryInv, DirectoryTypes, D!Reading, D!Go, CellOf, RowOf
  <1>3. /\ PlaceOK(p) /\ request[p] # NoRequest
        /\ request[p].op = "accept_invitation" =>
              request[p].about \in D!Keys /\ EmailOf[request[p].about] \in D!Keys
    BY <1>1, DirectoryFacts
  <1>4. \A k \in D!Keys : written[p][k] = Same BY <1>1, <1>3 DEF PlaceOK
  <1>5. PlaceOK(p)'
    <2>1. next = "writing" /\ request[p].op = "accept_invitation" => Accepting(p)'
      BY <1>1, <1>3, <1>4 DEF Accepting
    <2> QED BY <1>1, <1>3, <1>4, <2>1 DEF PlaceOK, Places
  <1>6. ConflictOK(p)' BY <1>1 DEF ConflictOK
  <1>7. \A k \in D!Keys : WriteOK(p, k)' BY <1>1, <1>4 DEF WriteOK
  <1>8. Local(p)' BY <1>5, <1>6, <1>7 DEF Local
  <1>9. Sending' BY <1>1, SendingKept
  <1>10. \A k \in D!Keys, q \in Requests \ {p} : written[q][k] # Same => written'[p][k] = Same
    BY <1>1, <1>4
  <1> QED BY <1>1, <1>2, <1>8, <1>9, <1>10, DirectoryMoves

\* An acceptance looks for an account of its e-mail.
LEMMA CheckRegistered ==
    ASSUME DirectoryGiven, DirectoryInv, NEW p \in Requests, D!check_registered(p)
    PROVE  DirectoryInv'
  <1>1. PlaceOK(p) BY DirectoryFacts
  <1>2. pc[p] = "registered" /\ request[p].op = "accept_invitation"
    BY <1>1 DEF D!check_registered, PlaceOK
  <1> DEFINE plan == D!acceptance(request[p].about, request[p].id)
  <1>3. \/ D!Reading(p, "registered", "refused", <<>>)
        \/ D!Reading(p, "registered", "writing", plan)
    BY DEF D!check_registered
  <1> HIDE DEF plan
  <1>4. CASE D!Reading(p, "registered", "refused", <<>>) BY <1>4, DirectoryReads
  <1>5. CASE D!Reading(p, "registered", "writing", plan) BY <1>2, <1>5, DirectoryReads DEF plan
  <1> QED BY <1>3, <1>4, <1>5

\* What an account is associated to.
LEMMA AssociateIsPlanned ==
    ASSUME DirectoryGiven, NEW r, DirectoryRequest(r), r.op \in UserOps
    PROVE  LET inserts == D!Associate(r.about, r.ask, r.id)
           IN  /\ inserts \in Seq(Statements)
               /\ \A n \in DOMAIN inserts : Planned(r, inserts[n])
  <1> DEFINE s(n) == D!Insert(<<r.about, r.ask[n]>>, [id |-> r.id])
             row == [id |-> r.id]
  <1>1. /\ r.ask \in Seq(Groups) /\ Len(r.ask) \in Nat /\ DOMAIN r.ask = 1 .. Len(r.ask)
        /\ \A n \in 1 .. Len(r.ask) : r.ask[n] \in Groups
        /\ r.about \in Emails
    BY DEF DirectoryRequest
  <1>2. row \in MemberRows /\ row \in AnyRow BY DEF DirectoryRequest, MemberRows, AnyRow
  <1>3. D!Members \cap (Emails \cup Invitations \cup Groups) = {} BY DEF DirectoryGiven
  <1>4. ASSUME NEW n \in 1 .. Len(r.ask) PROVE s(n) \in Statements /\ Planned(r, s(n))
    <2> DEFINE k == <<r.about, r.ask[n]>>
    <2>1. k \in D!Members /\ k \in D!Keys BY <1>1 DEF D!Members, D!Keys
    <2>2. s(n).kind = "insert" /\ s(n).key = k /\ s(n).row = row BY DEF D!Insert
    <2> HIDE DEF k, row
    <2>3. s(n) \in Statements BY <1>2, <2>1 DEF D!Insert, Statements, row, k
    <2>4. RowOf(k, row) BY <1>2, <1>3, <2>1 DEF RowOf
    <2> HIDE DEF s
    <2> QED BY <1>3, <2>1, <2>2, <2>3, <2>4 DEF Planned
  <1>5. D!Associate(r.about, r.ask, r.id) = [n \in 1 .. Len(r.ask) |-> s(n)]
    BY <1>1 DEF D!Associate
  <1> HIDE DEF s
  <1> QED BY <1>1, <1>4, <1>5

\* One plan after another.
LEMMA PlannedConcat ==
    ASSUME NEW r, NEW a \in Seq(Statements), NEW b \in Seq(Statements),
           \A n \in DOMAIN a : Planned(r, a[n]), \A n \in DOMAIN b : Planned(r, b[n])
    PROVE  a \o b \in Seq(Statements) /\ \A n \in DOMAIN (a \o b) : Planned(r, (a \o b)[n])
  <1>1. /\ a \o b \in Seq(Statements) /\ Len(a \o b) = Len(a) + Len(b)
        /\ \A i \in 1 .. Len(a) + Len(b) : (a \o b)[i] =
                     IF i <= Len(a) THEN a[i] ELSE b[i - Len(a)]
    BY ConcatProperties
  <1>2. /\ Len(a) \in Nat /\ Len(b) \in Nat /\ DOMAIN a = 1 .. Len(a) /\ DOMAIN b = 1 .. Len(b)
        /\ DOMAIN (a \o b) = 1 .. Len(a) + Len(b)
    BY <1>1
  <1>3. ASSUME NEW n \in 1 .. Len(a) + Len(b) PROVE Planned(r, (a \o b)[n])
    <2>1. CASE n <= Len(a)
      <3>1. n \in DOMAIN a /\ (a \o b)[n] = a[n] BY <1>1, <1>2, <2>1
      <3> QED BY <3>1
    <2>2. CASE ~ (n <= Len(a))
      <3>1. n - Len(a) \in DOMAIN b /\ (a \o b)[n] = b[n - Len(a)] BY <1>1, <1>2, <2>2
      <3> QED BY <3>1
    <2> QED BY <2>1, <2>2
  <1> QED BY <1>1, <1>2, <1>3

\* A request that gives groups to a user has found them, or is refused.
LEMMA AssertGroupsExist ==
    ASSUME DirectoryGiven, DirectoryInv, NEW p \in Requests, D!_assert_groups_exist(p)
    PROVE  DirectoryInv'
  <1> DEFINE r == request[p]
             row == [id |-> r.id, via |-> Null]
             s == D!Insert(r.about, row)
             plan == <<s>> \o D!Associate(r.about, r.ask, r.id)
  <1>1. PlaceOK(p) /\ DirectoryRequest(r) /\ pc[p] = "groups"
    BY DirectoryFacts DEF D!_assert_groups_exist
  <1>2. r.op \in UserOps BY <1>1 DEF PlaceOK
  <1>3. \/ D!Reading(p, "groups", "refused", <<>>)
        \/ r.op = "update_user" /\ D!Reading(p, "groups", "replacing", <<>>)
        \/ r.op = "create_user" /\ D!Reading(p, "groups", "writing", plan)
    BY DEF D!_assert_groups_exist
  <1>4. CASE D!Reading(p, "groups", "refused", <<>>) BY <1>4, DirectoryReads
  <1>5. CASE r.op = "update_user" /\ D!Reading(p, "groups", "replacing", <<>>)
    BY <1>5, DirectoryReads
  <1>6. CASE r.op = "create_user" /\ D!Reading(p, "groups", "writing", plan)
    <2>1. r.about \in Emails /\ r.id \in Nat BY <1>1, <1>2 DEF DirectoryRequest
    <2>2. row \in AccountRows /\ row \in AnyRow /\ row.via = Null
      BY <2>1 DEF AccountRows, AnyRow
    <2>3. /\ Emails \cap Invitations = {} /\ Emails \cap Groups = {}
          /\ D!Members \cap (Emails \cup Invitations \cup Groups) = {} /\ Emails \subseteq D!Keys
      BY DEF DirectoryGiven, D!Keys
    <2>4. s.kind = "insert" /\ s.key = r.about /\ s.row = row BY DEF D!Insert
    <2> HIDE DEF row
    <2>5. s \in Statements BY <2>1, <2>2, <2>3 DEF D!Insert, Statements
    <2>6. RowOf(r.about, row) BY <2>1, <2>2, <2>3 DEF RowOf
    <2> HIDE DEF s
    <2>7. Planned(r, s) BY <1>6, <2>1, <2>2, <2>3, <2>4, <2>5, <2>6 DEF Planned
    <2>8. <<s>> \in Seq(Statements) /\ \A n \in DOMAIN <<s>> : Planned(r, <<s>>[n])
      BY <2>5, <2>7
    <2>9. plan \in Seq(Statements) /\ \A n \in DOMAIN plan : Planned(r, plan[n])
      BY <1>1, <1>2, <2>8, AssociateIsPlanned, PlannedConcat
    <2> HIDE DEF plan
    <2> QED BY <1>6, <2>9, DirectoryReads
  <1> QED BY <1>3, <1>4, <1>5, <1>6

\* The deletion of associations.
LEMMA DeletionsArePlanned ==
    ASSUME DirectoryGiven, DirectoryInv, NEW r, NEW N \in Nat,
           NEW keys \in [1 .. N -> D!Members], \A n \in 1 .. N : rows[keys[n]] # NoRow
    PROVE  LET deletes == [n \in 1 .. N |-> D!Delete(keys[n], rows[keys[n]].id)]
           IN  /\ deletes \in Seq(Statements)
               /\ \A n \in DOMAIN deletes : Planned(r, deletes[n])
  <1> DEFINE s(n) == D!Delete(keys[n], rows[keys[n]].id)
  <1>1. D!Members \cap (Emails \cup Invitations \cup Groups) = {} /\ D!Members \subseteq D!Keys
    BY DEF DirectoryGiven, D!Keys
  <1>2. ASSUME NEW n \in 1 .. N PROVE s(n) \in Statements /\ Planned(r, s(n))
    <2> DEFINE k == keys[n]
               row == [id |-> rows[k].id]
    <2>1. k \in D!Members /\ rows[k] # NoRow BY <1>2
    <2> HIDE DEF k
    <2>2. rows[k] \in MemberRows
      BY <1>1, <2>1 DEF DirectoryInv, DirectoryTypes, CellOf, RowOf
    <2>3. row \in AnyRow BY <2>2 DEF MemberRows, AnyRow
    <2>4. s(n).kind = "delete" /\ s(n).key = k /\ s(n).row = row BY DEF D!Delete, k
    <2>5. s(n) \in Statements
      <3> HIDE DEF row
      <3> QED BY <1>1, <2>1, <2>3 DEF D!Delete, Statements, row, k
    <2> HIDE DEF s
    <2> QED BY <1>1, <2>1, <2>4, <2>5 DEF Planned
  <1> HIDE DEF s
  <1>3. [n \in 1 .. N |-> s(n)] \in Seq(Statements) BY <1>2
  <1> QED BY <1>2, <1>3 DEF s

\* The groups of a user are read, and those to delete and to insert planned.
LEMMA ReplaceUserGroups ==
    ASSUME DirectoryGiven, DirectoryInv, NEW p \in Requests, D!_replace_user_groups(p)
    PROVE  DirectoryInv'
  <1> DEFINE r == request[p]
             old == {g \in Groups : rows[<<r.about, g>>] # NoRow}
             inserts == D!Associate(r.about, r.ask, r.id)
  <1>1. PlaceOK(p) /\ DirectoryRequest(r) /\ pc[p] = "replacing"
    BY DirectoryFacts DEF D!_replace_user_groups
  <1>2. r.op = "update_user" /\ r.op \in UserOps /\ r.about \in Emails
    BY <1>1 DEF PlaceOK, UserOps, DirectoryRequest
  <1>3. PICK order \in D!Orders(old) :
            D!Reading(p, "replacing", "writing",
                    D!replacement([n \in DOMAIN order |->
                                    D!Delete(<<r.about, order[n]>>, rows[<<r.about, order[n]>>].id)],
                                inserts))
    BY DEF D!_replace_user_groups
  <1> DEFINE keys == [n \in 1 .. Len(order) |-> <<r.about, order[n]>>]
             deletes == [n \in 1 .. Len(order) |-> D!Delete(keys[n], rows[keys[n]].id)]
  <1>4. order \in Seq(old) /\ Len(order) \in Nat /\ DOMAIN order = 1 .. Len(order)
    <2>1. IsFiniteSet(old)
      <3>1. IsFiniteSet(Groups) /\ old \subseteq Groups BY DEF DirectoryGiven
      <3> HIDE DEF old
      <3> QED BY <3>1, FS_Subset
    <2> HIDE DEF old
    <2> QED BY <2>1, Ordered
  <1>5. /\ keys \in [1 .. Len(order) -> D!Members]
        /\ \A n \in 1 .. Len(order) : rows[keys[n]] # NoRow
        /\ \A n \in 1 .. Len(order) : keys[n] = <<r.about, order[n]>>
    <2>1. \A n \in 1 .. Len(order) : order[n] \in Groups /\ rows[<<r.about, order[n]>>] # NoRow
      <3>1. \A n \in 1 .. Len(order) : order[n] \in old BY <1>4
      <3> QED BY <3>1
    <2> QED BY <1>2, <2>1 DEF D!Members
  <1>6. [n \in DOMAIN order |->
            D!Delete(<<r.about, order[n]>>, rows[<<r.about, order[n]>>].id)] = deletes
    BY <1>4, <1>5
  <1> HIDE DEF keys, old
  <1>7. deletes \in Seq(Statements) /\ \A n \in DOMAIN deletes : Planned(r, deletes[n])
    BY <1>4, <1>5, DeletionsArePlanned
  <1>8. inserts \in Seq(Statements) /\ \A n \in DOMAIN inserts : Planned(r, inserts[n])
    BY <1>1, <1>2, AssociateIsPlanned
  <1> HIDE DEF deletes, inserts
  <1>9. /\ deletes \o inserts \in Seq(Statements)
        /\ \A n \in DOMAIN (deletes \o inserts) : Planned(r, (deletes \o inserts)[n])
    BY <1>7, <1>8, PlannedConcat
  <1>10. D!Reading(p, "replacing", "writing", deletes \o inserts)
    BY <1>3, <1>6 DEF D!replacement
  <1> QED BY <1>2, <1>9, <1>10, DirectoryReads

-----------------------------------------------------------------------------
\* A statement of one transaction, which writes one row at most, and one that nobody else
\* has written.
LEMMA DirectoryStatement ==
    ASSUME DirectoryGiven, DirectoryInv, NEW p \in Requests, pc[p] = "writing",
           NEW place \in {"writing", "refused", "conflict"}, NEW rest, D!Go(p, place, rest),
           UNCHANGED <<rows, request, contested, started>>, NEW k \in D!Keys, NEW w,
           \/ written' = written /\ w = written[p][k]
           \/ written' = [written EXCEPT ![p][k] = w] /\ w # Same /\ D!Others(p, k) = {},
           WriteOK(p, k)',
           place = "writing" =>
               IF request[p].op = "accept_invitation" THEN Accepting(p)'
               ELSE rest \in Seq(Statements) /\ \A n \in DOMAIN rest : Planned(request[p], rest[n]),
           ConflictOK(p)'
    PROVE  DirectoryInv'
  <1>1. /\ \A q \in Requests \ {p} : /\ request'[q] = request[q] /\ pc'[q] = pc[q]
                                     /\ todo'[q] = todo[q] /\ written'[q] = written[q]
        /\ request' = request /\ pc'[p] = place /\ todo'[p] = rest
        /\ \A j \in D!Keys \ {k} : written'[p][j] = written[p][j]
        /\ written'[p][k] = w
        /\ DOMAIN written' = Requests /\ \A q \in Requests : DOMAIN written'[q] = D!Keys
    BY DEF DirectoryInv, DirectoryTypes, D!Go
  <1>2. DirectoryTypes'
    BY <1>1 DEF DirectoryInv, DirectoryTypes, D!Go, CellOf, RowOf
  <1>3. PlaceOK(p) /\ (\A j \in D!Keys : WriteOK(p, j)) /\ request[p] # NoRequest
    BY DirectoryFacts
  <1>4. PlaceOK(p)' BY <1>1, <1>3 DEF PlaceOK, Places
  <1>5. w = Same => written[p][k] = Same OBVIOUS
  <1>6. \A j \in D!Keys : written[p][j] # Same => written'[p][j] # Same
    BY <1>1, <1>5
  <1>7. ASSUME NEW j \in D!Keys PROVE WriteOK(p, j)'
    <2>1. CASE j = k BY <2>1
    <2>2. CASE j # k
      <3>1. WriteOK(p, j) /\ written'[p][j] = written[p][j] BY <1>1, <1>3, <2>2
      <3>2. request[p].op = "accept_invitation" => request[p].about \in D!Keys
        BY <1>3, DirectoryFacts
      <3> QED BY <1>1, <1>6, <3>1, <3>2 DEF WriteOK
    <2> QED BY <2>1, <2>2
  <1>8. Local(p)' BY <1>4, <1>7 DEF Local
  <1>9. Sending' BY <1>1, SendingKept
  <1>10. \A j \in D!Keys, q \in Requests \ {p} : written[q][j] # Same => written'[p][j] = Same
    <2> TAKE j \in D!Keys, q \in Requests \ {p}
    <2>1. written[p][j] = Same \/ written[q][j] = Same BY DEF DirectoryInv, DirectoryOneWriter
    <2>2. CASE j # k BY <1>1, <2>1, <2>2
    <2>3. CASE j = k BY <1>1, <2>1, <2>3 DEF D!Others
    <2> QED BY <2>2, <2>3
  <1> QED BY <1>1, <1>2, <1>8, <1>9, <1>10, DirectoryMoves

\* The next statement of a request that accepts no invitation, and those after it.
LEMMA NextStatement ==
    ASSUME DirectoryGiven, DirectoryInv, NEW p \in Requests, pc[p] = "writing",
           request[p].op # "accept_invitation", todo[p] # <<>>
    PROVE  /\ Planned(request[p], Head(todo[p])) /\ Head(todo[p]).key \in D!Keys
           /\ Tail(todo[p]) \in Seq(Statements)
           /\ \A n \in DOMAIN Tail(todo[p]) : Planned(request[p], Tail(todo[p])[n])
  <1>1. PlaceOK(p) BY DirectoryFacts
  <1>2. /\ todo[p] \in Seq(Statements) /\ \A n \in DOMAIN todo[p] : Planned(request[p], todo[p][n])
    BY <1>1 DEF PlaceOK
  <1>3. /\ Tail(todo[p]) \in Seq(Statements) /\ Head(todo[p]) = todo[p][1]
        /\ 1 \in DOMAIN todo[p] /\ DOMAIN Tail(todo[p]) = 1 .. Len(todo[p]) - 1
        /\ \A n \in 1 .. Len(todo[p]) - 1 : Tail(todo[p])[n] = todo[p][n + 1]
        /\ DOMAIN todo[p] = 1 .. Len(todo[p]) /\ Len(todo[p]) \in Nat
    BY <1>2
  <1>4. Planned(request[p], Head(todo[p])) BY <1>2, <1>3
  <1>5. ASSUME NEW n \in DOMAIN Tail(todo[p]) PROVE Planned(request[p], Tail(todo[p])[n])
    <2>1. n + 1 \in DOMAIN todo[p] /\ Tail(todo[p])[n] = todo[p][n + 1] BY <1>3
    <2> QED BY <1>2, <2>1
  <1>6. Head(todo[p]).key \in D!Keys BY <1>4 DEF Planned, Statements
  <1> QED BY <1>3, <1>4, <1>5, <1>6

\* Where an acceptance stands, by its next statement.
LEMMA NextOfAcceptance ==
    ASSUME DirectoryGiven, DirectoryInv, NEW p \in Requests, pc[p] = "writing",
           request[p].op = "accept_invitation"
    PROVE  LET i == request[p].about
               e == EmailOf[i]
               account == [id |-> request[p].id, via |-> i]
           IN  /\ i \in Invitations /\ i \in D!Keys /\ e \in Emails /\ e \in D!Keys /\ i # e
               /\ account \in AccountRows
               /\ D!Statement(p, "lock") =>
                     /\ Head(todo[p]).key = i
                     /\ Tail(todo[p]) = <<D!Insert(e, account), D!Update(i, [accepted |-> TRUE])>>
                     /\ written[p][i] = Same /\ written[p][e] = Same
               /\ D!Statement(p, "insert") =>
                     /\ Head(todo[p]).key = e /\ Head(todo[p]).row = account
                     /\ Tail(todo[p]) = <<D!Update(i, [accepted |-> TRUE])>>
                     /\ written[p][i] = rows[i] /\ rows[i] # Same /\ written[p][e] = Same
               /\ D!Statement(p, "update") =>
                     /\ Head(todo[p]).key = i /\ Head(todo[p]).row = [accepted |-> TRUE]
                     /\ Tail(todo[p]) = <<>>
                     /\ written[p][i] = rows[i] /\ rows[i] # Same /\ written[p][e] = account
               /\ ~D!Statement(p, "delete") /\ ~D!Statement(p, "cascade")
               /\ written[p][i] = rows[i] /\ rows[i] # Same =>
                     D!Exists(rows[i]) /\ ~rows[i].accepted /\ rows[i] \in InvitationRows
  <1> DEFINE i == request[p].about
             e == EmailOf[i]
             account == [id |-> request[p].id, via |-> i]
             l == D!Lock(i)
             a == D!Insert(e, account)
             u == D!Update(i, [accepted |-> TRUE])
  <1>1. /\ PlaceOK(p) /\ request[p] # NoRequest /\ DirectoryRequest(request[p])
        /\ i \in Invitations /\ i \in D!Keys /\ e \in Emails /\ e \in D!Keys /\ e # i
        /\ \A k \in D!Keys : WriteOK(p, k)
    BY DirectoryFacts
  <1>2. Accepting(p) BY <1>1 DEF PlaceOK
  <1>3. account \in AccountRows BY <1>1 DEF AccountRows, DirectoryRequest
  <1>4. /\ l.kind = "lock" /\ l.key = i /\ a.kind = "insert" /\ a.key = e /\ a.row = account
        /\ u.kind = "update" /\ u.key = i /\ u.row = [accepted |-> TRUE]
    BY DEF D!Lock, D!Insert, D!Update
  <1>5. D!acceptance(i, request[p].id) = <<l, a, u>> BY DEF D!acceptance
  <1>6. written[p][i] = rows[i] /\ rows[i] # Same =>
            D!Exists(rows[i]) /\ ~rows[i].accepted /\ rows[i] \in InvitationRows
    <2>1. WriteOK(p, i) /\ CellOf(i, rows[i]) BY <1>1 DEF DirectoryInv, DirectoryTypes
    <2>2. request[p].op # "create_invitation" /\ request[p].op # "revoke_invitation" OBVIOUS
    <2> HIDE DEF i
    <2>3. i = request[p].about BY DEF i
    <2> QED BY <1>1, <2>1, <2>2, <2>3 DEF WriteOK, CellOf, RowOf, D!Exists
  <1>7. \/ todo[p] = <<l, a, u>> /\ written[p][i] = Same /\ written[p][e] = Same
        \/ /\ todo[p] = <<a, u>>
           /\ written[p][i] = rows[i] /\ rows[i] # Same /\ written[p][e] = Same
        \/ /\ todo[p] = <<u>>
           /\ written[p][i] = rows[i] /\ rows[i] # Same /\ written[p][e] = account
        \/ todo[p] = <<>>
    BY <1>2, <1>5 DEF Accepting
  <1> HIDE DEF l, a, u, account, e, i
  <1>8. /\ Head(<<l, a, u>>) = l /\ Tail(<<l, a, u>>) = <<a, u>>
        /\ Head(<<a, u>>) = a /\ Tail(<<a, u>>) = <<u>> /\ Head(<<u>>) = u /\ Tail(<<u>>) = <<>>
    OBVIOUS
  <1>9. /\ D!Statement(p, "lock") => todo[p] = <<l, a, u>>
        /\ D!Statement(p, "insert") => todo[p] = <<a, u>>
        /\ D!Statement(p, "update") => todo[p] = <<u>>
        /\ ~D!Statement(p, "delete") /\ ~D!Statement(p, "cascade")
    BY <1>4, <1>7, <1>8 DEF D!Statement
  <1>10. <<l, a, u>> # <<a, u>> /\ <<l, a, u>> # <<u>> /\ <<a, u>> # <<u>> /\ <<u>> # <<>>
         /\ <<a, u>> # <<>> /\ <<l, a, u>> # <<>>
    OBVIOUS
  <1>11. D!Statement(p, "lock") =>
             /\ Head(todo[p]).key = i /\ Tail(todo[p]) = <<a, u>>
             /\ written[p][i] = Same /\ written[p][e] = Same
    BY <1>4, <1>7, <1>8, <1>9, <1>10
  <1>12. D!Statement(p, "insert") =>
             /\ Head(todo[p]).key = e /\ Head(todo[p]).row = account /\ Tail(todo[p]) = <<u>>
             /\ written[p][i] = rows[i] /\ rows[i] # Same /\ written[p][e] = Same
    BY <1>4, <1>7, <1>8, <1>9, <1>10
  <1>13. D!Statement(p, "update") =>
             /\ Head(todo[p]).key = i /\ Head(todo[p]).row = [accepted |-> TRUE]
             /\ Tail(todo[p]) = <<>>
             /\ written[p][i] = rows[i] /\ rows[i] # Same /\ written[p][e] = account
    BY <1>4, <1>7, <1>8, <1>9, <1>10
  <1> QED BY <1>1, <1>3, <1>6, <1>9, <1>11, <1>12, <1>13 DEF l, a, u, account, e, i

\* A statement that writes nothing.
LEMMA NothingWritten ==
    ASSUME DirectoryGiven, DirectoryInv, NEW p \in Requests, pc[p] = "writing",
           NEW place \in {"writing", "refused"}, NEW rest, D!Go(p, place, rest),
           UNCHANGED <<rows, written, request, contested, started>>, NEW k \in D!Keys,
           place = "writing" =>
               /\ request[p].op # "accept_invitation" /\ rest \in Seq(Statements)
               /\ \A n \in DOMAIN rest : Planned(request[p], rest[n])
    PROVE  DirectoryInv'
  <1>1. WriteOK(p, k)'
    <2>1. WriteOK(p, k) BY DirectoryFacts
    <2> QED BY <2>1 DEF WriteOK, D!Exists
  <1>2. pc'[p] = place BY DEF D!Go, DirectoryInv, DirectoryTypes
  <1>3. ConflictOK(p)' BY <1>2 DEF ConflictOK
  <1> QED BY <1>1, <1>3, DirectoryStatement

\* An acceptance locks its invitation, unless it is accepted or gone.
LEMMA DirectoryLock ==
    ASSUME DirectoryGiven, DirectoryInv, NEW p \in Requests, D!lock(p)
    PROVE  DirectoryInv'
  <1>0. PICK s, rest : s = Head(todo[p]) /\ rest = Tail(todo[p]) OBVIOUS
  <1> DEFINE i == request[p].about
             e == EmailOf[i]
             k == s.key
             account == [id |-> request[p].id, via |-> i]
  <1>1. /\ D!Statement(p, "lock") /\ D!Others(p, k) = {} /\ pc[p] = "writing" /\ todo[p] # <<>>
        /\ IF D!Exists(rows[k]) /\ ~rows[k].accepted
           THEN written' = [written EXCEPT ![p][k] = rows[k]] /\ D!Go(p, "writing", rest)
           ELSE D!Go(p, "refused", <<>>) /\ UNCHANGED written
        /\ UNCHANGED <<rows, request, contested, started>>
    BY <1>0 DEF D!lock, D!Statement
  <1>2. request[p].op = "accept_invitation"
    <2>1. ASSUME request[p].op # "accept_invitation" PROVE FALSE
      <3>1. Planned(request[p], Head(todo[p])) BY <1>1, <2>1, NextStatement
      <3> QED BY <1>1, <3>1 DEF Planned, D!Statement
    <2> QED BY <2>1
  <1>3. /\ i \in Invitations /\ i \in D!Keys /\ e \in Emails /\ e \in D!Keys /\ i # e /\ k = i
        /\ rest = <<D!Insert(e, account), D!Update(i, [accepted |-> TRUE])>>
        /\ written[p][i] = Same /\ written[p][e] = Same
    BY <1>0, <1>1, <1>2, NextOfAcceptance
  <1> HIDE DEF k
  <1>4. CASE D!Exists(rows[k]) /\ ~rows[k].accepted
    <2>1. CellOf(i, rows[i]) BY <1>3 DEF DirectoryInv, DirectoryTypes
    <2>2. RowOf(i, rows[i]) /\ rows[i] \in AnyRow BY <1>3, <1>4, <2>1 DEF CellOf, RowOf, D!Exists
    <2>3. rows[i] # Same BY <2>2 DEF DirectoryGiven
    <2>4. /\ written'[p][i] = rows[i] /\ written'[p][e] = Same /\ todo'[p] = rest /\ pc'[p] = "writing"
      BY <1>1, <1>3, <1>4 DEF D!Go, DirectoryInv, DirectoryTypes
    <2>5. WriteOK(p, k)'
      <3>1. k \notin Emails BY <1>3 DEF DirectoryGiven
      <3>2. request[p] # NoRequest BY <1>1, DirectoryFacts
      <3> QED BY <1>1, <1>2, <1>3, <1>4, <2>2, <2>4, <3>1, <3>2 DEF WriteOK, D!Exists
    <2>6. Accepting(p)'
      <3>1. LET plan == D!acceptance(i, request[p].id) IN rest = <<plan[2], plan[3]>>
        BY <1>3 DEF D!acceptance
      <3>2. request' = request /\ rows' = rows BY <1>1
      <3> HIDE DEF i, e
      <3>3. i = request[p].about /\ e = EmailOf[i] BY DEF i, e
      <3> QED BY <2>3, <2>4, <3>1, <3>2, <3>3 DEF Accepting
    <2>7. ConflictOK(p)' BY <2>4 DEF ConflictOK
    <2>8. /\ D!Go(p, "writing", rest) /\ written' = [written EXCEPT ![p][k] = rows[k]]
          /\ rows[k] # Same /\ k \in D!Keys
      BY <1>1, <1>3, <1>4, <2>3
    <2>9. PICK w : w = rows[k] OBVIOUS
    <2> QED BY <1>1, <1>2, <2>5, <2>6, <2>7, <2>8, <2>9, DirectoryStatement
  <1>5. CASE ~(D!Exists(rows[k]) /\ ~rows[k].accepted)
    BY <1>1, <1>3, <1>5, NothingWritten
  <1> QED BY <1>4, <1>5

\* A row is inserted where none is, or the request is in conflict.
LEMMA DirectoryInsert ==
    ASSUME DirectoryGiven, DirectoryInv, NEW p \in Requests, D!insert(p)
    PROVE  DirectoryInv'
  <1>0. PICK s, rest : s = Head(todo[p]) /\ rest = Tail(todo[p]) OBVIOUS
  <1> DEFINE r == request[p]
             k == s.key
  <1>1. /\ D!Statement(p, "insert") /\ D!Others(p, k) = {} /\ pc[p] = "writing" /\ todo[p] # <<>>
        /\ D!Write(p, k, s.row) /\ s.kind = "insert"
        /\ UNCHANGED <<rows, request, contested, started>>
    BY <1>0 DEF D!insert, D!Statement, D!Awaited
  <1>2. /\ (\A j \in D!Keys : WriteOK(p, j)) /\ r # NoRequest
    BY <1>1, DirectoryFacts
  <1>3. CASE r.op # "accept_invitation"
    <2>1. /\ Planned(r, s) /\ k \in D!Keys /\ rest \in Seq(Statements)
          /\ \A n \in DOMAIN rest : Planned(r, rest[n])
      BY <1>0, <1>1, <1>3, NextStatement
    <2>2. RowOf(k, s.row) /\ s.row # NoRow /\ s.row # Same
      <3>1. RowOf(k, s.row) BY <1>1, <2>1 DEF Planned
      <3> QED BY <3>1 DEF RowOf, DirectoryGiven
    <2>3. CASE D!Violates(p, k, s.row)
      <3>1. D!Go(p, "conflict", <<>>) /\ UNCHANGED written
        BY <1>1, <2>2, <2>3 DEF D!Write
      <3>2. WriteOK(p, k)' BY <1>1, <1>2, <2>1, <3>1 DEF WriteOK, D!Exists
      <3>3. ConflictOK(p)' BY <1>1, <1>3 DEF ConflictOK
      <3> QED BY <1>1, <2>1, <3>1, <3>2, <3>3, DirectoryStatement
    <2>4. CASE ~D!Violates(p, k, s.row)
      <3>1. written' = [written EXCEPT ![p][k] = s.row] /\ D!Go(p, "writing", rest)
        BY <1>0, <1>1, <2>4 DEF D!Write
      <3>2. written'[p][k] = s.row BY <2>1, <3>1 DEF DirectoryInv, DirectoryTypes
      <3>3. k \in Emails => rows[k] = NoRow
        <4> SUFFICES ASSUME k \in Emails PROVE rows[k] = NoRow
          OBVIOUS
        <4>1. rows[k] = NoRow \/ written[p][k] = NoRow BY <2>4 DEF D!Violates
        <4>2. written[p][k] # NoRow BY <1>2, <2>1 DEF WriteOK, DirectoryGiven
        <4> QED BY <4>1, <4>2
      <3>4. WriteOK(p, k)'
        BY <1>1, <1>2, <2>1, <2>2, <3>2, <3>3 DEF WriteOK, Planned
      <3>5. ConflictOK(p)' BY <1>1, <1>3 DEF ConflictOK
      <3> QED BY <1>1, <1>3, <2>1, <2>2, <3>1, <3>4, <3>5, DirectoryStatement
    <2> QED BY <2>3, <2>4
  <1>4. CASE r.op = "accept_invitation"
    <2> DEFINE i == r.about
               e == EmailOf[i]
               account == [id |-> r.id, via |-> i]
    <2>1. /\ i \in Invitations /\ i \in D!Keys /\ e \in Emails /\ e \in D!Keys /\ i # e
          /\ k = e /\ s.row = account /\ account \in AccountRows
          /\ rest = <<D!Update(i, [accepted |-> TRUE])>>
          /\ written[p][i] = rows[i] /\ rows[i] # Same /\ written[p][e] = Same
          /\ D!Exists(rows[i]) /\ ~rows[i].accepted
      BY <1>0, <1>1, <1>4, NextOfAcceptance
    <2>2. account \in AnyRow /\ account # NoRow /\ account # Same
      BY <2>1 DEF AnyRow, DirectoryGiven
    <2>3. account.via = i OBVIOUS
    <2>4. /\ e \notin Invitations /\ e \notin Groups /\ e \notin D!Members
      BY <2>1 DEF DirectoryGiven
    <2>9. PICK w : w = account OBVIOUS
    <2> HIDE DEF account
    <2>5. CASE D!Violates(p, k, s.row)
      <3>1. D!Go(p, "conflict", <<>>) /\ UNCHANGED written
        BY <1>1, <2>1, <2>2, <2>5 DEF D!Write
      <3>2. WriteOK(p, k)' BY <1>1, <1>2, <2>1, <3>1 DEF WriteOK, D!Exists
      <3>3. rows[e] # NoRow BY <2>1, <2>4, <2>5 DEF D!Violates
      <3>4. rows[e].via # i BY <2>1, <3>3 DEF DirectoryInv, Linked
      <3>5. ConflictOK(p)' BY <1>1, <3>3, <3>4 DEF ConflictOK
      <3>6. k \in D!Keys BY <2>1
      <3> QED BY <1>1, <3>1, <3>2, <3>5, <3>6, DirectoryStatement
    <2>6. CASE ~D!Violates(p, k, s.row)
      <3>1. written' = [written EXCEPT ![p][k] = account] /\ D!Go(p, "writing", rest)
        BY <1>0, <1>1, <2>1, <2>6 DEF D!Write
      <3>2. written'[p][e] = account /\ written'[p][i] = rows[i] /\ todo'[p] = rest /\ pc'[p] = "writing"
        BY <2>1, <3>1 DEF D!Go, DirectoryInv, DirectoryTypes
      <3>3. rows[e] = NoRow
        <4>1. rows[e] = NoRow \/ written[p][e] = NoRow BY <2>1, <2>6 DEF D!Violates
        <4> QED BY <2>1, <4>1 DEF DirectoryGiven
      <3>4. WriteOK(p, k)'
        <4>1. RowOf(e, account) BY <2>1, <2>2, <2>4 DEF RowOf
        <4> QED BY <1>1, <1>2, <1>4, <2>1, <2>2, <2>3, <2>4, <3>2, <3>3, <4>1 DEF WriteOK
      <3>5. Accepting(p)'
        <4>1. LET plan == D!acceptance(i, r.id) IN rest = <<plan[3]>>
          BY <2>1 DEF D!acceptance
        <4>2. request' = request /\ rows' = rows BY <1>1
        <4> HIDE DEF i, e
        <4>3. i = request[p].about /\ e = EmailOf[i] /\ account = [id |-> request[p].id, via |-> i]
          BY DEF i, e, account
        <4> QED BY <2>1, <3>2, <4>1, <4>2, <4>3 DEF Accepting
      <3>6. ConflictOK(p)' BY <3>2 DEF ConflictOK
      <3>7. k \in D!Keys BY <2>1
      <3> QED BY <1>1, <1>4, <2>2, <2>9, <3>1, <3>4, <3>5, <3>6, <3>7, DirectoryStatement
    <2> QED BY <2>5, <2>6
  <1> QED BY <1>3, <1>4

\* A row is updated: the name of a group, an invitation that is accepted.
LEMMA DirectoryUpdate ==
    ASSUME DirectoryGiven, DirectoryInv, NEW p \in Requests, D!update(p)
    PROVE  DirectoryInv'
  <1>0. PICK s, rest : s = Head(todo[p]) /\ rest = Tail(todo[p]) OBVIOUS
  <1>w. PICK w : w = D!Updated(rows[s.key], s.row) OBVIOUS
  <1> DEFINE r == request[p]
             k == s.key
  <1>1. /\ D!Statement(p, "update") /\ pc[p] = "writing" /\ todo[p] # <<>> /\ s.kind = "update"
        /\ IF ~D!Exists(rows[k]) THEN D!Go(p, "refused", <<>>) /\ UNCHANGED written
           ELSE D!Others(p, k) = {} /\ D!Write(p, k, w)
        /\ UNCHANGED <<rows, request, contested, started>>
    BY <1>0, <1>w DEF D!update, D!Statement, D!Awaited
  <1>2. /\ (\A j \in D!Keys : WriteOK(p, j)) /\ r # NoRequest
    BY <1>1, DirectoryFacts
  <1>3. CASE r.op # "accept_invitation"
    <2>1. /\ Planned(r, s) /\ k \in D!Keys /\ rest \in Seq(Statements)
          /\ \A n \in DOMAIN rest : Planned(r, rest[n])
      BY <1>0, <1>1, <1>3, NextStatement
    <2>2. k \in Groups /\ s.row \in [name : GroupNames] BY <1>1, <2>1 DEF Planned
    <2>3. k \notin Emails /\ k \notin Invitations /\ k \notin D!Members
      BY <2>2 DEF DirectoryGiven
    <2>4. CASE ~D!Exists(rows[k])
      BY <1>1, <2>1, <2>4, NothingWritten
    <2>5. CASE D!Exists(rows[k]) /\ D!Violates(p, k, w)
      <3>1. rows[k] \in GroupRows
        BY <2>1, <2>2, <2>5 DEF DirectoryInv, DirectoryTypes, CellOf, RowOf, D!Exists
      <3>2. w \in GroupRows BY <1>w, <2>2, <3>1 DEF D!Updated, GroupRows
      <3>3. w # NoRow BY <3>2 DEF DirectoryGiven, AnyRow
      <3>4. D!Go(p, "conflict", <<>>) /\ UNCHANGED written
        BY <1>1, <2>5, <3>3 DEF D!Write
      <3>5. WriteOK(p, k)' BY <1>1, <1>2, <2>1, <3>4 DEF WriteOK, D!Exists
      <3>6. ConflictOK(p)' BY <1>1, <1>3 DEF ConflictOK
      <3> QED BY <1>1, <2>1, <3>4, <3>5, <3>6, DirectoryStatement
    <2>6. CASE D!Exists(rows[k]) /\ ~D!Violates(p, k, w)
      <3>1. rows[k] \in GroupRows
        BY <2>1, <2>2, <2>6 DEF DirectoryInv, DirectoryTypes, CellOf, RowOf, D!Exists
      <3>2. w \in GroupRows BY <1>w, <2>2, <3>1 DEF D!Updated, GroupRows
      <3>3. w # Same /\ RowOf(k, w)
        BY <2>3, <3>2 DEF DirectoryGiven, AnyRow, RowOf
      <3>4. written' = [written EXCEPT ![p][k] = w] /\ D!Go(p, "writing", rest)
        BY <1>0, <1>1, <2>6 DEF D!Write
      <3>5. written'[p][k] = w BY <2>1, <3>4 DEF DirectoryInv, DirectoryTypes
      <3>6. WriteOK(p, k)' BY <1>1, <1>2, <2>3, <3>3, <3>5 DEF WriteOK
      <3>7. ConflictOK(p)' BY <1>1, <1>3 DEF ConflictOK
      <3> QED BY <1>1, <1>3, <2>1, <2>6, <3>3, <3>4, <3>6, <3>7, DirectoryStatement
    <2> QED BY <2>4, <2>5, <2>6
  <1>4. CASE r.op = "accept_invitation"
    <2> DEFINE i == r.about
               e == EmailOf[i]
               account == [id |-> r.id, via |-> i]
    <2>1. /\ i \in Invitations /\ i \in D!Keys /\ e \in Emails /\ e \in D!Keys /\ i # e
          /\ k = i /\ s.row = [accepted |-> TRUE] /\ account \in AccountRows
          /\ rest = <<>>
          /\ written[p][i] = rows[i] /\ rows[i] # Same /\ written[p][e] = account
          /\ D!Exists(rows[i]) /\ ~rows[i].accepted /\ rows[i] \in InvitationRows
      BY <1>0, <1>1, <1>4, NextOfAcceptance
    <2>2. /\ k \notin Emails /\ k \notin Groups /\ k \notin D!Members
      BY <2>1 DEF DirectoryGiven
    <2>3. w \in InvitationRows /\ w.accepted
      <3>1. rows[i] \in InvitationRows /\ w = D!Updated(rows[i], [accepted |-> TRUE]) BY <1>w, <2>1
      <3> QED BY <3>1 DEF D!Updated, InvitationRows
    <2>4. w # Same /\ w # NoRow /\ RowOf(k, w)
      BY <2>2, <2>3 DEF DirectoryGiven, AnyRow, RowOf
    <2>5. ~D!Violates(p, k, w) BY <2>2 DEF D!Violates
    <2> HIDE DEF account
    <2>6. D!Others(p, k) = {} /\ written' = [written EXCEPT ![p][k] = w] /\ D!Go(p, "writing", rest)
      BY <1>0, <1>1, <2>1, <2>4, <2>5 DEF D!Write
    <2>7. written'[p][e] = account /\ written'[p][i] = w /\ todo'[p] = rest /\ pc'[p] = "writing"
      BY <2>1, <2>6 DEF D!Go, DirectoryInv, DirectoryTypes
    <2>8. WriteOK(p, k)'
      BY <1>1, <1>2, <1>4, <2>1, <2>2, <2>4, <2>7 DEF WriteOK, D!Exists
    <2>9. Accepting(p)'
      <3>1. request' = request /\ rows' = rows BY <1>1
      <3> HIDE DEF i, e
      <3>2. i = request[p].about /\ e = EmailOf[i] /\ account = [id |-> request[p].id, via |-> i]
        BY DEF i, e, account
      <3> QED BY <2>1, <2>3, <2>7, <3>1, <3>2 DEF Accepting
    <2>10. ConflictOK(p)' BY <2>7 DEF ConflictOK
    <2>11. k \in D!Keys BY <2>1
    <2> QED BY <1>1, <1>4, <2>4, <2>6, <2>8, <2>9, <2>10, <2>11, DirectoryStatement
  <1> QED BY <1>3, <1>4

\* A row is deleted, if it is still the one that was read.
LEMMA DirectoryDelete ==
    ASSUME DirectoryGiven, DirectoryInv, NEW p \in Requests, D!delete(p)
    PROVE  DirectoryInv'
  <1>0. PICK s, rest : s = Head(todo[p]) /\ rest = Tail(todo[p]) OBVIOUS
  <1> DEFINE r == request[p]
             k == s.key
             there == D!Exists(rows[k]) /\ rows[k].id = s.row.id
  <1>1. /\ D!Statement(p, "delete") /\ pc[p] = "writing" /\ todo[p] # <<>> /\ s.kind = "delete"
        /\ IF there THEN D!Others(p, k) = {} /\ D!Write(p, k, NoRow)
           ELSE D!Go(p, "writing", rest) /\ UNCHANGED written
        /\ UNCHANGED <<rows, request, contested, started>>
    BY <1>0 DEF D!delete, D!Statement
  <1>2. r.op # "accept_invitation" /\ r # NoRequest
    <2>1. r.op = "accept_invitation" => ~D!Statement(p, "delete") BY <1>1, NextOfAcceptance
    <2> QED BY <1>1, <2>1, DirectoryFacts
  <1>3. /\ Planned(r, s) /\ k \in D!Keys /\ rest \in Seq(Statements)
        /\ \A n \in DOMAIN rest : Planned(r, rest[n])
    BY <1>0, <1>1, <1>2, NextStatement
  <1>4. k \notin Emails /\ (k \in Invitations => r.op = "revoke_invitation" /\ k = r.about)
    BY <1>1, <1>3 DEF Planned
  <1> HIDE DEF there
  <1>5. CASE there
    <2>1. D!Others(p, k) = {} /\ written' = [written EXCEPT ![p][k] = NoRow] /\ D!Go(p, "writing", rest)
      BY <1>0, <1>1, <1>5 DEF D!Write
    <2>2. written'[p][k] = NoRow BY <1>3, <2>1 DEF DirectoryInv, DirectoryTypes
    <2>3. WriteOK(p, k)' BY <1>1, <1>2, <1>4, <2>2 DEF WriteOK
    <2>4. ConflictOK(p)' BY <1>1, <1>2 DEF ConflictOK
    <2>5. NoRow # Same BY DEF DirectoryGiven
    <2> QED BY <1>1, <1>2, <1>3, <2>1, <2>3, <2>4, <2>5, DirectoryStatement
  <1>6. CASE ~there
    BY <1>1, <1>2, <1>3, <1>6, NothingWritten
  <1> QED BY <1>5, <1>6

\* The associations to a group are deleted before it.
LEMMA DirectoryCascade ==
    ASSUME DirectoryGiven, DirectoryInv, NEW p \in Requests, D!cascade(p)
    PROVE  DirectoryInv'
  <1> DEFINE r == request[p]
             k == Head(todo[p]).key
             found == {j \in D!Members : j[2] = k /\ rows[j] # NoRow}
  <1>1. /\ D!Statement(p, "cascade") /\ pc[p] = "writing" /\ todo[p] # <<>>
        /\ UNCHANGED <<rows, written, request, contested, started>>
    BY DEF D!cascade, D!Statement
  <1>2. r.op # "accept_invitation"
    BY <1>1, NextOfAcceptance
  <1>3. k \in D!Keys BY <1>1, <1>2, NextStatement
  <1>4. PICK order \in D!Orders(found) :
            D!Go(p, "writing", [n \in DOMAIN order |-> D!Delete(order[n], rows[order[n]].id)])
    BY DEF D!cascade
  <1>5. IsFiniteSet(found)
    <2>1. IsFiniteSet(D!Members) BY FS_Product DEF DirectoryGiven, D!Members
    <2>2. found \subseteq D!Members OBVIOUS
    <2> HIDE DEF found
    <2> QED BY <2>1, <2>2, FS_Subset
  <1>6. order \in Seq(found) /\ Len(order) \in Nat /\ DOMAIN order = 1 .. Len(order)
    <2> HIDE DEF found
    <2> QED BY <1>5, Ordered
  <1>7. /\ order \in [1 .. Len(order) -> D!Members]
        /\ \A n \in 1 .. Len(order) : rows[order[n]] # NoRow
    <2>1. \A n \in 1 .. Len(order) : order[n] \in found BY <1>6
    <2> QED BY <1>6, <2>1
  <1> DEFINE deletes == [n \in 1 .. Len(order) |-> D!Delete(order[n], rows[order[n]].id)]
  <1> HIDE DEF found
  <1>8. deletes \in Seq(Statements) /\ \A n \in DOMAIN deletes : Planned(r, deletes[n])
    BY <1>6, <1>7, DeletionsArePlanned
  <1>9. D!Go(p, "writing", deletes) BY <1>4, <1>6
  <1> HIDE DEF deletes, k
  <1> QED BY <1>1, <1>2, <1>3, <1>8, <1>9, NothingWritten

-----------------------------------------------------------------------------
\* A commit puts its rows in place: of an acceptance, the account and the invitation.
LEMMA DirectoryCommit ==
    ASSUME DirectoryGiven, DirectoryInv, NEW p \in Requests, D!commit(p)
    PROVE  DirectoryInv'
  <1> DEFINE r == request[p]
  <1>1. /\ pc[p] = "writing" /\ todo[p] = <<>> /\ D!Finish(p) /\ started' = started
        /\ rows' = [k \in D!Keys |-> IF written[p][k] = Same THEN rows[k] ELSE written[p][k]]
        /\ DOMAIN contested' = Requests
    BY DEF D!commit
  <1>2. /\ PlaceOK(p) /\ (\A k \in D!Keys : WriteOK(p, k)) /\ r # NoRequest /\ DirectoryRequest(r)
    BY <1>1, DirectoryFacts
  <1>3. /\ \A k \in D!Keys : written[p][k] = Same => rows'[k] = rows[k]
        /\ \A k \in D!Keys : written[p][k] # Same => rows'[k] = written[p][k]
    BY <1>1
  <1>4. /\ \A q \in Requests \ {p} : /\ request'[q] = request[q] /\ pc'[q] = pc[q]
                                     /\ todo'[q] = todo[q] /\ written'[q] = written[q]
        /\ request'[p] = NoRequest /\ pc'[p] = "idle" /\ todo'[p] = <<>>
        /\ written'[p] = [k \in D!Keys |-> Same]
    BY <1>1 DEF DirectoryInv, DirectoryTypes, D!Finish, D!Go
  <1>5. /\ Emails \subseteq D!Keys /\ Invitations \subseteq D!Keys
        /\ Emails \cap Invitations = {} /\ Null \notin Invitations
        /\ \A i \in Invitations : EmailOf[i] \in Emails
        /\ NoRow # Unborn /\ \A k, row : RowOf(k, row) => row # Unborn /\ row # NoRow
    BY DEF DirectoryGiven, D!Keys, RowOf
  <1>6. \A k \in D!Keys : rows[k] # Unborn => rows'[k] # Unborn
    BY <1>2, <1>3, <1>5 DEF WriteOK
  <1>7. \A k \in D!Keys : CellOf(k, rows'[k])
    <2> TAKE k \in D!Keys
    <2>1. CellOf(k, rows[k]) /\ WriteOK(p, k) BY <1>2 DEF DirectoryInv, DirectoryTypes
    <2>2. written[p][k] # Same => CellOf(k, written[p][k]) BY <2>1 DEF WriteOK, CellOf
    <2> QED BY <1>3, <2>1, <2>2
  <1>8. DirectoryTypes'
    <2>1. DOMAIN rows' = D!Keys BY <1>1
    <2>2. \A k \in D!Keys : CellOf(k, rows[k])' BY <1>7 DEF CellOf, RowOf
    <2>3. /\ DOMAIN written' = Requests /\ \A q \in Requests : DOMAIN written'[q] = D!Keys
          /\ DOMAIN request' = Requests /\ DOMAIN pc' = Requests /\ DOMAIN todo' = Requests
          /\ started' \in 0 .. MaxRequests
      BY <1>1, <1>4 DEF DirectoryInv, DirectoryTypes, D!Finish, D!Go
    <2> QED BY <1>1, <2>1, <2>2, <2>3 DEF DirectoryTypes
  <1>9. \A e \in Emails : rows[e] # NoRow => rows'[e] = rows[e]
    BY <1>2, <1>3, <1>5 DEF WriteOK
  <1>10. \A q \in Requests : Local(q)'
    <2>1. Local(p)' BY <1>4 DEF Local, PlaceOK, ConflictOK, WriteOK, Places
    <2>2. ASSUME NEW q \in Requests \ {p} PROVE Local(q)'
      <3>1. \A k \in D!Keys : written[q][k] # Same => rows'[k] = rows[k]
        BY <1>3 DEF DirectoryInv, DirectoryOneWriter
      <3> QED BY <1>4, <1>9, <3>1, LocalKept
    <2> QED BY <2>1, <2>2
  <1>11. \A k \in Invitations : written[p][k] # Same => k = r.about
    BY <1>2, <1>5 DEF WriteOK
  <1>12. Sending'
    <2> SUFFICES ASSUME NEW q \in Requests, request'[q] # NoRequest,
                        request'[q].op = "create_invitation"
                 PROVE  /\ rows'[request'[q].about] = Unborn
                        /\ \A s \in Requests \ {q} :
                              request'[s] # NoRequest => request'[s].about # request'[q].about
      BY DEF Sending
    <2>1. q # p /\ request'[q] = request[q] BY <1>4
    <2>2. /\ rows[request[q].about] = Unborn
          /\ \A s \in Requests \ {q} :
                request[s] # NoRequest => request[s].about # request[q].about
          /\ request[q].about \in Invitations
      <3>1. DirectoryRequest(request[q]) BY <2>1, DirectoryFacts
      <3> QED BY <2>1, <3>1 DEF DirectoryInv, Sending, DirectoryRequest, InvitationOps
    <2>3. written[p][request[q].about] = Same
      BY <1>2, <1>11, <2>1, <2>2
    <2> QED BY <1>3, <1>4, <1>5, <2>1, <2>2, <2>3
  <1>13. DirectoryOneWriter' BY <1>4 DEF DirectoryInv, DirectoryOneWriter
  <1>14. r.op = "accept_invitation" =>
            /\ r.about \in Invitations
            /\ written[p][r.about] # Same /\ written[p][r.about] # NoRow
            /\ written[p][r.about].accepted
            /\ written[p][EmailOf[r.about]] # Same /\ written[p][EmailOf[r.about]] # NoRow
            /\ written[p][EmailOf[r.about]].via = r.about
    <2> SUFFICES ASSUME r.op = "accept_invitation"
                 PROVE  /\ r.about \in Invitations
                        /\ written[p][r.about] # Same /\ written[p][r.about] # NoRow
                        /\ written[p][r.about].accepted
                        /\ written[p][EmailOf[r.about]] # Same /\ written[p][EmailOf[r.about]] # NoRow
                        /\ written[p][EmailOf[r.about]].via = r.about
      OBVIOUS
    <2> DEFINE i == r.about
               account == [id |-> r.id, via |-> i]
    <2>1. r.about \in Invitations /\ r.id \in Nat
      BY <1>2 DEF DirectoryRequest, InvitationOps
    <2>2. Accepting(p) BY <1>1, <1>2 DEF PlaceOK
    <2>3. todo[p] # D!acceptance(i, r.id) /\ \A x, y : todo[p] # <<x, y>> /\ todo[p] # <<x>>
      <3>1. D!acceptance(i, r.id) # <<>> BY DEF D!acceptance
      <3> QED BY <1>1, <3>1
    <2>4. /\ written[p][EmailOf[i]] = account
          /\ written[p][i] \in InvitationRows /\ written[p][i].accepted
      BY <2>2, <2>3 DEF Accepting
    <2>5. account \in AccountRows /\ account.via = i BY <2>1 DEF AccountRows
    <2> QED BY <2>1, <2>4, <2>5 DEF DirectoryGiven, AnyRow
  <1>15. Linked(rows')
    <2>1. ASSUME NEW i \in Invitations, D!Exists(rows'[i])
          PROVE  rows'[i].accepted <=> rows'[EmailOf[i]] # NoRow /\ rows'[EmailOf[i]].via = i
      <3> DEFINE e == EmailOf[i]
      <3>0. i \in D!Keys /\ e \in D!Keys /\ e \in Emails /\ WriteOK(p, i) /\ WriteOK(p, e)
        BY <1>2, <1>5
      <3> HIDE DEF e
      <3>1. CASE written[p][i] = Same
        <4>1. rows'[i] = rows[i] BY <1>3, <3>0, <3>1
        <4>2. rows[i].accepted <=> rows[e] # NoRow /\ rows[e].via = i
          BY <2>1, <4>1 DEF DirectoryInv, Linked, e
        <4>3. CASE written[p][e] = Same BY <1>3, <3>0, <4>1, <4>2, <4>3 DEF e
        <4>4. CASE written[p][e] # Same
          <5>1. rows[e] = NoRow /\ rows'[e] = written[p][e] BY <1>3, <3>0, <4>4 DEF WriteOK
          <5>2. rows'[e].via # i
            BY <1>5, <1>14, <3>0, <3>1, <4>4, <5>1 DEF WriteOK
          <5> QED BY <4>1, <4>2, <5>1, <5>2 DEF e
        <4> QED BY <4>3, <4>4
      <3>2. CASE written[p][i] # Same
        <4>1. rows'[i] = written[p][i] /\ i = r.about /\ i \notin Emails
          BY <1>3, <1>5, <1>11, <3>0, <3>2
        <4>2. CASE r.op = "create_invitation"
          <5>1. ~rows'[i].accepted BY <3>0, <3>2, <4>1, <4>2 DEF WriteOK
          <5>2. rows[i] = Unborn BY <1>2, <4>1, <4>2 DEF DirectoryInv, Sending
          <5>3. written[p][e] = Same BY <3>0, <4>2 DEF WriteOK
          <5>4. rows'[e] = rows[e] BY <1>3, <3>0, <5>3
          <5>5. ~ (rows[e] # NoRow /\ rows[e].via = i)
            BY <3>0, <5>2 DEF DirectoryInv, Linked
          <5> QED BY <5>1, <5>4, <5>5 DEF e
        <4>3. CASE r.op = "revoke_invitation"
          <5>1. rows'[i] = NoRow BY <3>0, <3>2, <4>1, <4>3 DEF WriteOK
          <5> QED BY <2>1, <5>1 DEF D!Exists
        <4>4. CASE r.op = "accept_invitation"
          <5>1. rows'[e] = written[p][e] BY <1>3, <1>14, <3>0, <4>1, <4>4 DEF e
          <5> QED BY <1>14, <4>1, <4>4, <5>1 DEF e
        <4> QED BY <3>0, <3>2, <4>2, <4>3, <4>4 DEF WriteOK
      <3> QED BY <3>1, <3>2
    <2>2. ASSUME NEW e \in Emails, rows'[e] # NoRow, rows'[e].via \in Invitations
          PROVE  rows'[rows'[e].via] # Unborn
      <3>0. e \in D!Keys /\ WriteOK(p, e) BY <1>2, <1>5
      <3>1. CASE written[p][e] = Same
        <4>1. rows'[e] = rows[e] BY <1>3, <3>0, <3>1
        <4>2. rows[rows[e].via] # Unborn BY <2>2, <4>1 DEF DirectoryInv, Linked
        <4> QED BY <1>5, <1>6, <2>2, <4>1, <4>2
      <3>2. CASE written[p][e] # Same
        <4>1. rows'[e] = written[p][e] BY <1>3, <3>0, <3>2
        <4>2. r.op = "accept_invitation" /\ rows'[e].via = r.about
          BY <1>5, <2>2, <3>0, <3>2, <4>1 DEF WriteOK
        <4>3. rows'[r.about] = written[p][r.about] /\ WriteOK(p, r.about)
          BY <1>2, <1>3, <1>5, <1>14, <4>2
        <4>4. RowOf(r.about, written[p][r.about]) BY <1>14, <4>2, <4>3 DEF WriteOK
        <4> QED BY <1>5, <4>2, <4>3, <4>4
      <3> QED BY <3>1, <3>2
    <2> QED BY <2>1, <2>2 DEF Linked
  <1>16. Linked(rows)' BY <1>15 DEF Linked, D!Exists
  <1> QED BY <1>8, <1>10, <1>12, <1>13, <1>16 DEF DirectoryInv

-----------------------------------------------------------------------------
\* Whoever leaves the rows and the requests leaves all of it.
LEMMA DirectoryStill ==
    ASSUME DirectoryGiven, DirectoryInv, UNCHANGED <<rows, D!txVars, contested, started>>
    PROVE  DirectoryInv'
  <1>1. UNCHANGED <<rows, written, request, pc, todo, contested, started>> BY DEF D!txVars
  <1>2. \A q \in Requests : Local(q)' BY <1>1, LocalKept
  <1>3. DirectoryTypes' BY <1>1 DEF DirectoryInv, DirectoryTypes, CellOf, RowOf
  <1>4. Sending' /\ DirectoryOneWriter' /\ Linked(rows)'
    BY <1>1 DEF DirectoryInv, Sending, DirectoryOneWriter, Linked, D!Exists
  <1> QED BY <1>2, <1>3, <1>4 DEF DirectoryInv

\* The rows at the start are linked, and nobody is at work.
LEMMA DirectoryStart ==
    ASSUME DirectoryGiven, D!Init
    PROVE  DirectoryInv
  <1>1. DirectoryTypes BY DEF D!Init, DirectoryTypes, DirectoryGiven
  <1>2. \A p \in Requests : Local(p)
    BY DEF D!Init, Local, PlaceOK, ConflictOK, WriteOK, Places
  <1>3. Sending /\ DirectoryOneWriter BY DEF D!Init, Sending, DirectoryOneWriter
  <1>4. Linked(rows) BY DEF D!Init, DirectoryGiven
  <1> QED BY <1>1, <1>2, <1>3, <1>4 DEF DirectoryInv

\* One step of the directory, by its kind.
LEMMA DirectoryStay ==
    ASSUME DirectoryGiven, DirectoryInv, [D!Next]_D!vars
    PROVE  DirectoryInv'
  <1>1. CASE UNCHANGED D!vars BY <1>1, DirectoryStill DEF D!vars
  <1>2. ASSUME NEW p \in Requests, D!Arrival(p) PROVE DirectoryInv'
    BY <1>2, DirectoryArrival
  <1>3. ASSUME NEW p \in Requests, D!Step(p) PROVE DirectoryInv'
    <2>1. CASE D!check_registered(p) BY <2>1, CheckRegistered
    <2>2. CASE D!_assert_groups_exist(p) BY <2>2, AssertGroupsExist
    <2>3. CASE D!_replace_user_groups(p) BY <2>3, ReplaceUserGroups
    <2>4. CASE D!insert(p) BY <2>4, DirectoryInsert
    <2>5. CASE D!lock(p) BY <2>5, DirectoryLock
    <2>6. CASE D!update(p) BY <2>6, DirectoryUpdate
    <2>7. CASE D!delete(p) BY <2>7, DirectoryDelete
    <2>8. CASE D!cascade(p) BY <2>8, DirectoryCascade
    <2>9. CASE D!commit(p) BY <2>9, DirectoryCommit
    <2>10. CASE D!rollback(p) BY <2>10, DirectoryFinish DEF D!rollback
    <2> QED BY <1>3, <2>1, <2>2, <2>3, <2>4, <2>5, <2>6, <2>7, <2>8, <2>9, <2>10 DEF D!Step
  <1>4. ASSUME NEW i \in Invitations, D!expire(i) PROVE DirectoryInv'
    BY <1>4, DirectoryStill DEF D!expire
  <1>5. \/ \E p \in Requests : D!Arrival(p) \/ D!Step(p)
        \/ \E i \in Invitations : D!expire(i)
        \/ UNCHANGED D!vars
    BY DEF D!Next
  <1> QED BY <1>1, <1>2, <1>3, <1>4, <1>5

\* What the invariant says to whoever reads the invitations and the accounts.
LEMMA DirectoryMeans ==
    ASSUME DirectoryGiven, DirectoryInv
    PROVE  D!InvitationIsSpentOnce
  <1>1. \A p \in Requests : pc[p] = "conflict" /\ request[p].op = "accept_invitation" =>
          rows[EmailOf[request[p].about]].via # request[p].about
    <2>1. \A p \in Requests : ConflictOK(p) BY DirectoryFacts
    <2> QED BY <2>1 DEF ConflictOK
  <1> QED BY <1>1 DEF DirectoryInv, Linked, D!InvitationIsSpentOnce

\* A behaviour of the directory keeps all of it.
LEMMA DirectoryInvariant == ASSUME DirectoryGiven PROVE Spec => [](scope = "directory" => DirectoryInv)
  <1>0. DirectoryGiven OBVIOUS
  <1>1. ASSUME Init PROVE scope = "directory" => DirectoryInv
    BY <1>1, DirectoryStart DEF Init
  <1>2. ASSUME scope = "directory" => DirectoryInv, [Next]_vars PROVE (scope = "directory" => DirectoryInv)'
    <2>1. scope' = scope BY <1>2 DEF Next, vars
    <2>2. scope = "directory" => [D!Next]_D!vars
      BY <1>2 DEF Next, vars, ofDirectory, D!vars, D!txVars
    <2>3. ASSUME scope = "directory" PROVE DirectoryInv'
      <3>1. DirectoryInv /\ [D!Next]_D!vars BY <1>2, <2>2, <2>3
      <3> QED BY <1>0, <3>1, DirectoryStay
    <2> QED BY <2>1, <2>3
  <1> QED BY <1>1, <1>2, PTL DEF Spec

\* An invitation is accepted exactly when the account of its e-mail comes from it, whoever
\* else accepts it, revokes it or creates that user at the same time: an acceptance decides
\* under the lock of the invitation, and the account's e-mail is unique.
THEOREM SpentOnce == ASSUME DirectoryGiven PROVE Spec => []InvitationIsSpentOnce
  <1>1. (scope = "directory" => DirectoryInv) => InvitationIsSpentOnce
    BY DirectoryMeans DEF InvitationIsSpentOnce
  <1> QED BY <1>1, DirectoryInvariant, PTL

-----------------------------------------------------------------------------
(* Groups and whom they have. *)

\* A row that a transaction has put in place of another.
Put(w) == w \notin {NoRow, Same}

\* A group is the business of the requests about it; an association, of those about its user,
\* and of the deletion of its group.
MayTouch(r, k, gone) ==
    /\ k \in Groups => r.op \in GroupOps /\ r.about = k /\ (gone => r.op = "delete_group")
    /\ k \in D!Members =>
          \/ r.op \in UserOps /\ r.about = k[1]
          \/ r.op = "delete_group" /\ r.about = k[2] /\ gone

WritesMeant(p) ==
    \A k \in D!Keys :
        written[p][k] # Same => MayTouch(request[p], k, written[p][k] = NoRow)

StatementsMeant(p) ==
    pc[p] = "writing" =>
        \A n \in DOMAIN todo[p] :
            /\ MayTouch(request[p], todo[p][n].key, todo[p][n].kind = "delete")
            /\ todo[p][n].kind = "cascade" => request[p].op = "delete_group"

\* The name that a transaction gives to a group is no other's.
NamesFree(p) ==
    \A g, h \in Groups :
        g # h /\ Put(written[p][g]) /\ D!Exists(rows[h]) => rows[h].name # written[p][g].name

\* Who associates a user to a group has both.
RefersTo(p) ==
    \A e \in Emails, g \in Groups : Put(written[p][<<e, g>>]) =>
        D!Exists(rows[g]) /\ (rows[e] # NoRow \/ written[p][e] # Same)

Deletes(p, k, id) ==
    \E n \in DOMAIN todo[p] :
        todo[p][n].kind = "delete" /\ todo[p][n].key = k /\ todo[p][n].row.id = id

\* The committed row is gone, is deleted, or will be.
Leaves(p, k) == rows[k] = NoRow \/ written[p][k] = NoRow \/ Deletes(p, k, rows[k].id)

\* A deletion takes the associations of its group with it.
GroupGoes(p) ==
    LET g == request[p].about
        plan == todo[p]
    IN  pc[p] = "writing" /\ request[p].op = "delete_group" =>
          \/ Len(plan) = 2 /\ plan[1].kind = "delete" /\ plan[2].kind = "cascade"
          \/ Len(plan) = 1 /\ plan[1].kind = "cascade"
          \/ /\ \A n \in DOMAIN plan : plan[n].kind = "delete" /\ plan[n].key \in D!Members
             /\ written[p][g] = NoRow => \A e \in Emails : Leaves(p, <<e, g>>)

\* The account of a request about a user is there, or is the first that it inserts; and a group
\* is asked for once.
UserThere(p) ==
    LET r == request[p]
    IN  r # NoRequest =>
          /\ r.op \in UserOps => \A m, n \in DOMAIN r.ask : r.ask[m] = r.ask[n] => m = n
          /\ r.op = "update_user" => rows[r.about] # NoRow
          /\ r.op = "create_user" /\ pc[p] = "writing" =>
                written[p][r.about] # Same \/ (todo[p] # <<>> /\ todo[p][1].key = r.about)

\* A replacement deletes rows of the user, and then inserts rows for groups asked for, each once.
ReplacementPlan(plan, e, asked) ==
    LET old(n) == plan[n].kind = "delete"
        new(n) == plan[n].kind = "insert"
    IN  /\ \A n \in DOMAIN plan :
              (old(n) \/ new(n)) /\ \E g \in Groups : plan[n].key = <<e, g>> /\ (new(n) => g \in asked)
        /\ \A m, n \in DOMAIN plan : m < n /\ new(m) => new(n) /\ plan[n].key # plan[m].key

Inserts(plan, k) == \E n \in DOMAIN plan : plan[n].kind = "insert" /\ plan[n].key = k

\* All that is asked for has been put or will be, and all that the user had leaves before.
Replacing(p, e, asked) ==
    LET put(g) == Put(written[p][<<e, g>>])
    IN  /\ ReplacementPlan(todo[p], e, asked)
        /\ \A g \in asked : put(g) \/ Inserts(todo[p], <<e, g>>)
        /\ \A g \in Groups : put(g) => g \in asked /\ ~Inserts(todo[p], <<e, g>>)
        /\ (\E g \in Groups : put(g)) => \A n \in DOMAIN todo[p] : todo[p][n].kind = "insert"
        /\ \A g \in Groups : put(g) \/ Leaves(p, <<e, g>>)

\* The replacement that nobody contests finds the groups that it asks for, and goes on.
Replaces(p) ==
    LET r == request[p]
        asked == D!Range(r.ask)
    IN  r # NoRequest /\ r.op = "update_user" /\ ~contested[p] =>
          /\ pc[p] # "conflict"
          /\ pc[p] \in {"replacing", "writing"} => \A g \in asked : D!Exists(rows[g])
          /\ pc[p] = "writing" => Replacing(p, r.about, asked)

Associates(p) ==
    /\ WritesMeant(p) /\ StatementsMeant(p) /\ NamesFree(p) /\ RefersTo(p)
    /\ GroupGoes(p) /\ UserThere(p) /\ Replaces(p)

\* Two transactions do not give the same name, and neither changes a group that the other
\* associates a user to.
Apart(p, q) ==
    /\ \A g, h \in Groups : Put(written[p][g]) /\ Put(written[q][h]) =>
          written[p][g].name # written[q][h].name
    /\ \A e \in Emails, g \in Groups : Put(written[p][<<e, g>>]) => written[q][g] = Same

\* What a row depends on is there, and no other is changing it.
FreeToWrite(p, k, w) ==
    /\ k \in Groups /\ Put(w) =>
          /\ \A h \in Groups : h # k /\ D!Exists(rows[h]) => rows[h].name # w.name
          /\ \A q \in Requests \ {p}, h \in Groups :
                Put(written[q][h]) => written[q][h].name # w.name
    /\ k \in Groups => \A q \in Requests \ {p}, e \in Emails : ~Put(written[q][<<e, k>>])
    /\ k \in D!Members /\ Put(w) =>
          D!Exists(rows[k[2]]) /\ \A q \in Requests \ {p} : written[q][k[2]] = Same

\* The committed rows agree.
RowsAgree(cells) ==
    /\ \A g, h \in Groups : g # h /\ D!Exists(cells[g]) /\ D!Exists(cells[h]) =>
          cells[g].name # cells[h].name
    /\ \A e \in Emails, g \in Groups : cells[<<e, g>>] # NoRow =>
          cells[e] # NoRow /\ D!Exists(cells[g])

GroupsInv ==
    /\ \A p \in Requests : Associates(p)
    /\ \A p, q \in Requests : p # q => Apart(p, q)
    /\ RowsAgree(rows)

\* What the theorems assume besides: the rows at the start agree.
GroupsGiven == DirectoryGiven /\ RowsAgree(InitialDirectory)

-----------------------------------------------------------------------------
\* Keys of different kinds are different.
LEMMA KindsOfKeys ==
    ASSUME DirectoryGiven
    PROVE  /\ Emails \subseteq D!Keys /\ Groups \subseteq D!Keys /\ D!Members \subseteq D!Keys
           /\ Invitations \subseteq D!Keys
           /\ \A e \in Emails : e \notin Groups /\ e \notin Invitations /\ e \notin D!Members
           /\ \A g \in Groups : g \notin Emails /\ g \notin Invitations /\ g \notin D!Members
           /\ \A i \in Invitations : i \notin Emails /\ i \notin Groups /\ i \notin D!Members
           /\ \A e \in Emails, g \in Groups :
                 /\ <<e, g>> \in D!Members /\ <<e, g>> \in D!Keys /\ <<e, g>>[1] = e /\ <<e, g>>[2] = g
                 /\ <<e, g>> \notin Emails /\ <<e, g>> \notin Groups /\ <<e, g>> \notin Invitations
           /\ \A k \in D!Members : /\ k[1] \in Emails /\ k[2] \in Groups /\ k = <<k[1], k[2]>>
                                   /\ k \notin Emails /\ k \notin Groups /\ k \notin Invitations
           /\ NoRow # Same /\ NoRow # Unborn /\ Unborn # Same
  BY DEF DirectoryGiven, D!Keys, D!Members

\* What each transaction keeps, part by part.
LEMMA GroupsFacts ==
    ASSUME GroupsInv, NEW p \in Requests
    PROVE  /\ WritesMeant(p) /\ StatementsMeant(p) /\ NamesFree(p) /\ RefersTo(p)
           /\ GroupGoes(p) /\ UserThere(p) /\ Replaces(p)
  BY DEF GroupsInv, Associates

\* A transaction stays as it was while nothing of its own changes and the rows stay.
LEMMA AssociatesKept ==
    ASSUME NEW q \in Requests, Associates(q), UNCHANGED rows, request'[q] = request[q],
           pc'[q] = pc[q], todo'[q] = todo[q], written'[q] = written[q], contested'[q] = contested[q]
    PROVE  Associates(q)'
  <1>1. WritesMeant(q)' BY DEF Associates, WritesMeant
  <1>2. StatementsMeant(q)' BY DEF Associates, StatementsMeant
  <1>3. NamesFree(q)' BY DEF Associates, NamesFree, D!Exists
  <1>4. RefersTo(q)' BY DEF Associates, RefersTo, D!Exists
  <1>5. GroupGoes(q)' BY DEF Associates, GroupGoes, Leaves, Deletes
  <1>6. UserThere(q)' BY DEF Associates, UserThere
  <1>7. Replaces(q)' BY DEF Associates, Replaces, Replacing, Leaves, Deletes, D!Exists
  <1> QED BY <1>1, <1>2, <1>3, <1>4, <1>5, <1>6, <1>7 DEF Associates

\* A step of one transaction that leaves the rows.
LEMMA GroupsMove ==
    ASSUME GroupsInv, UNCHANGED rows, NEW p \in Requests,
           \A q \in Requests \ {p} : /\ request'[q] = request[q] /\ pc'[q] = pc[q]
                                     /\ todo'[q] = todo[q] /\ written'[q] = written[q]
                                     /\ contested'[q] = contested[q],
           Associates(p)', \A q \in Requests \ {p} : Apart(p, q)' /\ Apart(q, p)'
    PROVE  GroupsInv'
  <1>1. \A q \in Requests \ {p} : Associates(q)' BY AssociatesKept DEF GroupsInv
  <1>2. ASSUME NEW q \in Requests, NEW r \in Requests, q # r PROVE Apart(q, r)'
    <2>1. CASE q = p \/ r = p BY <1>2, <2>1
    <2>2. CASE q # p /\ r # p
      <3>1. Apart(q, r) BY <1>2 DEF GroupsInv
      <3> QED BY <1>2, <2>2, <3>1 DEF Apart
    <2> QED BY <2>1, <2>2
  <1>3. RowsAgree(rows)' BY DEF GroupsInv, RowsAgree, D!Exists
  <1> QED BY <1>1, <1>2, <1>3 DEF GroupsInv

\* One that writes nothing.
LEMMA GroupsQuiet ==
    ASSUME DirectoryGiven, GroupsInv, UNCHANGED rows, NEW p \in Requests,
           \A q \in Requests \ {p} : /\ request'[q] = request[q] /\ pc'[q] = pc[q]
                                     /\ todo'[q] = todo[q] /\ written'[q] = written[q]
                                     /\ contested'[q] = contested[q],
           Associates(p)', \A k \in D!Keys : written'[p][k] \in {written[p][k], Same}
    PROVE  GroupsInv'
  <1>1. ASSUME NEW q \in Requests \ {p} PROVE Apart(p, q)' /\ Apart(q, p)'
    <2>1. Apart(p, q) /\ Apart(q, p) BY DEF GroupsInv
    <2> QED BY <2>1, KindsOfKeys DEF Apart, Put
  <1> QED BY <1>1, GroupsMove

\* A request ends without a trace.
LEMMA GroupsFinish ==
    ASSUME DirectoryGiven, DirectoryInv, GroupsInv, NEW p \in Requests, D!Finish(p),
           UNCHANGED <<rows, contested, started>>
    PROVE  GroupsInv'
  <1>1. /\ \A q \in Requests \ {p} : /\ request'[q] = request[q] /\ pc'[q] = pc[q]
                                     /\ todo'[q] = todo[q] /\ written'[q] = written[q]
        /\ request'[p] = NoRequest /\ pc'[p] = "idle"
        /\ \A k \in D!Keys : written'[p][k] = Same
    BY DEF DirectoryInv, DirectoryTypes, D!Finish, D!Go
  <1>2. Associates(p)'
    BY <1>1, KindsOfKeys DEF Associates, WritesMeant, StatementsMeant, NamesFree, RefersTo, GroupGoes,
      UserThere, Replaces, Put
  <1> QED BY <1>1, <1>2, GroupsQuiet

\* A request begins.
LEMMA GroupsBegin ==
    ASSUME DirectoryGiven, DirectoryInv, GroupsInv, NEW p \in Requests, NEW op, NEW about, NEW ask,
           NEW place, NEW statements, D!Begin(p, op, about, ask, place, statements),
           DirectoryRequest([op |-> op, about |-> about, ask |-> ask, id |-> started + 1]),
           place \in {"registered", "groups", "writing"},
           place = "writing" =>
              /\ \A n \in DOMAIN statements :
                    /\ MayTouch([op |-> op, about |-> about, ask |-> ask, id |-> started + 1],
                                statements[n].key, statements[n].kind = "delete")
                    /\ statements[n].kind = "cascade" => op = "delete_group"
              /\ op = "delete_group" =>
                    /\ Len(statements) = 2
                    /\ statements[1].kind = "delete" /\ statements[2].kind = "cascade",
           op \in UserOps =>
              place = "groups" /\ \A m, n \in DOMAIN ask : ask[m] = ask[n] => m = n,
           op = "update_user" => rows[about] # NoRow
    PROVE  GroupsInv'
  <1>0. PICK new : new = [op |-> op, about |-> about, ask |-> ask, id |-> started + 1] OBVIOUS
  <1>1. /\ \A q \in Requests \ {p} : /\ request'[q] = request[q] /\ pc'[q] = pc[q]
                                     /\ todo'[q] = todo[q] /\ written'[q] = written[q]
                                     /\ contested'[q] = contested[q]
        /\ request'[p] = new /\ pc'[p] = place /\ todo'[p] = statements
        /\ written' = written /\ pc[p] = "idle" /\ UNCHANGED rows
    BY <1>0 DEF DirectoryInv, DirectoryTypes, D!Begin, D!Go
  <1>2. new.op = op /\ new.about = about /\ new.ask = ask /\ new # NoRequest
    BY <1>0 DEF DirectoryGiven
  <1>3. \A k \in D!Keys : written[p][k] = Same
    <2>1. PlaceOK(p) BY DirectoryFacts
    <2> QED BY <1>1, <2>1 DEF PlaceOK
  <1>4. WritesMeant(p)' /\ NamesFree(p)' /\ RefersTo(p)'
    BY <1>1, <1>3, KindsOfKeys DEF WritesMeant, NamesFree, RefersTo, Put
  <1>5. StatementsMeant(p)' BY <1>0, <1>1, <1>2 DEF StatementsMeant
  <1>6. GroupGoes(p)' BY <1>1, <1>2 DEF GroupGoes
  <1>7. UserThere(p)' BY <1>1, <1>2 DEF UserThere, UserOps
  <1>8. Replaces(p)' BY <1>1, <1>2 DEF Replaces, UserOps
  <1> QED BY <1>1, <1>3, <1>4, <1>5, <1>6, <1>7, <1>8, GroupsQuiet DEF Associates

\* A step that reads.
LEMMA GroupsRead ==
    ASSUME DirectoryGiven, DirectoryInv, GroupsInv, NEW p \in Requests, NEW next, NEW place,
           NEW statements, D!Reading(p, place, next, statements),
           place \in {"registered", "groups", "replacing"},
           next \in {"refused", "replacing", "writing"},
           StatementsMeant(p)', UserThere(p)', Replaces(p)'
    PROVE  GroupsInv'
  <1>1. /\ \A q \in Requests \ {p} : /\ request'[q] = request[q] /\ pc'[q] = pc[q]
                                     /\ todo'[q] = todo[q] /\ written'[q] = written[q]
                                     /\ contested'[q] = contested[q]
        /\ request' = request /\ pc'[p] = next /\ todo'[p] = statements
        /\ written' = written /\ pc[p] = place /\ UNCHANGED <<rows, contested, started>>
    BY DEF DirectoryInv, DirectoryTypes, D!Reading, D!Go
  <1>2. PlaceOK(p) BY DirectoryFacts
  <1>3. \A k \in D!Keys : written[p][k] = Same BY <1>1, <1>2 DEF PlaceOK
  <1>4. request[p].op # "delete_group" BY <1>1, <1>2 DEF PlaceOK, UserOps
  <1>5. WritesMeant(p)' /\ NamesFree(p)' /\ RefersTo(p)'
    BY <1>1, <1>3, KindsOfKeys DEF WritesMeant, NamesFree, RefersTo, Put
  <1>6. GroupGoes(p)' BY <1>1, <1>4 DEF GroupGoes
  <1> QED BY <1>1, <1>3, <1>5, <1>6, GroupsQuiet DEF Associates

\* A statement fails.
LEMMA GroupsFail ==
    ASSUME DirectoryGiven, DirectoryInv, GroupsInv, NEW p \in Requests,
           NEW place \in {"refused", "conflict"}, D!Go(p, place, <<>>),
           UNCHANGED <<rows, written, request, contested, started>>,
           place = "conflict" /\ request[p].op = "update_user" => contested[p]
    PROVE  GroupsInv'
  <1>1. /\ \A q \in Requests \ {p} : pc'[q] = pc[q] /\ todo'[q] = todo[q]
        /\ pc'[p] = place
    BY DEF DirectoryInv, DirectoryTypes, D!Go
  <1>2. /\ WritesMeant(p) /\ NamesFree(p) /\ RefersTo(p) /\ UserThere(p)
    BY GroupsFacts
  <1>3. Associates(p)'
    BY <1>1, <1>2 DEF Associates, WritesMeant, StatementsMeant, NamesFree, RefersTo, GroupGoes,
      UserThere, Replaces, D!Exists
  <1> QED BY <1>1, <1>3, GroupsQuiet

\* In an order of a set, each has its place.
LEMMA OrderedOnce ==
    ASSUME NEW S, IsFiniteSet(S), NEW order \in D!Orders(S)
    PROVE  /\ \A m, n \in DOMAIN order : order[m] = order[n] => m = n
           /\ \A x \in S : \E n \in DOMAIN order : order[n] = x
  <1>1. Cardinality(S) \in Nat BY FS_CardinalityType
  <1>2. D!Cardinality(S) = Cardinality(S) BY DEF D!Cardinality, Cardinality
  <1> DEFINE m == Cardinality(S)
  <1>3. /\ order \in [1 .. m -> S]
        /\ \A i, j \in 1 .. m : order[i] = order[j] => i = j
    BY <1>2 DEF D!Orders, D!Bijection, D!Injection, D!IsInjective
  <1>4. order \in Injection(1 .. m, S) BY <1>3 DEF Injection, IsInjective
  <1>5. IsFiniteSet(1 .. m) /\ Cardinality(1 .. m) = m
    <2>1. 1 \in Int /\ m \in Int BY <1>1
    <2>2. /\ IsFiniteSet(1 .. m) /\ Cardinality(1 .. m) = IF 1 > m THEN 0 ELSE m - 1 + 1
      BY <2>1, FS_Interval
    <2> QED BY <1>1, <2>2
  <1>6. order \in Surjection(1 .. m, S) BY <1>4, <1>5, FS_Injection
  <1> QED BY <1>3, <1>6 DEF Surjection

\* What another request may touch is none of an invitation's or an account's.
LEMMA FreeToTouch ==
    ASSUME DirectoryGiven, NEW r, NEW gone,
           NEW k \in Emails \cup Invitations
    PROVE  MayTouch(r, k, gone)
  BY KindsOfKeys DEF MayTouch

\* A request arrives.
LEMMA GroupsArrival ==
    ASSUME DirectoryGiven, DirectoryInv, GroupsInv, NEW p \in Requests, D!Arrival(p)
    PROVE  GroupsInv'
  <1>0. started + 1 \in Nat /\ <<>> \in Seq(Groups) BY DEF DirectoryInv, DirectoryTypes, DirectoryGiven
  <1>1. ASSUME NEW i \in Invitations, D!create_invitation(p, i) PROVE GroupsInv'
    <2> DEFINE s == D!Insert(i, [id |-> started + 1, accepted |-> FALSE])
               new == [op |-> "create_invitation", about |-> i, ask |-> <<>>, id |-> started + 1]
    <2>1. D!Begin(p, "create_invitation", i, <<>>, "writing", <<s>>)
      BY <1>1 DEF D!create_invitation
    <2>2. s.kind = "insert" /\ s.key = i BY DEF D!Insert
    <2>3. DirectoryRequest(new) BY <1>0 DEF DirectoryRequest, InvitationOps, UserOps, GroupOps
    <2> HIDE DEF s
    <2>4. \A n \in DOMAIN <<s>> : /\ MayTouch(new, <<s>>[n].key, <<s>>[n].kind = "delete")
                                  /\ <<s>>[n].kind # "cascade"
      BY <2>2, FreeToTouch
    <2> QED BY <2>1, <2>3, <2>4, GroupsBegin DEF UserOps
  <1>2. ASSUME NEW i \in Invitations, D!revoke_invitation(p, i) PROVE GroupsInv'
    <2> DEFINE s == D!Delete(i, rows[i].id)
               new == [op |-> "revoke_invitation", about |-> i, ask |-> <<>>, id |-> started + 1]
    <2>1. D!Begin(p, "revoke_invitation", i, <<>>, "writing", <<s>>)
      BY <1>2 DEF D!revoke_invitation
    <2>2. s.kind = "delete" /\ s.key = i BY DEF D!Delete
    <2>3. DirectoryRequest(new) BY <1>0 DEF DirectoryRequest, InvitationOps, UserOps, GroupOps
    <2> HIDE DEF s
    <2>4. \A n \in DOMAIN <<s>> : /\ MayTouch(new, <<s>>[n].key, <<s>>[n].kind = "delete")
                                  /\ <<s>>[n].kind # "cascade"
      BY <2>2, FreeToTouch
    <2> QED BY <2>1, <2>3, <2>4, GroupsBegin DEF UserOps
  <1>3. ASSUME NEW i \in Invitations, D!accept_invitation(p, i) PROVE GroupsInv'
    <2> DEFINE new == [op |-> "accept_invitation", about |-> i, ask |-> <<>>, id |-> started + 1]
    <2>1. DirectoryRequest(new) BY <1>0 DEF DirectoryRequest, InvitationOps, UserOps, GroupOps
    <2>2. D!Begin(p, "accept_invitation", i, <<>>, "registered", <<>>)
      BY <1>3 DEF D!accept_invitation
    <2> QED BY <2>1, <2>2, GroupsBegin DEF UserOps
  <1>4. ASSUME NEW e \in Emails, NEW asked \in SUBSET Groups, NEW groups \in D!Orders(asked),
               D!create_user(p, e, groups) \/ D!update_user(p, e, groups)
        PROVE  GroupsInv'
    <2>1. /\ groups \in Seq(Groups) /\ \A m, n \in DOMAIN groups : groups[m] = groups[n] => m = n
      <3>1. IsFiniteSet(asked) BY FS_Subset DEF DirectoryGiven
      <3>2. groups \in Seq(asked) BY <3>1, Ordered
      <3>3. \A m, n \in DOMAIN groups : groups[m] = groups[n] => m = n BY <3>1, OrderedOnce
      <3> QED BY <3>2, <3>3
    <2>2. CASE D!create_user(p, e, groups)
      <3> DEFINE new == [op |-> "create_user", about |-> e, ask |-> groups, id |-> started + 1]
      <3>1. D!Begin(p, "create_user", e, groups, "groups", <<>>) BY <2>2 DEF D!create_user
      <3>2. DirectoryRequest(new) BY <1>0, <2>1 DEF DirectoryRequest, InvitationOps, UserOps, GroupOps
      <3> QED BY <2>1, <3>1, <3>2, GroupsBegin
    <2>3. CASE D!update_user(p, e, groups)
      <3> DEFINE new == [op |-> "update_user", about |-> e, ask |-> groups, id |-> started + 1]
      <3>1. D!Begin(p, "update_user", e, groups, "groups", <<>>) BY <2>3 DEF D!update_user
      <3>2. DirectoryRequest(new) BY <1>0, <2>1 DEF DirectoryRequest, InvitationOps, UserOps, GroupOps
      <3>3. rows[e] # NoRow BY <2>3 DEF D!update_user, D!Exists
      <3> QED BY <2>1, <3>1, <3>2, <3>3, GroupsBegin
    <2> QED BY <1>4, <2>2, <2>3
  <1>5. ASSUME NEW g \in Groups, NEW name \in GroupNames, D!create_group(p, g, name)
        PROVE  GroupsInv'
    <2> DEFINE s == D!Insert(g, [id |-> started + 1, name |-> name])
               new == [op |-> "create_group", about |-> g, ask |-> <<>>, id |-> started + 1]
    <2>1. D!Begin(p, "create_group", g, <<>>, "writing", <<s>>) BY <1>5 DEF D!create_group
    <2>2. s.kind = "insert" /\ s.key = g BY DEF D!Insert
    <2>3. DirectoryRequest(new) BY <1>0 DEF DirectoryRequest, InvitationOps, UserOps, GroupOps
    <2>4. MayTouch(new, s.key, s.kind = "delete") BY <2>2, KindsOfKeys DEF MayTouch, GroupOps
    <2> HIDE DEF s
    <2>5. \A n \in DOMAIN <<s>> : /\ MayTouch(new, <<s>>[n].key, <<s>>[n].kind = "delete")
                                  /\ <<s>>[n].kind # "cascade"
      BY <2>2, <2>4
    <2> QED BY <2>1, <2>3, <2>5, GroupsBegin DEF UserOps
  <1>6. ASSUME NEW g \in Groups, NEW name \in GroupNames, D!update_group(p, g, name)
        PROVE  GroupsInv'
    <2> DEFINE s == D!Update(g, [name |-> name])
               plan == IF name = rows[g].name THEN <<>> ELSE <<s>>
               new == [op |-> "update_group", about |-> g, ask |-> <<>>, id |-> started + 1]
    <2>1. D!Begin(p, "update_group", g, <<>>, "writing", plan) BY <1>6 DEF D!update_group
    <2>2. s.kind = "update" /\ s.key = g BY DEF D!Update
    <2>3. DirectoryRequest(new) BY <1>0 DEF DirectoryRequest, InvitationOps, UserOps, GroupOps
    <2>4. MayTouch(new, s.key, s.kind = "delete") BY <2>2, KindsOfKeys DEF MayTouch, GroupOps
    <2> HIDE DEF s
    <2>5. \A n \in DOMAIN plan : /\ MayTouch(new, plan[n].key, plan[n].kind = "delete")
                                 /\ plan[n].kind # "cascade"
      BY <2>2, <2>4
    <2> HIDE DEF plan
    <2> QED BY <2>1, <2>3, <2>5, GroupsBegin DEF UserOps
  <1>7. ASSUME NEW g \in Groups, NEW name \in GroupNames, D!delete_group(p, g, name)
        PROVE  GroupsInv'
    <2> DEFINE s == D!Delete(g, rows[g].id)
               c == D!Cascade(g)
               new == [op |-> "delete_group", about |-> g, ask |-> <<>>, id |-> started + 1]
    <2>1. D!Begin(p, "delete_group", g, <<>>, "writing", <<s, c>>) BY <1>7 DEF D!delete_group
    <2>2. /\ s.kind = "delete" /\ s.key = g /\ c.kind = "cascade" /\ c.key = g
      BY DEF D!Delete, D!Cascade
    <2>3. DirectoryRequest(new) BY <1>0 DEF DirectoryRequest, InvitationOps, UserOps, GroupOps
    <2>4. \A gone \in BOOLEAN : MayTouch(new, g, gone) BY KindsOfKeys DEF MayTouch, GroupOps
    <2> HIDE DEF s, c
    <2>5. PICK plan : plan = <<s, c>> OBVIOUS
    <2>6. /\ Len(plan) = 2 /\ DOMAIN plan = {1, 2} /\ plan[1] = s /\ plan[2] = c BY <2>5
    <2>7. \A n \in DOMAIN plan : MayTouch(new, plan[n].key, plan[n].kind = "delete")
      BY <2>2, <2>4, <2>6
    <2> QED BY <2>1, <2>2, <2>3, <2>5, <2>6, <2>7, GroupsBegin DEF UserOps
  <1> QED BY <1>1, <1>2, <1>3, <1>4, <1>5, <1>6, <1>7 DEF D!Arrival

\* What is still to execute is a plan, whatever the request.
LEMMA PlanIsAPlan ==
    ASSUME DirectoryGiven, DirectoryInv, NEW p \in Requests, pc[p] = "writing"
    PROVE  todo[p] \in Seq(Statements)
  <1>1. PlaceOK(p) /\ DirectoryRequest(request[p]) /\ request[p] # NoRequest BY DirectoryFacts
  <1>2. CASE request[p].op # "accept_invitation" BY <1>1, <1>2 DEF PlaceOK
  <1>3. CASE request[p].op = "accept_invitation"
    <2> DEFINE i == request[p].about
               e == EmailOf[i]
               account == [id |-> request[p].id, via |-> i]
               a == D!Lock(i)
               b == D!Insert(e, account)
               c == D!Update(i, [accepted |-> TRUE])
    <2>1. /\ i \in Invitations /\ i \in D!Keys /\ e \in D!Keys /\ request[p].id \in Nat
      BY <1>1, <1>3, DirectoryFacts DEF DirectoryRequest
    <2>2. account \in AnyRow BY <2>1 DEF AnyRow, AccountRows
    <2>3. a \in Statements BY <2>1 DEF D!Lock, Statements
    <2>4. b \in Statements
      <3> HIDE DEF account
      <3> QED BY <2>1, <2>2 DEF D!Insert, Statements
    <2>5. c \in Statements BY <2>1 DEF D!Update, Statements
    <2>6. D!acceptance(i, request[p].id) = <<a, b, c>> BY DEF D!acceptance
    <2> HIDE DEF a, b, c
    <2>7. \/ todo[p] = <<a, b, c>> \/ todo[p] = <<b, c>> \/ todo[p] = <<c>> \/ todo[p] = <<>>
      <3>1. Accepting(p) BY <1>1, <1>3 DEF PlaceOK
      <3>2. PICK plan : plan = D!acceptance(i, request[p].id) OBVIOUS
      <3>3. plan = <<a, b, c>> /\ plan[2] = b /\ plan[3] = c BY <2>6, <3>2
      <3>4. \/ todo[p] = plan \/ todo[p] = <<plan[2], plan[3]>> \/ todo[p] = <<plan[3]>>
            \/ todo[p] = <<>>
        BY <3>1, <3>2 DEF Accepting
      <3> QED BY <3>3, <3>4
    <2>8. CASE todo[p] = <<a, b, c>> BY <2>3, <2>4, <2>5, <2>8
    <2>9. CASE todo[p] = <<b, c>> BY <2>4, <2>5, <2>9
    <2>10. CASE todo[p] = <<c>> BY <2>5, <2>10
    <2>11. CASE todo[p] = <<>> BY <2>11
    <2> QED BY <2>7, <2>8, <2>9, <2>10, <2>11
  <1> QED BY <1>2, <1>3

\* The next statement, and those after it.
LEMMA NextAndRest ==
    ASSUME NEW plan \in Seq(Statements), plan # <<>>
    PROVE  LET rest == Tail(plan)
           IN  /\ Head(plan) = plan[1] /\ 1 \in DOMAIN plan
               /\ rest \in Seq(Statements) /\ Len(rest) = Len(plan) - 1
               /\ \A n \in DOMAIN rest : n + 1 \in DOMAIN plan /\ rest[n] = plan[n + 1] /\ n \in Nat /\ n > 0
               /\ \A n \in DOMAIN plan :
                     n = 1 \/ (n - 1 \in DOMAIN rest /\ rest[n - 1] = plan[n] /\ n \in Nat /\ n > 1)
  <1>1. PICK m \in Nat : m = Len(plan) /\ m > 0 OBVIOUS
  <1>2. DOMAIN plan = 1 .. m /\ Tail(plan) \in Seq(Statements) /\ Len(Tail(plan)) = m - 1
    BY <1>1
  <1>3. DOMAIN Tail(plan) = 1 .. m - 1 /\ \A n \in 1 .. m - 1 : Tail(plan)[n] = plan[n + 1]
    BY <1>1, <1>2
  <1>4. \A n \in 2 .. m : n - 1 \in 1 .. m - 1 /\ (n - 1) + 1 = n BY <1>1
  <1>5. \A n \in 2 .. m : Tail(plan)[n - 1] = plan[n] BY <1>3, <1>4
  <1> QED BY <1>1, <1>2, <1>3, <1>4, <1>5

\* The account of an invitation: nothing of it is a group's.
LEMMA GroupsCheckRegistered ==
    ASSUME DirectoryGiven, DirectoryInv, GroupsInv, NEW p \in Requests, D!check_registered(p)
    PROVE  GroupsInv'
  <1>1. /\ PlaceOK(p) /\ pc[p] = "registered" /\ request[p] # NoRequest
    BY DirectoryFacts DEF D!check_registered
  <1>2. request[p].op = "accept_invitation" BY <1>1 DEF PlaceOK
  <1>3. DirectoryInv' BY CheckRegistered
  <1>4. PICK next, plan : /\ D!Reading(p, "registered", next, plan)
                          /\ next = "refused" \/ (next = "writing" /\ plan = D!acceptance(request[p].about, request[p].id))
    BY DEF D!check_registered
  <1>5. request' = request /\ pc'[p] = next /\ todo'[p] = plan /\ contested' = contested
    BY <1>4 DEF D!Reading, D!Go, DirectoryInv, DirectoryTypes
  <1>6. StatementsMeant(p)'
    <2> SUFFICES ASSUME next = "writing", NEW n \in DOMAIN plan
                 PROVE  /\ MayTouch(request[p], plan[n].key, plan[n].kind = "delete")
                        /\ plan[n].kind # "cascade"
      BY <1>5 DEF StatementsMeant
    <2>1. request[p].about \in Invitations /\ EmailOf[request[p].about] \in Emails
      BY <1>1, <1>2, DirectoryFacts
    <2>2. plan[n].key \in Emails \cup Invitations /\ plan[n].kind # "cascade"
      <3> DEFINE a == D!Lock(request[p].about)
                 b == D!Insert(EmailOf[request[p].about], [id |-> request[p].id, via |-> request[p].about])
                 c == D!Update(request[p].about, [accepted |-> TRUE])
      <3>1. plan = <<a, b, c>> BY <1>4 DEF D!acceptance
      <3>2. /\ a.key \in Invitations /\ a.kind = "lock" /\ b.key \in Emails /\ b.kind = "insert"
            /\ c.key \in Invitations /\ c.kind = "update"
        BY <2>1 DEF D!Lock, D!Insert, D!Update
      <3> HIDE DEF a, b, c
      <3> QED BY <3>1, <3>2
    <2> QED BY <2>2, FreeToTouch
  <1>7. UserThere(p)' /\ Replaces(p)' BY <1>2, <1>5 DEF UserThere, Replaces, UserOps
  <1> QED BY <1>4, <1>6, <1>7, GroupsRead

\* The associations that a request inserts are of its user, to the groups asked for, each once.
LEMMA AssociateMeant ==
    ASSUME DirectoryGiven, NEW r, DirectoryRequest(r), r.op \in UserOps
    PROVE  LET inserts == D!Associate(r.about, r.ask, r.id)
           IN  /\ DOMAIN inserts = DOMAIN r.ask
               /\ \A n \in DOMAIN inserts :
                     /\ inserts[n].kind = "insert" /\ inserts[n].key = <<r.about, r.ask[n]>>
                     /\ r.ask[n] \in Groups
                     /\ MayTouch(r, inserts[n].key, inserts[n].kind = "delete")
  <1> DEFINE inserts == D!Associate(r.about, r.ask, r.id)
  <1>1. r.ask \in Seq(Groups) /\ r.about \in Emails BY DEF DirectoryRequest
  <1>2. \A n \in DOMAIN r.ask : r.ask[n] \in Groups BY <1>1
  <1>3. DOMAIN inserts = DOMAIN r.ask BY DEF D!Associate
  <1>4. ASSUME NEW n \in DOMAIN r.ask
        PROVE  /\ inserts[n].kind = "insert" /\ inserts[n].key = <<r.about, r.ask[n]>>
               /\ MayTouch(r, inserts[n].key, inserts[n].kind = "delete")
    <2>1. inserts[n] = D!Insert(<<r.about, r.ask[n]>>, [id |-> r.id]) BY DEF D!Associate
    <2> HIDE DEF inserts
    <2>2. inserts[n].kind = "insert" /\ inserts[n].key = <<r.about, r.ask[n]>> BY <2>1 DEF D!Insert
    <2> QED BY <1>1, <1>2, <2>2, KindsOfKeys DEF MayTouch
  <1> QED BY <1>2, <1>3, <1>4

\* The groups of an account are looked for before it is inserted.
LEMMA GroupsAssertExist ==
    ASSUME DirectoryGiven, DirectoryInv, GroupsInv, NEW p \in Requests, D!_assert_groups_exist(p)
    PROVE  GroupsInv'
  <1>0. PICK r : r = request[p] OBVIOUS
  <1> DEFINE s == D!Insert(r.about, [id |-> r.id, via |-> Null])
             inserts == D!Associate(r.about, r.ask, r.id)
             plan == <<s>> \o inserts
  <1>1. PlaceOK(p) /\ DirectoryRequest(r) /\ pc[p] = "groups" /\ r # NoRequest
    BY <1>0, DirectoryFacts DEF D!_assert_groups_exist
  <1>2. r.op \in UserOps BY <1>0, <1>1 DEF PlaceOK
  <1>3. UserThere(p) BY GroupsFacts
  <1>4. ASSUME D!Reading(p, "groups", "refused", <<>>) PROVE GroupsInv'
    <2>1. request' = request /\ pc'[p] = "refused" /\ contested' = contested /\ rows' = rows
      BY <1>4 DEF D!Reading, D!Go, DirectoryInv, DirectoryTypes
    <2>2. StatementsMeant(p)' /\ UserThere(p)' /\ Replaces(p)'
      BY <1>0, <1>3, <2>1 DEF StatementsMeant, UserThere, Replaces
    <2> QED BY <1>4, <2>2, GroupsRead
  <1>5. ASSUME D!Reading(p, "groups", "replacing", <<>>), r.op = "update_user",
               ~ \E n \in DOMAIN r.ask : ~D!Exists(rows[r.ask[n]])
        PROVE  GroupsInv'
    <2>1. request' = request /\ pc'[p] = "replacing" /\ contested' = contested /\ rows' = rows
      BY <1>5 DEF D!Reading, D!Go, DirectoryInv, DirectoryTypes
    <2>2. \A g \in D!Range(r.ask) : D!Exists(rows[g]) BY <1>5 DEF D!Range
    <2>3. StatementsMeant(p)' /\ UserThere(p)' BY <1>0, <1>3, <2>1 DEF StatementsMeant, UserThere
    <2>4. Replaces(p)' BY <1>0, <2>1, <2>2 DEF Replaces, D!Exists
    <2> QED BY <1>5, <2>3, <2>4, GroupsRead
  <1>6. ASSUME D!Reading(p, "groups", "writing", plan), r.op = "create_user" PROVE GroupsInv'
    <2>0. PICK all : all = plan OBVIOUS
    <2>1. request' = request /\ pc'[p] = "writing" /\ contested' = contested /\ rows' = rows
          /\ todo'[p] = all /\ written' = written
      BY <1>6, <2>0 DEF D!Reading, D!Go, DirectoryInv, DirectoryTypes
    <2>2. r.about \in Emails BY <1>1, <1>2 DEF DirectoryRequest
    <2>3. s.kind = "insert" /\ s.key = r.about BY DEF D!Insert
    <2>4. MayTouch(r, s.key, s.kind = "delete") BY <2>2, <2>3, FreeToTouch
    <2>5. /\ inserts \in Seq(Statements)
          /\ \A n \in DOMAIN inserts :
                /\ MayTouch(r, inserts[n].key, inserts[n].kind = "delete") /\ inserts[n].kind = "insert"
      BY <1>1, <1>2, AssociateIsPlanned, AssociateMeant
    <2> HIDE DEF s, inserts
    <2>6. /\ all # <<>> /\ all[1] = s
          /\ \A n \in DOMAIN all : n = 1 \/ (n - 1 \in DOMAIN inserts /\ all[n] = inserts[n - 1])
      <3>1. PICK m \in Nat : m = Len(inserts) /\ DOMAIN inserts = 1 .. m BY <2>5
      <3>2. Len(<<s>>) = 1 /\ <<s>>[1] = s /\ <<s>> \in Seq({s}) OBVIOUS
      <3>3. all = <<s>> \o inserts BY <2>0
      <3>4. /\ DOMAIN all = 1 .. m + 1 /\ all[1] = s /\ Len(all) = m + 1
            /\ \A n \in 2 .. m + 1 : all[n] = inserts[n - 1]
        BY <2>5, <3>1, <3>2, <3>3
      <3>5. \A n \in 1 .. m + 1 : n = 1 \/ (n \in 2 .. m + 1 /\ n - 1 \in 1 .. m) BY <3>1
      <3>6. all # <<>> BY <3>1, <3>4
      <3> QED BY <3>1, <3>4, <3>5, <3>6
    <2> HIDE DEF plan
    <2>7. StatementsMeant(p)'
      <3> SUFFICES ASSUME NEW n \in DOMAIN all
                   PROVE  /\ MayTouch(r, all[n].key, all[n].kind = "delete")
                          /\ all[n].kind # "cascade"
        BY <1>0, <2>1 DEF StatementsMeant
      <3>1. CASE n = 1 BY <2>3, <2>4, <2>6, <3>1
      <3>2. CASE n # 1 BY <2>5, <2>6, <3>2
      <3> QED BY <3>1, <3>2
    <2>8. UserThere(p)' BY <1>0, <1>1, <1>3, <1>6, <2>1, <2>3, <2>6 DEF UserThere
    <2>9. Replaces(p)' BY <1>0, <1>6, <2>1 DEF Replaces
    <2> QED BY <1>6, <2>7, <2>8, <2>9, GroupsRead DEF plan
  <1> QED BY <1>0, <1>4, <1>5, <1>6 DEF D!_assert_groups_exist

\* The rows that a user had are deleted, and those asked for inserted: nothing is written yet.
LEMMA GroupsReplace ==
    ASSUME DirectoryGiven, DirectoryInv, GroupsInv, NEW p \in Requests, D!_replace_user_groups(p)
    PROVE  GroupsInv'
  <1>0. PICK r, e : r = request[p] /\ e = r.about OBVIOUS
  <1> DEFINE old == {g \in Groups : rows[<<e, g>>] # NoRow}
  <1>1. PlaceOK(p) /\ DirectoryRequest(r) /\ pc[p] = "replacing" /\ r # NoRequest
    BY <1>0, DirectoryFacts DEF D!_replace_user_groups
  <1>2. r.op = "update_user" /\ r.op \in UserOps /\ e \in Emails /\ r.ask \in Seq(Groups)
    BY <1>0, <1>1 DEF PlaceOK, UserOps, DirectoryRequest
  <1>3. UserThere(p) /\ Replaces(p) BY GroupsFacts
  <1>4. PICK order \in D!Orders(old) :
            D!Reading(p, "replacing", "writing",
                      D!replacement([n \in DOMAIN order |->
                                        D!Delete(<<e, order[n]>>, rows[<<e, order[n]>>].id)],
                                    D!Associate(e, r.ask, r.id)))
    BY <1>0 DEF D!_replace_user_groups
  <1>5. PICK deletes : deletes = [n \in DOMAIN order |->
                                     D!Delete(<<e, order[n]>>, rows[<<e, order[n]>>].id)]
    OBVIOUS
  <1>6. PICK inserts : inserts = D!Associate(e, r.ask, r.id) OBVIOUS
  <1>7. PICK all : all = deletes \o inserts OBVIOUS
  <1>8. D!Reading(p, "replacing", "writing", all) BY <1>4, <1>5, <1>6, <1>7 DEF D!replacement
  <1>9. /\ order \in Seq(old) /\ Len(order) \in Nat /\ DOMAIN order = 1 .. Len(order)
        /\ \A m, n \in DOMAIN order : order[m] = order[n] => m = n
        /\ \A g \in old : \E n \in DOMAIN order : order[n] = g
    <2>1. IsFiniteSet(old)
      <3>1. IsFiniteSet(Groups) /\ old \subseteq Groups BY DEF DirectoryGiven
      <3> HIDE DEF old
      <3> QED BY <3>1, FS_Subset
    <2> HIDE DEF old
    <2> QED BY <2>1, Ordered, OrderedOnce
  <1>10. PICK d \in Nat : d = Len(order) BY <1>9
  <1>11. /\ DOMAIN deletes = 1 .. d
         /\ \A n \in 1 .. d : /\ deletes[n].kind = "delete" /\ deletes[n].key = <<e, order[n]>>
                              /\ deletes[n].row.id = rows[<<e, order[n]>>].id
                              /\ order[n] \in Groups
    <2>1. \A n \in 1 .. d : order[n] \in Groups
      <3>1. \A n \in 1 .. d : order[n] \in old
        <4> HIDE DEF old
        <4> QED BY <1>9, <1>10
      <3> QED BY <3>1
    <2>2. \A n \in 1 .. d : deletes[n] = D!Delete(<<e, order[n]>>, rows[<<e, order[n]>>].id)
      BY <1>5, <1>9, <1>10
    <2> QED BY <1>5, <1>9, <1>10, <2>1, <2>2 DEF D!Delete
  <1>12. PICK m \in Nat : m = Len(r.ask) /\ DOMAIN r.ask = 1 .. m BY <1>2
  <1>13. /\ DOMAIN inserts = 1 .. m
         /\ \A n \in 1 .. m :
               /\ inserts[n].kind = "insert" /\ inserts[n].key = <<e, r.ask[n]>> /\ r.ask[n] \in Groups
               /\ MayTouch(r, inserts[n].key, inserts[n].kind = "delete")
    BY <1>0, <1>1, <1>2, <1>6, <1>12, AssociateMeant
  <1>14. inserts \in Seq(Statements) BY <1>0, <1>1, <1>2, <1>6, AssociateIsPlanned
  <1>15. deletes = [n \in 1 .. d |-> deletes[n]] BY <1>5, <1>9, <1>10
  <1>16. /\ DOMAIN all = 1 .. d + m
         /\ \A n \in 1 .. d : all[n] = deletes[n]
         /\ \A n \in d + 1 .. d + m : all[n] = inserts[n - d] /\ n - d \in 1 .. m
         /\ \A n \in 1 .. d + m : n \in 1 .. d \/ n \in d + 1 .. d + m
         /\ \A n \in 1 .. m : n + d \in d + 1 .. d + m /\ n + d \in 1 .. d + m /\ all[n + d] = inserts[n]
         /\ \A n \in 1 .. d : n \in 1 .. d + m
    <2>1. Len(deletes) = d /\ Len(inserts) = m BY <1>10, <1>11, <1>12, <1>13, <1>14, <1>15
    <2>2. /\ DOMAIN all = 1 .. d + m
          /\ \A n \in 1 .. d + m : all[n] = IF n <= d THEN deletes[n] ELSE inserts[n - d]
      BY <1>7, <2>1
    <2> QED BY <1>10, <1>12, <2>2
  <1>17. /\ request' = request /\ pc'[p] = "writing" /\ contested' = contested /\ rows' = rows
         /\ todo'[p] = all /\ written' = written
    BY <1>8 DEF D!Reading, D!Go, DirectoryInv, DirectoryTypes
  <1>18. StatementsMeant(p)'
    <2> SUFFICES ASSUME NEW n \in 1 .. d + m
                 PROVE  /\ MayTouch(r, all[n].key, all[n].kind = "delete")
                        /\ all[n].kind # "cascade"
      BY <1>0, <1>16, <1>17 DEF StatementsMeant
    <2>1. CASE n \in 1 .. d
      <3>1. all[n].kind = "delete" /\ all[n].key = <<e, order[n]>> /\ order[n] \in Groups
        BY <1>11, <1>16, <2>1
      <3> QED BY <1>0, <1>2, <3>1, KindsOfKeys DEF MayTouch
    <2>2. CASE n \in d + 1 .. d + m BY <1>13, <1>16, <2>2
    <2> QED BY <1>16, <2>1, <2>2
  <1>19. UserThere(p)' BY <1>0, <1>2, <1>3, <1>17 DEF UserThere
  <1>20. \A k \in D!Keys : written[p][k] = Same BY <1>1 DEF PlaceOK
  <1>a. PICK asked : asked = D!Range(r.ask) OBVIOUS
  <1>21. Replacing(p, e, asked)'
    <2>1. \A g \in Groups : ~Put(written[p][<<e, g>>])
      <3>1. \A g \in Groups : <<e, g>> \in D!Keys BY <1>2, KindsOfKeys
      <3> QED BY <1>20, <3>1 DEF Put
    <2>2. \A n \in 1 .. d : all[n].kind = "delete" /\ all[n].key = <<e, order[n]>> /\ order[n] \in Groups
      BY <1>11, <1>16
    <2>3. \A n \in d + 1 .. d + m : /\ all[n].kind = "insert" /\ all[n].key = <<e, r.ask[n - d]>>
                                    /\ r.ask[n - d] \in Groups /\ r.ask[n - d] \in asked
      BY <1>12, <1>13, <1>16, <1>a DEF D!Range
    <2>4. \A n \in 1 .. d + m :
              (all[n].kind = "delete" \/ all[n].kind = "insert") /\
              \E g \in Groups : all[n].key = <<e, g>> /\ (all[n].kind = "insert" => g \in asked)
      BY <1>16, <2>2, <2>3
    <2>5. ASSUME NEW i \in 1 .. d + m, NEW j \in 1 .. d + m, i < j, all[i].kind = "insert"
          PROVE  all[j].kind = "insert" /\ all[j].key # all[i].key
      <3>1. i \in d + 1 .. d + m BY <1>16, <2>2, <2>5
      <3>2. j \in d + 1 .. d + m BY <2>5, <3>1
      <3>3. i - d # j - d /\ i - d \in DOMAIN r.ask /\ j - d \in DOMAIN r.ask
        BY <1>12, <2>5, <3>1, <3>2
      <3>4. r.ask[i - d] # r.ask[j - d] BY <1>0, <1>1, <1>2, <1>3, <3>3 DEF UserThere
      <3> QED BY <2>3, <3>1, <3>2, <3>4
    <2>6. ASSUME NEW g \in asked
          PROVE  \E n \in 1 .. d + m : all[n].kind = "insert" /\ all[n].key = <<e, g>>
      <3>1. PICK n \in 1 .. m : r.ask[n] = g BY <1>12, <1>a DEF D!Range
      <3>2. n + d \in 1 .. d + m /\ all[n + d] = inserts[n] BY <1>16
      <3> QED BY <1>13, <3>1, <3>2
    <2>7. ASSUME NEW g \in Groups, rows[<<e, g>>] # NoRow
          PROVE  \E n \in 1 .. d + m : /\ all[n].kind = "delete" /\ all[n].key = <<e, g>>
                                       /\ all[n].row.id = rows[<<e, g>>].id
      <3>1. g \in old BY <2>7
      <3>2. PICK n \in 1 .. d : order[n] = g BY <1>9, <1>10, <3>1
      <3> QED BY <1>11, <1>16, <3>2
    <2>8. \A g \in Groups : Leaves(p, <<e, g>>)' BY <1>16, <1>17, <2>7 DEF Leaves, Deletes
    <2>9. \A g \in Groups : ~Put(written'[p][<<e, g>>]) BY <1>17, <2>1
    <2>10. ReplacementPlan(all, e, asked) BY <1>16, <2>4, <2>5 DEF ReplacementPlan
    <2>11. \A g \in asked : Inserts(all, <<e, g>>) BY <1>16, <2>6 DEF Inserts
    <2> QED BY <1>17, <2>8, <2>9, <2>10, <2>11 DEF Replacing
  <1>22. Replaces(p)' BY <1>0, <1>1, <1>2, <1>3, <1>17, <1>21, <1>a DEF Replaces, D!Exists
  <1> QED BY <1>8, <1>18, <1>19, <1>22, GroupsRead

\* A statement that writes a row: what it must wait for is done.
LEMMA GroupsWrite ==
    ASSUME DirectoryGiven, DirectoryInv, GroupsInv, NEW p \in Requests, pc[p] = "writing",
           todo[p] # <<>>, NEW s, s = Head(todo[p]), s.kind # "cascade",
           NEW w, w # Same, w = NoRow <=> s.kind = "delete",
           FreeToWrite(p, s.key, w),
           written' = [written EXCEPT ![p][s.key] = w], D!Go(p, "writing", Tail(todo[p])),
           UNCHANGED <<rows, request, contested, started>>, Replaces(p)'
    PROVE  GroupsInv'
  <1>0. PICK r, k, plan, rest : /\ r = request[p] /\ k = s.key
                                /\ plan = todo[p] /\ rest = Tail(plan)
    OBVIOUS
  <1>f. /\ k \in Groups /\ Put(w) =>
              /\ \A h \in Groups : h # k /\ D!Exists(rows[h]) => rows[h].name # w.name
              /\ \A q \in Requests \ {p}, h \in Groups :
                    Put(written[q][h]) => written[q][h].name # w.name
        /\ k \in Groups => \A q \in Requests \ {p}, e \in Emails : ~Put(written[q][<<e, k>>])
        /\ k \in D!Members /\ Put(w) =>
              D!Exists(rows[k[2]]) /\ \A q \in Requests \ {p} : written[q][k[2]] = Same
    BY <1>0 DEF FreeToWrite
  <1>1. /\ \A q \in Requests \ {p} : /\ request'[q] = request[q] /\ pc'[q] = pc[q]
                                     /\ todo'[q] = todo[q] /\ written'[q] = written[q]
                                     /\ contested'[q] = contested[q]
        /\ request' = request /\ pc'[p] = "writing" /\ todo'[p] = rest /\ rows' = rows
        /\ \A j \in D!Keys \ {k} : written'[p][j] = written[p][j]
        /\ k \in D!Keys => written'[p][k] = w
    BY <1>0 DEF DirectoryInv, DirectoryTypes, D!Go
  <1>2. /\ plan \in Seq(Statements) /\ s = plan[1] /\ 1 \in DOMAIN plan
        /\ rest \in Seq(Statements) /\ Len(rest) = Len(plan) - 1
        /\ \A n \in DOMAIN rest : n + 1 \in DOMAIN plan /\ rest[n] = plan[n + 1]
        /\ \A n \in DOMAIN plan : n = 1 \/ (n - 1 \in DOMAIN rest /\ rest[n - 1] = plan[n])
    <2>1. plan \in Seq(Statements) BY <1>0, PlanIsAPlan
    <2> QED BY <1>0, <2>1, NextAndRest
  <1>3. k \in D!Keys /\ written'[p][k] = w
    <2>1. s \in Statements BY <1>2
    <2> QED BY <1>0, <1>1, <2>1 DEF Statements
  <1>4. /\ WritesMeant(p) /\ StatementsMeant(p) /\ NamesFree(p) /\ RefersTo(p)
        /\ GroupGoes(p) /\ UserThere(p)
    BY GroupsFacts
  <1>5. MayTouch(r, k, s.kind = "delete") BY <1>0, <1>2, <1>4 DEF StatementsMeant
  <1>6. WritesMeant(p)'
    <2> SUFFICES ASSUME NEW j \in D!Keys, written'[p][j] # Same
                 PROVE  MayTouch(r, j, written'[p][j] = NoRow)
      BY <1>0, <1>1 DEF WritesMeant
    <2>1. CASE j = k BY <1>3, <1>5, <2>1 DEF MayTouch
    <2>2. CASE j # k BY <1>0, <1>1, <1>4, <2>2 DEF WritesMeant
    <2> QED BY <2>1, <2>2
  <1>7. StatementsMeant(p)' BY <1>0, <1>1, <1>2, <1>4 DEF StatementsMeant
  <1>8. NamesFree(p)'
    <2> SUFFICES ASSUME NEW g \in Groups, NEW h \in Groups, g # h, Put(written'[p][g]),
                        D!Exists(rows[h])
                 PROVE  rows[h].name # written'[p][g].name
      BY <1>1 DEF NamesFree, D!Exists
    <2>1. CASE g = k BY <1>f, <1>3, <2>1
    <2>2. CASE g # k BY <1>1, <1>4, <2>2, KindsOfKeys DEF NamesFree
    <2> QED BY <2>1, <2>2
  <1>9. RefersTo(p)'
    <2> SUFFICES ASSUME NEW e \in Emails, NEW g \in Groups, Put(written'[p][<<e, g>>])
                 PROVE  D!Exists(rows[g]) /\ (rows[e] # NoRow \/ written'[p][e] # Same)
      BY <1>1 DEF RefersTo, D!Exists
    <2>0. e \in D!Keys /\ <<e, g>> \in D!Keys /\ <<e, g>> # e BY KindsOfKeys
    <2>1. CASE <<e, g>> = k
      <3>1. D!Exists(rows[g]) BY <1>f, <1>3, <2>1, KindsOfKeys
      <3>2. s.kind # "delete" BY <1>3, <2>1 DEF Put
      <3>3. r.op \in UserOps /\ r.about = e BY <1>5, <2>1, <3>2, KindsOfKeys DEF MayTouch
      <3>4. written'[p][e] = written[p][e] /\ plan[1].key # e BY <1>0, <1>1, <1>2, <2>0, <2>1
      <3>5. r # NoRequest BY <1>0, DirectoryFacts
      <3> QED BY <1>0, <1>4, <3>1, <3>3, <3>4, <3>5 DEF UserThere, UserOps
    <2>2. CASE <<e, g>> # k
      <3>1. D!Exists(rows[g]) /\ (rows[e] # NoRow \/ written[p][e] # Same)
        BY <1>1, <1>4, <2>0, <2>2 DEF RefersTo
      <3> QED BY <1>1, <1>3, <2>0, <3>1
    <2> QED BY <2>1, <2>2
  <1>10. GroupGoes(p)'
    <2> SUFFICES ASSUME r.op = "delete_group"
                 PROVE  \/ Len(rest) = 1 /\ rest[1].kind = "cascade"
                        \/ /\ \A n \in DOMAIN rest : rest[n].kind = "delete" /\ rest[n].key \in D!Members
                           /\ written'[p][r.about] = NoRow => \A e \in Emails : Leaves(p, <<e, r.about>>)'
      BY <1>0, <1>1 DEF GroupGoes
    <2>1. CASE Len(plan) = 2 /\ plan[1].kind = "delete" /\ plan[2].kind = "cascade"
      <3>1. Len(rest) = 1 /\ 1 \in DOMAIN rest /\ 1 + 1 = 2 BY <1>2, <2>1
      <3> QED BY <1>2, <2>1, <3>1
    <2>2. ASSUME \A n \in DOMAIN plan : plan[n].kind = "delete" /\ plan[n].key \in D!Members,
                 written[p][r.about] = NoRow => \A e \in Emails : Leaves(p, <<e, r.about>>)
          PROVE  /\ \A n \in DOMAIN rest : rest[n].kind = "delete" /\ rest[n].key \in D!Members
                 /\ written'[p][r.about] = NoRow => \A e \in Emails : Leaves(p, <<e, r.about>>)'
      <3>1. s.kind = "delete" /\ k \in D!Members /\ w = NoRow BY <1>0, <1>2, <2>2
      <3>2. r.about \in Groups
        <4>1. DirectoryRequest(r) BY <1>0, DirectoryFacts
        <4> QED BY <4>1 DEF DirectoryRequest, GroupOps
      <3>3. written'[p][r.about] = written[p][r.about] BY <1>1, <3>1, <3>2, KindsOfKeys
      <3>4. ASSUME NEW e \in Emails, Leaves(p, <<e, r.about>>) PROVE Leaves(p, <<e, r.about>>)'
        <4> DEFINE j == <<e, r.about>>
        <4>0. j \in D!Keys BY <3>2, KindsOfKeys
        <4> HIDE DEF j
        <4>1. CASE j = k BY <1>3, <3>1, <4>1 DEF Leaves, j
        <4>2. CASE j # k
          <5>1. written'[p][j] = written[p][j] BY <1>1, <4>0, <4>2
          <5>2. ASSUME Deletes(p, j, rows[j].id) PROVE Deletes(p, j, rows[j].id)'
            <6>1. PICK n \in DOMAIN plan : /\ plan[n].kind = "delete" /\ plan[n].key = j
                                           /\ plan[n].row.id = rows[j].id
              BY <1>0, <5>2 DEF Deletes
            <6>2. n - 1 \in DOMAIN rest /\ rest[n - 1] = plan[n] BY <1>0, <1>2, <4>2, <6>1
            <6> QED BY <1>1, <6>1, <6>2 DEF Deletes
          <5> QED BY <1>1, <3>4, <5>1, <5>2 DEF Leaves, j
        <4> QED BY <4>1, <4>2
      <3> QED BY <1>2, <2>2, <3>3, <3>4
    <2>3. ~ (Len(plan) = 1 /\ plan[1].kind = "cascade") BY <1>2
    <2>4. /\ pc[p] = "writing" /\ request[p].op = "delete_group" BY <1>0
    <2>5. \/ Len(plan) = 2 /\ plan[1].kind = "delete" /\ plan[2].kind = "cascade"
          \/ /\ \A n \in DOMAIN plan : plan[n].kind = "delete" /\ plan[n].key \in D!Members
             /\ written[p][r.about] = NoRow => \A e \in Emails : Leaves(p, <<e, r.about>>)
      BY <1>0, <1>4, <2>3, <2>4 DEF GroupGoes
    <2> QED BY <2>1, <2>2, <2>5
  <1>11. UserThere(p)'
    <2> SUFFICES ASSUME r # NoRequest, r.op = "create_user" PROVE written'[p][r.about] # Same
      BY <1>0, <1>1, <1>4 DEF UserThere, UserOps
    <2>1. r.about \in D!Keys
      <3>1. DirectoryRequest(r) BY <1>0, DirectoryFacts
      <3> QED BY <3>1, KindsOfKeys DEF DirectoryRequest, UserOps
    <2>2. written[p][r.about] # Same \/ k = r.about BY <1>0, <1>2, <1>4 DEF UserThere
    <2> QED BY <1>1, <1>3, <2>1, <2>2
  <1>12. ASSUME NEW q \in Requests \ {p} PROVE Apart(p, q)' /\ Apart(q, p)'
    <2>1. Apart(p, q) /\ Apart(q, p) /\ written'[q] = written[q] BY <1>1 DEF GroupsInv
    <2>2. ASSUME NEW g \in Groups, NEW h \in Groups, Put(written'[p][g]), Put(written[q][h])
          PROVE  written'[p][g].name # written[q][h].name
      <3>1. CASE g = k BY <1>f, <1>3, <2>2, <3>1
      <3>2. CASE g # k BY <1>1, <2>1, <2>2, <3>2, KindsOfKeys DEF Apart
      <3> QED BY <3>1, <3>2
    <2>3. ASSUME NEW e \in Emails, NEW g \in Groups, Put(written'[p][<<e, g>>])
          PROVE  written[q][g] = Same
      <3>0. <<e, g>> \in D!Keys BY KindsOfKeys
      <3>1. CASE <<e, g>> = k BY <1>f, <1>3, <2>3, <3>1, KindsOfKeys
      <3>2. CASE <<e, g>> # k BY <1>1, <2>1, <2>3, <3>0, <3>2 DEF Apart
      <3> QED BY <3>1, <3>2
    <2>4. ASSUME NEW e \in Emails, NEW g \in Groups, Put(written[q][<<e, g>>])
          PROVE  written'[p][g] = Same
      <3>1. CASE g = k BY <1>f, <2>4, <3>1
      <3>2. CASE g # k BY <1>1, <2>1, <2>4, <3>2, KindsOfKeys DEF Apart
      <3> QED BY <3>1, <3>2
    <2> QED BY <2>1, <2>2, <2>3, <2>4 DEF Apart
  <1>13. Associates(p)' BY <1>6, <1>7, <1>8, <1>9, <1>10, <1>11 DEF Associates
  <1> QED BY <1>1, <1>12, <1>13, GroupsMove

\* A replacement that nobody contests deletes a row, or finds it gone.
LEMMA ReplacesDelete ==
    ASSUME DirectoryGiven, DirectoryInv, GroupsInv, NEW p \in Requests, pc[p] = "writing",
           todo[p] # <<>>, NEW s, s = Head(todo[p]), s.kind = "delete",
           D!Go(p, "writing", Tail(todo[p])), UNCHANGED <<rows, request, contested>>,
           \/ /\ UNCHANGED written
              /\ ~(D!Exists(rows[s.key]) /\ rows[s.key].id = s.row.id)
           \/ written' = [written EXCEPT ![p][s.key] = NoRow]
    PROVE  Replaces(p)'
  <1>0. PICK r, k, e, asked, plan, rest :
            /\ r = request[p] /\ k = s.key /\ e = r.about /\ asked = D!Range(r.ask)
            /\ plan = todo[p] /\ rest = Tail(plan)
    OBVIOUS
  <1>1. /\ request' = request /\ pc'[p] = "writing" /\ todo'[p] = rest /\ rows' = rows
        /\ contested' = contested
    BY <1>0 DEF DirectoryInv, DirectoryTypes, D!Go
  <1>2. /\ plan \in Seq(Statements) /\ s = plan[1] /\ 1 \in DOMAIN plan
        /\ \A n \in DOMAIN rest : n + 1 \in DOMAIN plan /\ rest[n] = plan[n + 1] /\ n \in Nat
        /\ \A n \in DOMAIN plan : n = 1 \/ (n - 1 \in DOMAIN rest /\ rest[n - 1] = plan[n])
    <2>1. plan \in Seq(Statements) BY <1>0, PlanIsAPlan
    <2> QED BY <1>0, <2>1, NextAndRest
  <1>3. SUFFICES ASSUME r # NoRequest, r.op = "update_user", ~contested[p]
                 PROVE  (\A g \in asked : D!Exists(rows[g])) /\ Replacing(p, e, asked)'
    BY <1>0, <1>1 DEF Replaces, D!Exists
  <1>4. (\A g \in asked : D!Exists(rows[g])) /\ Replacing(p, e, asked)
    <2>1. Replaces(p) BY GroupsFacts
    <2> QED BY <1>0, <1>3, <2>1 DEF Replaces
  <1>5. /\ ReplacementPlan(plan, e, asked)
        /\ \A g \in asked : Put(written[p][<<e, g>>]) \/ Inserts(plan, <<e, g>>)
        /\ \A g \in Groups : Put(written[p][<<e, g>>]) => g \in asked /\ ~Inserts(plan, <<e, g>>)
        /\ (\E g \in Groups : Put(written[p][<<e, g>>])) => \A n \in DOMAIN plan : plan[n].kind = "insert"
        /\ \A g \in Groups : Put(written[p][<<e, g>>]) \/ Leaves(p, <<e, g>>)
    BY <1>0, <1>4 DEF Replacing
  <1>6. e \in Emails
    <2>1. DirectoryRequest(r) BY <1>0, <1>3, DirectoryFacts
    <2> QED BY <1>0, <1>3, <2>1 DEF DirectoryRequest, UserOps
  <1>7. PICK g0 \in Groups : k = <<e, g0>> BY <1>0, <1>2, <1>5 DEF ReplacementPlan
  <1>8. /\ k \in D!Keys /\ \A g \in Groups : <<e, g>> \in D!Keys
    BY <1>6, <1>7, KindsOfKeys
  <1>9. \A g \in Groups : ~Put(written[p][<<e, g>>]) BY <1>2, <1>5
  <1>10. \A j \in D!Keys :
              written'[p][j] = written[p][j] \/ (j = k /\ written'[p][j] = NoRow)
    <2> TAKE j \in D!Keys
    <2>1. CASE UNCHANGED written BY <2>1
    <2>2. CASE written' = [written EXCEPT ![p][s.key] = NoRow]
      <3>1. DOMAIN written = Requests /\ DOMAIN written[p] = D!Keys BY DEF DirectoryInv, DirectoryTypes
      <3>2. written' = [written EXCEPT ![p][k] = NoRow] BY <1>0, <2>2
      <3> QED BY <1>8, <3>1, <3>2
    <2> QED BY <2>1, <2>2
  <1>11. \A g \in Groups : ~Put(written'[p][<<e, g>>]) BY <1>8, <1>9, <1>10 DEF Put
  <1>12. ReplacementPlan(rest, e, asked)
    <2>1. \A n \in DOMAIN rest :
              (rest[n].kind = "delete" \/ rest[n].kind = "insert") /\
              \E g \in Groups : rest[n].key = <<e, g>> /\ (rest[n].kind = "insert" => g \in asked)
      BY <1>2, <1>5 DEF ReplacementPlan
    <2>2. ASSUME NEW m \in DOMAIN rest, NEW n \in DOMAIN rest, m < n, rest[m].kind = "insert"
          PROVE  rest[n].kind = "insert" /\ rest[n].key # rest[m].key
      <3>1. m + 1 \in DOMAIN plan /\ n + 1 \in DOMAIN plan /\ m + 1 < n + 1 BY <1>2, <2>2
      <3> QED BY <1>2, <1>5, <2>2, <3>1 DEF ReplacementPlan
    <2> QED BY <2>1, <2>2 DEF ReplacementPlan
  <1>13. \A g \in asked : g \in Groups
    <2>1. DirectoryRequest(r) BY <1>0, <1>3, DirectoryFacts
    <2>2. r.ask \in Seq(Groups) BY <1>3, <2>1 DEF DirectoryRequest, UserOps
    <2> QED BY <1>0, <2>2 DEF D!Range
  <1>14. ASSUME NEW g \in asked PROVE Inserts(rest, <<e, g>>)
    <2>1. Inserts(plan, <<e, g>>) BY <1>5, <1>9, <1>13
    <2>2. PICK n \in DOMAIN plan : plan[n].kind = "insert" /\ plan[n].key = <<e, g>>
      BY <2>1 DEF Inserts
    <2>3. n - 1 \in DOMAIN rest /\ rest[n - 1] = plan[n] BY <1>2, <2>2
    <2> QED BY <2>2, <2>3 DEF Inserts
  <1>15. ASSUME NEW g \in Groups PROVE Leaves(p, <<e, g>>)'
    <2>1. PICK j : j = <<e, g>> OBVIOUS
    <2>2. Leaves(p, j) /\ j \in D!Keys BY <1>5, <1>8, <1>9, <2>1
    <2>3. CASE rows[j] = NoRow \/ written'[p][j] = NoRow BY <1>1, <2>1, <2>3 DEF Leaves
    <2>4. CASE rows[j] # NoRow /\ written'[p][j] # NoRow
      <3>1. written[p][j] # NoRow BY <1>10, <2>2, <2>4
      <3>2. PICK n \in DOMAIN plan : /\ plan[n].kind = "delete" /\ plan[n].key = j
                                     /\ plan[n].row.id = rows[j].id
        BY <1>0, <2>2, <2>4, <3>1 DEF Leaves, Deletes
      <3>3. n # 1
        <4> SUFFICES ASSUME n = 1 PROVE FALSE OBVIOUS
        <4>1. j = k /\ s.row.id = rows[k].id BY <1>0, <1>2, <3>2
        <4>2. D!Exists(rows[k])
          <5>1. CellOf(k, rows[k]) BY <1>8 DEF DirectoryInv, DirectoryTypes
          <5>2. k \notin Invitations /\ k \notin Groups BY <1>6, <1>7, KindsOfKeys
          <5> QED BY <2>4, <4>1, <5>1, <5>2 DEF CellOf, RowOf, DirectoryGiven, D!Exists
        <4>3. written'[p][k] = NoRow BY <1>0, <1>8, <4>1, <4>2 DEF DirectoryInv, DirectoryTypes
        <4> QED BY <2>4, <4>1, <4>3
      <3>4. n - 1 \in DOMAIN rest /\ rest[n - 1] = plan[n] BY <1>2, <3>3
      <3>5. Deletes(p, j, rows[j].id)' BY <1>1, <3>2, <3>4 DEF Deletes
      <3> QED BY <1>1, <2>1, <3>5 DEF Leaves
    <2> QED BY <2>3, <2>4
  <1>16. Replacing(p, e, asked)' BY <1>1, <1>11, <1>12, <1>14, <1>15 DEF Replacing
  <1> QED BY <1>4, <1>16

\* A replacement that nobody contests inserts a row, and is not refused.
LEMMA ReplacesInsert ==
    ASSUME DirectoryGiven, DirectoryInv, GroupsInv, NEW p \in Requests, pc[p] = "writing",
           todo[p] # <<>>, NEW s, s = Head(todo[p]), s.kind = "insert",
           request[p].op = "update_user", ~contested[p]
    PROVE  /\ ~D!Violates(p, s.key, s.row)
           /\ /\ D!Go(p, "writing", Tail(todo[p])) /\ UNCHANGED <<rows, request, contested>>
              /\ written' = [written EXCEPT ![p][s.key] = s.row] /\ Put(s.row)
              => Replaces(p)'
  <1>0. PICK r, k, e, asked, plan, rest :
            /\ r = request[p] /\ k = s.key /\ e = r.about /\ asked = D!Range(r.ask)
            /\ plan = todo[p] /\ rest = Tail(plan)
    OBVIOUS
  <1>1. /\ plan \in Seq(Statements) /\ s = plan[1] /\ 1 \in DOMAIN plan
        /\ \A n \in DOMAIN rest : n + 1 \in DOMAIN plan /\ rest[n] = plan[n + 1] /\ n \in Nat /\ n > 0
        /\ \A n \in DOMAIN plan :
              n = 1 \/ (n - 1 \in DOMAIN rest /\ rest[n - 1] = plan[n] /\ n \in Nat /\ n > 1)
    <2>1. plan \in Seq(Statements) BY <1>0, PlanIsAPlan
    <2> QED BY <1>0, <2>1, NextAndRest
  <1>2. r # NoRequest /\ DirectoryRequest(r) BY <1>0, DirectoryFacts
  <1>3. (\A g \in asked : D!Exists(rows[g])) /\ Replacing(p, e, asked)
    <2>1. Replaces(p) BY GroupsFacts
    <2> QED BY <1>0, <1>2, <2>1 DEF Replaces
  <1>4. /\ ReplacementPlan(plan, e, asked)
        /\ \A g \in asked : Put(written[p][<<e, g>>]) \/ Inserts(plan, <<e, g>>)
        /\ \A g \in Groups : Put(written[p][<<e, g>>]) => g \in asked /\ ~Inserts(plan, <<e, g>>)
        /\ \A g \in Groups : Put(written[p][<<e, g>>]) \/ Leaves(p, <<e, g>>)
    BY <1>0, <1>3 DEF Replacing
  <1>5. e \in Emails /\ r.ask \in Seq(Groups) BY <1>0, <1>2 DEF DirectoryRequest, UserOps
  <1>6. PICK g0 \in Groups : k = <<e, g0>> /\ g0 \in asked
    BY <1>0, <1>1, <1>4 DEF ReplacementPlan
  <1>7. /\ k \in D!Keys /\ k \in D!Members /\ k[2] = g0 /\ k \notin Groups /\ k \notin Emails
        /\ \A g \in Groups : <<e, g>> \in D!Keys
    BY <1>5, <1>6, KindsOfKeys
  <1>8. \A n \in DOMAIN plan : plan[n].kind = "insert"
    <2> TAKE n \in DOMAIN plan
    <2>1. CASE n = 1 BY <1>1, <2>1
    <2>2. CASE n # 1
      <3>1. 1 < n BY <1>1, <2>2
      <3> QED BY <1>1, <1>4, <3>1 DEF ReplacementPlan
    <2> QED BY <2>1, <2>2
  <1>9. Inserts(plan, k) BY <1>0, <1>1 DEF Inserts
  <1>10. ~Put(written[p][k]) /\ Leaves(p, k) BY <1>4, <1>6, <1>9
  <1>11. ~D!Violates(p, k, s.row)
    <2>1. rows[k] = NoRow \/ written[p][k] = NoRow BY <1>0, <1>8, <1>10 DEF Leaves, Deletes
    <2>2. D!Exists(rows[k[2]]) BY <1>3, <1>6, <1>7
    <2> QED BY <1>7, <2>1, <2>2 DEF D!Violates
  <1>12. ASSUME D!Go(p, "writing", Tail(todo[p])), UNCHANGED <<rows, request, contested>>,
                written' = [written EXCEPT ![p][k] = s.row], Put(s.row)
         PROVE  Replaces(p)'
    <2>1. /\ request' = request /\ pc'[p] = "writing" /\ todo'[p] = rest /\ rows' = rows
          /\ contested' = contested
      BY <1>0, <1>12 DEF DirectoryInv, DirectoryTypes, D!Go
    <2>2. /\ \A j \in D!Keys : j # k => written'[p][j] = written[p][j]
          /\ Put(written'[p][k])
      BY <1>7, <1>12 DEF DirectoryInv, DirectoryTypes
    <2>3. ReplacementPlan(rest, e, asked)
      <3>1. \A n \in DOMAIN rest :
                (rest[n].kind = "delete" \/ rest[n].kind = "insert") /\
                \E g \in Groups : rest[n].key = <<e, g>> /\ (rest[n].kind = "insert" => g \in asked)
        BY <1>1, <1>4 DEF ReplacementPlan
      <3>2. ASSUME NEW m \in DOMAIN rest, NEW n \in DOMAIN rest, m < n, rest[m].kind = "insert"
            PROVE  rest[n].kind = "insert" /\ rest[n].key # rest[m].key
        <4>1. m + 1 \in DOMAIN plan /\ n + 1 \in DOMAIN plan /\ m + 1 < n + 1 BY <1>1, <3>2
        <4> QED BY <1>1, <1>4, <3>2, <4>1 DEF ReplacementPlan
      <3> QED BY <3>1, <3>2 DEF ReplacementPlan
    <2>4. \A g \in asked : g \in Groups BY <1>0, <1>5 DEF D!Range
    <2>5. ASSUME NEW g \in asked PROVE Put(written'[p][<<e, g>>]) \/ Inserts(rest, <<e, g>>)
      <3>1. CASE <<e, g>> = k BY <2>2, <3>1
      <3>2. CASE <<e, g>> # k
        <4>1. CASE Put(written[p][<<e, g>>]) BY <1>7, <2>2, <2>4, <3>2, <4>1
        <4>2. CASE Inserts(plan, <<e, g>>)
          <5>1. PICK n \in DOMAIN plan : plan[n].kind = "insert" /\ plan[n].key = <<e, g>>
            BY <4>2 DEF Inserts
          <5>2. n - 1 \in DOMAIN rest /\ rest[n - 1] = plan[n] BY <1>0, <1>1, <3>2, <5>1
          <5> QED BY <5>1, <5>2 DEF Inserts
        <4> QED BY <1>4, <4>1, <4>2
      <3> QED BY <3>1, <3>2
    <2>6. ~Inserts(rest, k)
      <3> SUFFICES ASSUME NEW n \in DOMAIN rest, rest[n].kind = "insert", rest[n].key = k PROVE FALSE
        BY DEF Inserts
      <3>1. n + 1 \in DOMAIN plan /\ rest[n] = plan[n + 1] /\ 1 < n + 1
        <4>1. n \in Nat /\ n > 0 BY <1>1
        <4> QED BY <1>1, <4>1
      <3> QED BY <1>0, <1>1, <1>4, <3>1 DEF ReplacementPlan
    <2>7. ASSUME NEW g \in Groups, Put(written'[p][<<e, g>>])
          PROVE  g \in asked /\ ~Inserts(rest, <<e, g>>)
      <3>1. CASE <<e, g>> = k
        <4>1. g = g0 BY <1>6, <3>1
        <4> QED BY <1>6, <2>6, <3>1, <4>1
      <3>2. CASE <<e, g>> # k
        <4>1. g \in asked /\ ~Inserts(plan, <<e, g>>) BY <1>4, <1>7, <2>2, <2>7, <3>2
        <4> QED BY <1>1, <4>1 DEF Inserts
      <3> QED BY <3>1, <3>2
    <2>8. \A n \in DOMAIN rest : rest[n].kind = "insert" BY <1>1, <1>8
    <2>9. ASSUME NEW g \in Groups PROVE Put(written'[p][<<e, g>>]) \/ Leaves(p, <<e, g>>)'
      <3>1. PICK j : j = <<e, g>> /\ j \in D!Keys BY <1>7
      <3>2. CASE j = k BY <2>2, <3>1, <3>2
      <3>3. CASE j # k
        <4>1. written'[p][j] = written[p][j] BY <2>2, <3>1, <3>3
        <4>2. Put(written[p][j]) \/ rows[j] = NoRow \/ written[p][j] = NoRow
          BY <1>0, <1>4, <1>8, <3>1 DEF Leaves, Deletes
        <4> QED BY <2>1, <3>1, <4>1, <4>2 DEF Leaves
      <3> QED BY <3>2, <3>3
    <2>10. Replacing(p, e, asked)' BY <2>1, <2>3, <2>5, <2>7, <2>8, <2>9 DEF Replacing
    <2> QED BY <1>0, <1>3, <2>1, <2>10 DEF Replaces, D!Exists
  <1> QED BY <1>0, <1>11, <1>12

-----------------------------------------------------------------------------
\* The next statement, whatever the request.
LEMMA NextOfAny ==
    ASSUME DirectoryGiven, DirectoryInv, NEW p \in Requests, pc[p] = "writing", todo[p] # <<>>
    PROVE  LET s == Head(todo[p])
           IN  /\ s.key \in D!Keys
               /\ s.kind = "insert" => Put(s.row)
               /\ s.kind = "insert" /\ s.key \in Groups => s.row \in GroupRows
               /\ s.kind = "lock" => s.key \in Invitations
               /\ s.kind = "lock" => request[p].op # "update_user"
               /\ s.kind = "update" => \/ s.key \in Invitations /\ s.row \in [accepted : {TRUE}]
                                       \/ s.key \in Groups /\ s.row \in [name : GroupNames]
               /\ s.kind = "update" => request[p].op # "update_user" \/ s.key \in Groups
               /\ s.kind = "delete" => s.key \notin Emails
               /\ s.kind = "cascade" => s.key \in Groups
  <1>0. PICK s : s = Head(todo[p]) OBVIOUS
  <1>1. CASE request[p].op = "accept_invitation"
    <2> DEFINE i == request[p].about
               e == EmailOf[i]
               account == [id |-> request[p].id, via |-> i]
    <2>1. /\ i \in Invitations /\ i \in D!Keys /\ e \in Emails /\ e \in D!Keys
          /\ account \in AccountRows
          /\ s.kind = "lock" => s.key = i
          /\ s.kind = "insert" => s.key = e /\ s.row = account
          /\ s.kind = "update" => s.key = i /\ s.row = [accepted |-> TRUE]
          /\ s.kind # "delete" /\ s.kind # "cascade"
      BY <1>0, <1>1, NextOfAcceptance DEF D!Statement
    <2>2. Put(account) BY <2>1 DEF Put, DirectoryGiven, AnyRow
    <2> HIDE DEF account, e, i
    <2>3. s \in Statements
      <3>1. todo[p] \in Seq(Statements) BY PlanIsAPlan
      <3> QED BY <1>0, <3>1
    <2>4. s.key \in D!Keys BY <2>3 DEF Statements
    <2>5. s.kind = "insert" => s.key \notin Groups BY <2>1, KindsOfKeys
    <2>6. s.kind = "delete" => s.key \notin Emails BY <2>1
    <2>7. s.kind = "update" => s.row \in [accepted : {TRUE}]
      <3>1. [accepted |-> TRUE] \in [accepted : {TRUE}] OBVIOUS
      <3> QED BY <2>1, <3>1
    <2> QED BY <1>0, <1>1, <2>1, <2>2, <2>4, <2>5, <2>6, <2>7
  <1>2. CASE request[p].op # "accept_invitation"
    <2>1. Planned(request[p], s) /\ s.key \in D!Keys BY <1>0, <1>2, NextStatement
    <2>2. s.kind = "insert" => RowOf(s.key, s.row) BY <2>1 DEF Planned
    <2>3. s.kind = "insert" => Put(s.row) BY <2>2 DEF RowOf, Put, DirectoryGiven
    <2>4. s.kind = "insert" /\ s.key \in Groups => s.row \in GroupRows BY <2>2 DEF RowOf
    <2> QED BY <1>0, <2>1, <2>3, <2>4 DEF Planned
  <1> QED BY <1>1, <1>2

\* A row that is gone need not be deleted.
LEMMA GroupsSkip ==
    ASSUME DirectoryGiven, DirectoryInv, GroupsInv, NEW p \in Requests, pc[p] = "writing",
           todo[p] # <<>>, NEW s, s = Head(todo[p]), s.kind = "delete",
           ~(D!Exists(rows[s.key]) /\ rows[s.key].id = s.row.id),
           D!Go(p, "writing", Tail(todo[p])),
           UNCHANGED <<rows, written, request, contested, started>>
    PROVE  GroupsInv'
  <1>0. PICK r, k, plan, rest : /\ r = request[p] /\ k = s.key
                                /\ plan = todo[p] /\ rest = Tail(plan)
    OBVIOUS
  <1>1. /\ \A q \in Requests \ {p} : /\ request'[q] = request[q] /\ pc'[q] = pc[q]
                                     /\ todo'[q] = todo[q] /\ written'[q] = written[q]
                                     /\ contested'[q] = contested[q]
        /\ request' = request /\ pc'[p] = "writing" /\ todo'[p] = rest /\ rows' = rows
        /\ written' = written
    BY <1>0 DEF DirectoryInv, DirectoryTypes, D!Go
  <1>2. /\ plan \in Seq(Statements) /\ s = plan[1] /\ 1 \in DOMAIN plan
        /\ Len(rest) = Len(plan) - 1 /\ DOMAIN rest = 1 .. Len(rest)
        /\ \A n \in DOMAIN rest : n + 1 \in DOMAIN plan /\ rest[n] = plan[n + 1]
        /\ \A n \in DOMAIN plan : n = 1 \/ (n - 1 \in DOMAIN rest /\ rest[n - 1] = plan[n])
    <2>1. plan \in Seq(Statements) BY <1>0, PlanIsAPlan
    <2>2. rest \in Seq(Statements) BY <1>0, <2>1, NextAndRest
    <2> QED BY <1>0, <2>1, <2>2, NextAndRest
  <1>3. /\ WritesMeant(p) /\ StatementsMeant(p) /\ NamesFree(p) /\ RefersTo(p)
        /\ GroupGoes(p) /\ UserThere(p)
    BY GroupsFacts
  <1>4. k \in D!Keys /\ k \notin Emails BY <1>0, NextOfAny
  <1>5. WritesMeant(p)' BY <1>1, <1>3 DEF WritesMeant
  <1>6. StatementsMeant(p)' BY <1>0, <1>1, <1>2, <1>3 DEF StatementsMeant
  <1>7. NamesFree(p)' BY <1>1, <1>3 DEF NamesFree, D!Exists
  <1>8. RefersTo(p)' BY <1>1, <1>3 DEF RefersTo, D!Exists
  <1>9. GroupGoes(p)'
    <2> SUFFICES ASSUME r.op = "delete_group"
                 PROVE  \/ Len(rest) = 1 /\ rest[1].kind = "cascade"
                        \/ /\ \A n \in DOMAIN rest : rest[n].kind = "delete" /\ rest[n].key \in D!Members
                           /\ written[p][r.about] = NoRow => \A e \in Emails : Leaves(p, <<e, r.about>>)'
      BY <1>0, <1>1 DEF GroupGoes
    <2>1. CASE Len(plan) = 2 /\ plan[1].kind = "delete" /\ plan[2].kind = "cascade"
      <3>1. Len(rest) = 1 /\ 1 \in DOMAIN rest /\ 1 + 1 = 2 BY <1>2, <2>1
      <3> QED BY <1>2, <2>1, <3>1
    <2>2. ASSUME \A n \in DOMAIN plan : plan[n].kind = "delete" /\ plan[n].key \in D!Members,
                 written[p][r.about] = NoRow => \A e \in Emails : Leaves(p, <<e, r.about>>)
          PROVE  /\ \A n \in DOMAIN rest : rest[n].kind = "delete" /\ rest[n].key \in D!Members
                 /\ written[p][r.about] = NoRow => \A e \in Emails : Leaves(p, <<e, r.about>>)'
      <3>1. k \in D!Members BY <1>0, <1>2, <2>2
      <3>2. ASSUME NEW j, Leaves(p, j) PROVE Leaves(p, j)'
        <4>1. CASE rows[j] = NoRow \/ written[p][j] = NoRow BY <1>1, <4>1 DEF Leaves
        <4>2. CASE rows[j] # NoRow /\ written[p][j] # NoRow
          <5>1. PICK n \in DOMAIN plan : /\ plan[n].kind = "delete" /\ plan[n].key = j
                                         /\ plan[n].row.id = rows[j].id
            BY <1>0, <3>2, <4>2 DEF Leaves, Deletes
          <5>2. n # 1
            <6> SUFFICES ASSUME n = 1 PROVE FALSE OBVIOUS
            <6>1. j = k /\ s.row.id = rows[k].id BY <1>0, <1>2, <5>1
            <6>2. CellOf(k, rows[k]) BY <1>4 DEF DirectoryInv, DirectoryTypes
            <6>3. D!Exists(rows[k])
              BY <3>1, <4>2, <6>1, <6>2, KindsOfKeys DEF CellOf, RowOf, DirectoryGiven, D!Exists
            <6> QED BY <1>0, <6>1, <6>3
          <5>3. n - 1 \in DOMAIN rest /\ rest[n - 1] = plan[n] BY <1>2, <5>2
          <5>4. Deletes(p, j, rows[j].id)' BY <1>1, <5>1, <5>3 DEF Deletes
          <5> QED BY <1>1, <5>4 DEF Leaves
        <4> QED BY <4>1, <4>2
      <3> QED BY <1>2, <2>2, <3>2
    <2>3. ~ (Len(plan) = 1 /\ plan[1].kind = "cascade") BY <1>2
    <2>4. \/ Len(plan) = 2 /\ plan[1].kind = "delete" /\ plan[2].kind = "cascade"
          \/ /\ \A n \in DOMAIN plan : plan[n].kind = "delete" /\ plan[n].key \in D!Members
             /\ written[p][r.about] = NoRow => \A e \in Emails : Leaves(p, <<e, r.about>>)
      BY <1>0, <1>3, <2>3 DEF GroupGoes
    <2> QED BY <2>1, <2>2, <2>4
  <1>10. UserThere(p)'
    <2> SUFFICES ASSUME r # NoRequest, r.op = "create_user" PROVE written[p][r.about] # Same
      BY <1>0, <1>1, <1>3 DEF UserThere, UserOps
    <2>1. r.about \in Emails
      <3>1. DirectoryRequest(r) BY <1>0, DirectoryFacts
      <3> QED BY <3>1 DEF DirectoryRequest, UserOps
    <2> QED BY <1>0, <1>2, <1>3, <1>4, <2>1 DEF UserThere
  <1>11. Replaces(p)' BY <1>1, ReplacesDelete
  <1>12. Associates(p)' BY <1>5, <1>6, <1>7, <1>8, <1>9, <1>10, <1>11 DEF Associates
  <1> QED BY <1>1, <1>12, GroupsQuiet

\* The associations to a group that is being deleted are found.
LEMMA GroupsCascade ==
    ASSUME DirectoryGiven, DirectoryInv, GroupsInv, NEW p \in Requests, D!cascade(p)
    PROVE  GroupsInv'
  <1>0. PICK r, s, g : r = request[p] /\ s = Head(todo[p]) /\ g = s.key OBVIOUS
  <1> DEFINE found == {j \in D!Members : j[2] = g /\ rows[j] # NoRow}
  <1>1. /\ pc[p] = "writing" /\ todo[p] # <<>> /\ s.kind = "cascade"
        /\ UNCHANGED <<rows, written, request, contested, started>>
    BY <1>0 DEF D!cascade, D!Statement
  <1>2. /\ WritesMeant(p) /\ StatementsMeant(p) /\ NamesFree(p) /\ RefersTo(p)
    BY GroupsFacts
  <1>3. g \in Groups BY <1>0, <1>1, NextOfAny
  <1>4. r.op = "delete_group" /\ r.about = g
    <2>1. todo[p] \in Seq(Statements) BY <1>1, PlanIsAPlan
    <2>2. s = todo[p][1] /\ 1 \in DOMAIN todo[p] BY <1>0, <1>1, <2>1
    <2> QED BY <1>0, <1>1, <1>2, <1>3, <2>2 DEF StatementsMeant, MayTouch
  <1>5. PICK order \in D!Orders(found) :
            D!Go(p, "writing", [n \in DOMAIN order |-> D!Delete(order[n], rows[order[n]].id)])
    BY <1>0 DEF D!cascade
  <1>6. \A n \in DOMAIN order : order[n] \in found
    <2>1. IsFiniteSet(found)
      <3>1. IsFiniteSet(D!Members) BY FS_Product DEF DirectoryGiven, D!Members
      <3>2. found \subseteq D!Members OBVIOUS
      <3> HIDE DEF found
      <3> QED BY <3>1, <3>2, FS_Subset
    <2> HIDE DEF found
    <2>2. order \in Seq(found) BY <2>1, Ordered
    <2> QED BY <2>2
  <1>7. \A j \in found : \E n \in DOMAIN order : order[n] = j
    <2>1. IsFiniteSet(found)
      <3>1. IsFiniteSet(D!Members) BY FS_Product DEF DirectoryGiven, D!Members
      <3>2. found \subseteq D!Members OBVIOUS
      <3> HIDE DEF found
      <3> QED BY <3>1, <3>2, FS_Subset
    <2> HIDE DEF found
    <2> QED BY <2>1, OrderedOnce
  <1>8. PICK plan : plan = [n \in DOMAIN order |-> D!Delete(order[n], rows[order[n]].id)] OBVIOUS
  <1>9. /\ DOMAIN plan = DOMAIN order
        /\ \A n \in DOMAIN plan : /\ plan[n].kind = "delete" /\ plan[n].key = order[n]
                                  /\ plan[n].row.id = rows[order[n]].id
                                  /\ plan[n].key \in D!Members /\ plan[n].key[2] = g
    BY <1>6, <1>8 DEF D!Delete
  <1>10. /\ \A q \in Requests \ {p} : /\ request'[q] = request[q] /\ pc'[q] = pc[q]
                                      /\ todo'[q] = todo[q] /\ written'[q] = written[q]
                                      /\ contested'[q] = contested[q]
         /\ request' = request /\ pc'[p] = "writing" /\ todo'[p] = plan /\ rows' = rows
         /\ written' = written
    BY <1>1, <1>5, <1>8 DEF DirectoryInv, DirectoryTypes, D!Go
  <1>11. WritesMeant(p)' BY <1>2, <1>10 DEF WritesMeant
  <1>12. StatementsMeant(p)' BY <1>0, <1>4, <1>9, <1>10, KindsOfKeys DEF StatementsMeant, MayTouch
  <1>13. NamesFree(p)' BY <1>2, <1>10 DEF NamesFree, D!Exists
  <1>14. RefersTo(p)' BY <1>2, <1>10 DEF RefersTo, D!Exists
  <1>15. GroupGoes(p)'
    <2>1. ASSUME NEW e \in Emails PROVE Leaves(p, <<e, g>>)'
      <3>1. PICK j : j = <<e, g>> /\ j \in D!Members /\ j[2] = g BY <1>3, KindsOfKeys
      <3>2. CASE rows[j] = NoRow BY <1>10, <3>1, <3>2 DEF Leaves
      <3>3. CASE rows[j] # NoRow
        <4>1. PICK n \in DOMAIN order : order[n] = j BY <1>7, <3>1, <3>3
        <4>2. Deletes(p, j, rows[j].id)' BY <1>9, <1>10, <4>1 DEF Deletes
        <4> QED BY <1>10, <3>1, <4>2 DEF Leaves
      <3> QED BY <3>2, <3>3
    <2> QED BY <1>0, <1>4, <1>9, <1>10, <2>1 DEF GroupGoes
  <1>16. UserThere(p)' /\ Replaces(p)' BY <1>0, <1>4, <1>10 DEF UserThere, Replaces, UserOps
  <1>17. Associates(p)' BY <1>11, <1>12, <1>13, <1>14, <1>15, <1>16 DEF Associates
  <1> QED BY <1>10, <1>17, GroupsQuiet

\* A replacement that is contested, or none at all, has nothing to keep.
LEMMA NoReplacement ==
    ASSUME NEW p \in Requests, UNCHANGED <<request, contested>>,
           request[p].op # "update_user" \/ contested[p]
    PROVE  Replaces(p)'
  BY DEF Replaces

\* The name that a row gives to a group, once whoever names one so is done.
LEMMA NameIsFree ==
    ASSUME DirectoryGiven, DirectoryInv, NEW p \in Requests, NEW k \in Groups, NEW row,
           "name" \in DOMAIN row, D!Awaited(p, k, row) = {}
    PROVE  /\ \A q \in Requests \ {p}, h \in Groups :
                 Put(written[q][h]) => written[q][h].name # row.name
           /\ \A q \in Requests \ {p}, e \in Emails : ~Put(written[q][<<e, k>>])
  <1>1. D!Naming(p, row.name) = {} /\ D!Associating(p, k) = {} BY DEF D!Awaited
  <1>2. ASSUME NEW q \in Requests \ {p}, NEW h \in Groups, Put(written[q][h])
        PROVE  written[q][h].name # row.name
    <2>1. WriteOK(q, h) /\ h \in D!Keys BY DirectoryFacts, KindsOfKeys
    <2>2. RowOf(h, written[q][h]) BY <1>2, <2>1 DEF WriteOK, Put
    <2>3. D!Exists(written[q][h]) BY <2>2 DEF RowOf, DirectoryGiven, D!Exists
    <2> QED BY <1>1, <1>2, <2>3 DEF D!Naming, Put
  <1>3. ASSUME NEW q \in Requests \ {p}, NEW e \in Emails PROVE ~Put(written[q][<<e, k>>])
    BY <1>1 DEF D!Associating, Put
  <1> QED BY <1>2, <1>3

\* An invitation is locked.
LEMMA GroupsLock ==
    ASSUME DirectoryGiven, DirectoryInv, GroupsInv, NEW p \in Requests, D!lock(p)
    PROVE  GroupsInv'
  <1>0. PICK s, rest : s = Head(todo[p]) /\ rest = Tail(todo[p]) OBVIOUS
  <1>w. PICK w : w = rows[s.key] OBVIOUS
  <1>1. /\ pc[p] = "writing" /\ todo[p] # <<>> /\ s.kind = "lock"
        /\ IF D!Exists(w) /\ ~w.accepted
           THEN written' = [written EXCEPT ![p][s.key] = w] /\ D!Go(p, "writing", rest)
           ELSE D!Go(p, "refused", <<>>) /\ UNCHANGED written
        /\ UNCHANGED <<rows, request, contested, started>>
    BY <1>0, <1>w DEF D!lock, D!Statement
  <1>2. s.key \in Invitations /\ s.key \in D!Keys /\ request[p].op # "update_user"
    BY <1>0, <1>1, NextOfAny
  <1>3. CASE D!Exists(w) /\ ~w.accepted
    <2>1. CellOf(s.key, w) BY <1>2, <1>w DEF DirectoryInv, DirectoryTypes
    <2>2. w # Same /\ w # NoRow BY <1>3, <2>1 DEF CellOf, RowOf, DirectoryGiven, D!Exists
    <2>3. Replaces(p)' BY <1>1, <1>2, NoReplacement
    <2>4. s.key \notin Groups BY <1>2, KindsOfKeys
    <2>5. FreeToWrite(p, s.key, w) BY <1>2, KindsOfKeys DEF FreeToWrite
    <2>6. s.kind # "cascade" /\ (w = NoRow <=> s.kind = "delete") BY <1>1, <2>2
    <2>7. written' = [written EXCEPT ![p][s.key] = w] /\ D!Go(p, "writing", Tail(todo[p]))
      BY <1>0, <1>1, <1>3
    <2> QED BY <1>0, <1>1, <2>2, <2>3, <2>5, <2>6, <2>7, GroupsWrite
  <1>4. CASE ~(D!Exists(w) /\ ~w.accepted) BY <1>1, <1>4, GroupsFail
  <1> QED BY <1>3, <1>4

\* A group or an association is inserted, once nobody changes what it depends on.
LEMMA GroupsInsert ==
    ASSUME DirectoryGiven, DirectoryInv, GroupsInv, NEW p \in Requests, D!insert(p)
    PROVE  GroupsInv'
  <1>0. PICK s, rest : s = Head(todo[p]) /\ rest = Tail(todo[p]) OBVIOUS
  <1>w. PICK w, k : w = s.row /\ k = s.key OBVIOUS
  <1>1. /\ pc[p] = "writing" /\ todo[p] # <<>> /\ s.kind = "insert"
        /\ D!Awaited(p, k, w) = {} /\ D!Write(p, k, w)
        /\ UNCHANGED <<rows, request, contested, started>>
    BY <1>0, <1>w DEF D!insert, D!Statement
  <1>2. k \in D!Keys /\ Put(w) /\ (k \in Groups => w \in GroupRows)
    BY <1>0, <1>1, <1>w, NextOfAny
  <1>3. CASE D!Violates(p, k, w)
    <2>1. D!Go(p, "conflict", <<>>) /\ UNCHANGED written BY <1>1, <1>2, <1>3 DEF D!Write, Put
    <2>2. request[p].op = "update_user" => contested[p]
      BY <1>0, <1>1, <1>3, <1>w, ReplacesInsert
    <2> QED BY <1>1, <2>1, <2>2, GroupsFail
  <1>4. CASE ~D!Violates(p, k, w)
    <2>1. written' = [written EXCEPT ![p][k] = w] /\ D!Go(p, "writing", rest)
      BY <1>0, <1>1, <1>4 DEF D!Write
    <2>2. Replaces(p)'
      <3>1. CASE request[p].op = "update_user" /\ ~contested[p]
        BY <1>0, <1>1, <1>2, <1>w, <2>1, <3>1, ReplacesInsert
      <3>2. CASE request[p].op # "update_user" \/ contested[p] BY <1>1, <3>2, NoReplacement
      <3> QED BY <3>1, <3>2
    <2>3. k \in Groups =>
             /\ \A q \in Requests \ {p}, h \in Groups :
                   Put(written[q][h]) => written[q][h].name # w.name
             /\ \A q \in Requests \ {p}, e \in Emails : ~Put(written[q][<<e, k>>])
      <3>1. k \in Groups => "name" \in DOMAIN w BY <1>2 DEF GroupRows
      <3> QED BY <1>1, <3>1, NameIsFree
    <2>4. k \in Groups => \A h \in Groups : h # k /\ D!Exists(rows[h]) => rows[h].name # w.name
      BY <1>4 DEF D!Violates
    <2>5. ASSUME k \in D!Members
          PROVE  D!Exists(rows[k[2]]) /\ \A q \in Requests \ {p} : written[q][k[2]] = Same
      <3>1. D!Exists(rows[k[2]]) BY <1>4, <2>5 DEF D!Violates
      <3>2. D!Others(p, k[2]) = {} BY <1>1, <2>5, <3>1 DEF D!Awaited
      <3> QED BY <3>1, <3>2 DEF D!Others
    <2>6. w # Same /\ w # NoRow BY <1>2 DEF Put
    <2>7. s.kind # "cascade" /\ (w = NoRow <=> s.kind = "delete") BY <1>1, <2>6
    <2>8. written' = [written EXCEPT ![p][s.key] = w] /\ D!Go(p, "writing", Tail(todo[p]))
      BY <1>0, <1>w, <2>1
    <2>9. FreeToWrite(p, s.key, w) BY <1>w, <2>3, <2>4, <2>5 DEF FreeToWrite
    <2> QED BY <1>0, <1>1, <2>2, <2>6, <2>7, <2>8, <2>9, GroupsWrite
  <1> QED BY <1>3, <1>4

\* A group is renamed, once nobody names another so and nobody associates a user to it.
LEMMA GroupsUpdate ==
    ASSUME DirectoryGiven, DirectoryInv, GroupsInv, NEW p \in Requests, D!update(p)
    PROVE  GroupsInv'
  <1>0. PICK s, rest : s = Head(todo[p]) /\ rest = Tail(todo[p]) OBVIOUS
  <1>w. PICK w, k : w = D!Updated(rows[s.key], s.row) /\ k = s.key OBVIOUS
  <1>1. /\ pc[p] = "writing" /\ todo[p] # <<>> /\ s.kind = "update"
        /\ IF ~D!Exists(rows[k]) THEN D!Go(p, "refused", <<>>) /\ UNCHANGED written
           ELSE D!Awaited(p, k, s.row) = {} /\ D!Write(p, k, w)
        /\ UNCHANGED <<rows, request, contested, started>>
    BY <1>0, <1>w DEF D!update, D!Statement
  <1>2. /\ k \in D!Keys
        /\ \/ k \in Invitations /\ s.row \in [accepted : {TRUE}]
           \/ k \in Groups /\ s.row \in [name : GroupNames]
        /\ request[p].op # "update_user" \/ k \in Groups
    BY <1>0, <1>1, <1>w, NextOfAny
  <1>3. request[p].op # "update_user"
    <2> SUFFICES ASSUME k \in Groups PROVE request[p].op \in GroupOps BY <1>2 DEF GroupOps
    <2>1. StatementsMeant(p) BY GroupsFacts
    <2>2. todo[p] \in Seq(Statements) BY <1>1, PlanIsAPlan
    <2>3. s = todo[p][1] /\ 1 \in DOMAIN todo[p] BY <1>0, <1>1, <2>2
    <2> QED BY <1>1, <1>w, <2>1, <2>3 DEF StatementsMeant, MayTouch
  <1>4. CASE ~D!Exists(rows[k]) BY <1>1, <1>4, GroupsFail
  <1>5. CASE D!Exists(rows[k])
    <2>1. /\ w \in AnyRow
          /\ k \in Groups => w \in GroupRows /\ w.name = s.row.name /\ "name" \in DOMAIN s.row
      <3>1. CellOf(k, rows[k]) BY <1>2 DEF DirectoryInv, DirectoryTypes
      <3>2. CASE k \in Invitations /\ s.row \in [accepted : {TRUE}]
        <4>1. rows[k] \in InvitationRows BY <1>5, <3>1, <3>2 DEF CellOf, RowOf, D!Exists
        <4>2. w \in InvitationRows BY <1>w, <3>2, <4>1 DEF D!Updated, InvitationRows
        <4> QED BY <3>2, <4>2, KindsOfKeys DEF AnyRow
      <3>3. CASE k \in Groups /\ s.row \in [name : GroupNames]
        <4>1. rows[k] \in GroupRows BY <1>5, <3>1, <3>3 DEF CellOf, RowOf, D!Exists
        <4>2. w \in GroupRows BY <1>w, <3>3, <4>1 DEF D!Updated, GroupRows
        <4>3. w.name = s.row.name /\ "name" \in DOMAIN s.row
          BY <1>w, <3>3, <4>1 DEF D!Updated, GroupRows
        <4> QED BY <4>2, <4>3 DEF AnyRow
      <3> QED BY <1>2, <3>2, <3>3
    <2>2. Put(w) BY <2>1 DEF Put, DirectoryGiven
    <2>3. CASE D!Violates(p, k, w)
      <3>1. D!Go(p, "conflict", <<>>) /\ UNCHANGED written
        BY <1>1, <1>5, <2>2, <2>3 DEF D!Write, Put
      <3> QED BY <1>1, <1>3, <3>1, GroupsFail
    <2>4. CASE ~D!Violates(p, k, w)
      <3>1. written' = [written EXCEPT ![p][k] = w] /\ D!Go(p, "writing", rest)
        BY <1>0, <1>1, <1>5, <2>4 DEF D!Write
      <3>2. Replaces(p)' BY <1>1, <1>3, NoReplacement
      <3>3. k \in Groups =>
               /\ \A q \in Requests \ {p}, h \in Groups :
                     Put(written[q][h]) => written[q][h].name # w.name
               /\ \A q \in Requests \ {p}, e \in Emails : ~Put(written[q][<<e, k>>])
        <4>1. PICK columns : columns = s.row OBVIOUS
        <4> QED BY <1>1, <1>5, <2>1, <4>1, NameIsFree
      <3>4. k \in Groups => \A h \in Groups : h # k /\ D!Exists(rows[h]) => rows[h].name # w.name
        BY <2>4 DEF D!Violates
      <3>5. w # Same /\ w # NoRow BY <2>2 DEF Put
      <3>6. k \notin D!Members BY <1>2, KindsOfKeys
      <3>7. s.kind # "cascade" /\ (w = NoRow <=> s.kind = "delete") BY <1>1, <3>5
      <3>8. written' = [written EXCEPT ![p][s.key] = w] /\ D!Go(p, "writing", Tail(todo[p]))
        BY <1>0, <1>w, <3>1
      <3>9. FreeToWrite(p, s.key, w) BY <1>w, <3>3, <3>4, <3>6 DEF FreeToWrite
      <3> QED BY <1>0, <1>1, <3>2, <3>5, <3>7, <3>8, <3>9, GroupsWrite
    <2> QED BY <2>3, <2>4
  <1> QED BY <1>4, <1>5

\* A row is deleted, once nobody has written it and nobody associates a user to it.
LEMMA GroupsDelete ==
    ASSUME DirectoryGiven, DirectoryInv, GroupsInv, NEW p \in Requests, D!delete(p)
    PROVE  GroupsInv'
  <1>0. PICK s, rest : s = Head(todo[p]) /\ rest = Tail(todo[p]) OBVIOUS
  <1>w. PICK w, k : w = NoRow /\ k = s.key OBVIOUS
  <1>1. /\ pc[p] = "writing" /\ todo[p] # <<>> /\ s.kind = "delete"
        /\ k \in Groups => D!Associating(p, k) = {}
        /\ IF D!Exists(rows[k]) /\ rows[k].id = s.row.id
           THEN D!Write(p, k, NoRow)
           ELSE D!Go(p, "writing", rest) /\ UNCHANGED written
        /\ UNCHANGED <<rows, request, contested, started>>
    BY <1>0, <1>w DEF D!delete, D!Statement
  <1>2. CASE ~(D!Exists(rows[k]) /\ rows[k].id = s.row.id)
    BY <1>0, <1>1, <1>2, <1>w, GroupsSkip
  <1>3. CASE D!Exists(rows[k]) /\ rows[k].id = s.row.id
    <2>1. written' = [written EXCEPT ![p][k] = w] /\ D!Go(p, "writing", rest)
      BY <1>0, <1>1, <1>3, <1>w DEF D!Write
    <2>2. Replaces(p)' BY <1>0, <1>1, <1>w, <2>1, ReplacesDelete
    <2>3. k \in Groups => \A q \in Requests \ {p}, e \in Emails : ~Put(written[q][<<e, k>>])
      BY <1>1 DEF D!Associating, Put
    <2>4. w # Same /\ ~Put(w) BY <1>w DEF DirectoryGiven, Put
    <2>5. FreeToWrite(p, s.key, w) BY <1>w, <2>3, <2>4 DEF FreeToWrite
    <2> QED BY <1>0, <1>1, <1>w, <2>1, <2>2, <2>4, <2>5, GroupsWrite
  <1> QED BY <1>2, <1>3

-----------------------------------------------------------------------------
\* What a commit puts in place, and for whom.
LEMMA CommitsRows ==
    ASSUME DirectoryGiven, DirectoryInv, GroupsInv, NEW p \in Requests, D!commit(p)
    PROVE  /\ \A k \in D!Keys : written[p][k] = Same => rows'[k] = rows[k]
           /\ \A k \in D!Keys : written[p][k] # Same => rows'[k] = written[p][k]
           /\ \A e \in Emails : rows[e] # NoRow \/ written[p][e] # Same => rows'[e] # NoRow
           /\ \A g \in Groups : Put(written[p][g]) => D!Exists(written[p][g])
           /\ \A g \in Groups : D!Exists(rows[g]) /\ ~D!Exists(rows'[g]) =>
                 /\ request[p].op = "delete_group" /\ request[p].about = g
                 /\ written[p][g] = NoRow
           /\ \A e \in Emails, g \in Groups : written[p][<<e, g>>] # Same =>
                 \/ request[p].op \in UserOps /\ request[p].about = e
                 \/ request[p].op = "delete_group" /\ rows'[<<e, g>>] = NoRow
  <1>1. rows' = [k \in D!Keys |-> IF written[p][k] = Same THEN rows[k] ELSE written[p][k]]
    BY DEF D!commit
  <1>2. /\ \A k \in D!Keys : written[p][k] = Same => rows'[k] = rows[k]
        /\ \A k \in D!Keys : written[p][k] # Same => rows'[k] = written[p][k]
    BY <1>1
  <1>3. \A e \in Emails : rows[e] # NoRow \/ written[p][e] # Same => rows'[e] # NoRow
    <2> TAKE e \in Emails
    <2>1. e \in D!Keys /\ WriteOK(p, e) BY DirectoryFacts, KindsOfKeys
    <2> QED BY <1>2, <2>1 DEF WriteOK
  <1>4. \A g \in Groups : Put(written[p][g]) => D!Exists(written[p][g])
    <2> TAKE g \in Groups
    <2>1. g \in D!Keys /\ WriteOK(p, g) BY DirectoryFacts, KindsOfKeys
    <2> QED BY <2>1 DEF WriteOK, RowOf, Put, D!Exists, DirectoryGiven
  <1>5. WritesMeant(p) BY GroupsFacts
  <1>6. ASSUME NEW g \in Groups, D!Exists(rows[g]), ~D!Exists(rows'[g])
        PROVE  /\ request[p].op = "delete_group" /\ request[p].about = g
               /\ written[p][g] = NoRow
    <2>1. g \in D!Keys BY KindsOfKeys
    <2>2. written[p][g] # Same /\ ~D!Exists(written[p][g]) BY <1>2, <1>6, <2>1 DEF D!Exists
    <2>3. written[p][g] = NoRow BY <1>4, <2>2 DEF Put
    <2> QED BY <1>5, <2>1, <2>2, <2>3 DEF WritesMeant, MayTouch
  <1>7. ASSUME NEW e \in Emails, NEW g \in Groups, written[p][<<e, g>>] # Same
        PROVE  \/ request[p].op \in UserOps /\ request[p].about = e
               \/ request[p].op = "delete_group" /\ rows'[<<e, g>>] = NoRow
    <2>1. PICK k : k = <<e, g>> /\ k \in D!Keys /\ k \in D!Members /\ k[1] = e BY KindsOfKeys
    <2>2. MayTouch(request[p], k, written[p][k] = NoRow) BY <1>5, <1>7, <2>1 DEF WritesMeant
    <2> QED BY <1>2, <1>7, <2>1, <2>2 DEF MayTouch
  <1> QED BY <1>2, <1>3, <1>4, <1>6, <1>7

\* The rows that a commit puts in place agree with those that stay.
LEMMA CommitAgrees ==
    ASSUME DirectoryGiven, DirectoryInv, GroupsInv, NEW p \in Requests, D!commit(p)
    PROVE  RowsAgree(rows)'
  <1>1. /\ \A k \in D!Keys : written[p][k] = Same => rows'[k] = rows[k]
        /\ \A k \in D!Keys : written[p][k] # Same => rows'[k] = written[p][k]
        /\ \A e \in Emails : rows[e] # NoRow \/ written[p][e] # Same => rows'[e] # NoRow
        /\ \A g \in Groups : Put(written[p][g]) => D!Exists(written[p][g])
        /\ \A g \in Groups : D!Exists(rows[g]) /\ ~D!Exists(rows'[g]) =>
              /\ request[p].op = "delete_group" /\ request[p].about = g
              /\ written[p][g] = NoRow
        /\ \A e \in Emails, g \in Groups : written[p][<<e, g>>] # Same =>
              \/ request[p].op \in UserOps /\ request[p].about = e
              \/ request[p].op = "delete_group" /\ rows'[<<e, g>>] = NoRow
    BY CommitsRows
  <1>2. /\ WritesMeant(p) /\ NamesFree(p) /\ RefersTo(p) /\ GroupGoes(p) BY GroupsFacts
  <1>3. pc[p] = "writing" /\ todo[p] = <<>> BY DEF D!commit
  <1>4. ASSUME NEW g \in Groups, NEW h \in Groups, g # h, D!Exists(rows'[g]), D!Exists(rows'[h])
        PROVE  rows'[g].name # rows'[h].name
    <2>0. g \in D!Keys /\ h \in D!Keys BY KindsOfKeys
    <2>1. CASE written[p][g] = Same /\ written[p][h] = Same
      BY <1>1, <1>4, <2>0, <2>1 DEF GroupsInv, RowsAgree
    <2>2. CASE written[p][g] # Same /\ written[p][h] = Same
      <3>1. Put(written[p][g]) /\ D!Exists(rows[h]) BY <1>1, <1>4, <2>0, <2>2 DEF Put, D!Exists
      <3> QED BY <1>1, <1>2, <1>4, <2>0, <2>2, <3>1 DEF NamesFree
    <2>3. CASE written[p][g] = Same /\ written[p][h] # Same
      <3>1. Put(written[p][h]) /\ D!Exists(rows[g]) BY <1>1, <1>4, <2>0, <2>3 DEF Put, D!Exists
      <3> QED BY <1>1, <1>2, <1>4, <2>0, <2>3, <3>1 DEF NamesFree
    <2>4. CASE written[p][g] # Same /\ written[p][h] # Same
      BY <1>2, <1>4, <2>0, <2>4 DEF WritesMeant, MayTouch
    <2> QED BY <2>1, <2>2, <2>3, <2>4
  <1>5. ASSUME NEW e \in Emails, NEW g \in Groups, rows'[<<e, g>>] # NoRow
        PROVE  rows'[e] # NoRow /\ D!Exists(rows'[g])
    <2>0. PICK k : k = <<e, g>> /\ k \in D!Keys /\ k \in D!Members BY KindsOfKeys
    <2>1. g \in D!Keys BY KindsOfKeys
    <2>2. CASE written[p][k] = Same
      <3>1. rows[k] # NoRow BY <1>1, <1>5, <2>0, <2>2
      <3>2. rows[e] # NoRow /\ D!Exists(rows[g]) BY <2>0, <3>1 DEF GroupsInv, RowsAgree
      <3>3. D!Exists(rows'[g])
        <4> SUFFICES ASSUME ~D!Exists(rows'[g]) PROVE FALSE OBVIOUS
        <4>1. /\ request[p].op = "delete_group" /\ request[p].about = g
              /\ written[p][g] = NoRow
          BY <1>1, <3>2
        <4>2. Len(todo[p]) = 0 /\ DOMAIN todo[p] = {} BY <1>3
        <4>3. Leaves(p, <<e, g>>) BY <1>2, <1>3, <4>1, <4>2 DEF GroupGoes
        <4> QED BY <2>0, <2>2, <3>1, <4>2, <4>3, KindsOfKeys DEF Leaves, Deletes
      <3> QED BY <1>1, <3>2, <3>3
    <2>3. CASE written[p][k] # Same
      <3>1. Put(written[p][k]) BY <1>1, <1>5, <2>0, <2>3 DEF Put
      <3>2. D!Exists(rows[g]) /\ (rows[e] # NoRow \/ written[p][e] # Same)
        BY <1>2, <2>0, <3>1 DEF RefersTo
      <3>3. request[p].op # "delete_group" BY <1>1, <1>5, <2>0, <2>3 DEF UserOps
      <3> QED BY <1>1, <3>2, <3>3
    <2> QED BY <2>2, <2>3
  <1> QED BY <1>4, <1>5 DEF RowsAgree, D!Exists

\* Another transaction goes on with the rows that a commit puts in place.
LEMMA CommitSpares ==
    ASSUME DirectoryGiven, DirectoryInv, GroupsInv, NEW p \in Requests, D!commit(p),
           NEW q \in Requests \ {p}
    PROVE  Associates(q)'
  <1>0. PICK r, e, asked : r = request[q] /\ e = r.about /\ asked = D!Range(r.ask) OBVIOUS
  <1>1. /\ \A k \in D!Keys : written[p][k] = Same => rows'[k] = rows[k]
        /\ \A k \in D!Keys : written[p][k] # Same => rows'[k] = written[p][k]
        /\ \A f \in Emails : rows[f] # NoRow \/ written[p][f] # Same => rows'[f] # NoRow
        /\ \A g \in Groups : Put(written[p][g]) => D!Exists(written[p][g])
        /\ \A g \in Groups : D!Exists(rows[g]) /\ ~D!Exists(rows'[g]) =>
              /\ request[p].op = "delete_group" /\ request[p].about = g
              /\ written[p][g] = NoRow
        /\ \A f \in Emails, g \in Groups : written[p][<<f, g>>] # Same =>
              \/ request[p].op \in UserOps /\ request[p].about = f
              \/ request[p].op = "delete_group" /\ rows'[<<f, g>>] = NoRow
    BY CommitsRows
  <1>2. /\ request'[q] = r /\ pc'[q] = pc[q] /\ todo'[q] = todo[q] /\ written'[q] = written[q]
        /\ contested'[q] = (contested[q] \/ (r # NoRequest /\ D!Contests(request[p], r)))
    BY <1>0 DEF D!commit, D!Finish, D!Go, DirectoryInv, DirectoryTypes
  <1>3. /\ WritesMeant(q) /\ StatementsMeant(q) /\ NamesFree(q) /\ RefersTo(q)
        /\ GroupGoes(q) /\ UserThere(q) /\ Replaces(q)
    BY GroupsFacts
  <1>4. Apart(p, q) /\ Apart(q, p) BY DEF GroupsInv
  <1>5. r # NoRequest => DirectoryRequest(r) BY <1>0, DirectoryFacts
  <1>6. WritesMeant(q)' BY <1>0, <1>2, <1>3 DEF WritesMeant
  <1>7. StatementsMeant(q)' BY <1>0, <1>2, <1>3 DEF StatementsMeant
  <1>8. NamesFree(q)'
    <2> SUFFICES ASSUME NEW g \in Groups, NEW h \in Groups, g # h, Put(written[q][g]),
                        D!Exists(rows'[h])
                 PROVE  rows'[h].name # written[q][g].name
      BY <1>2 DEF NamesFree, D!Exists
    <2>0. h \in D!Keys BY KindsOfKeys
    <2>1. CASE written[p][h] = Same BY <1>1, <1>3, <2>0, <2>1 DEF NamesFree
    <2>2. CASE written[p][h] # Same
      <3>1. Put(written[p][h]) BY <1>1, <2>0, <2>2 DEF Put, D!Exists
      <3> QED BY <1>1, <1>4, <2>0, <2>2, <3>1 DEF Apart
    <2> QED BY <2>1, <2>2
  <1>9. RefersTo(q)'
    <2> SUFFICES ASSUME NEW f \in Emails, NEW g \in Groups, Put(written[q][<<f, g>>])
                 PROVE  D!Exists(rows'[g]) /\ (rows'[f] # NoRow \/ written[q][f] # Same)
      BY <1>2 DEF RefersTo, D!Exists
    <2>1. D!Exists(rows[g]) /\ (rows[f] # NoRow \/ written[q][f] # Same) BY <1>3 DEF RefersTo
    <2>2. written[p][g] = Same BY <1>4 DEF Apart
    <2> QED BY <1>1, <2>1, <2>2, KindsOfKeys
  <1>10. GroupGoes(q)'
    <2> SUFFICES ASSUME pc[q] = "writing", r.op = "delete_group", r # NoRequest,
                        \A n \in DOMAIN todo[q] :
                            todo[q][n].kind = "delete" /\ todo[q][n].key \in D!Members,
                        written[q][r.about] = NoRow, NEW f \in Emails, Leaves(q, <<f, r.about>>)
                 PROVE  Leaves(q, <<f, r.about>>)'
      <3>1. pc[q] = "writing" => r # NoRequest BY <1>0, DirectoryFacts
      <3> QED BY <1>0, <1>2, <1>3, <3>1 DEF GroupGoes
    <2>1. r.about \in Groups BY <1>5 DEF DirectoryRequest, GroupOps
    <2>2. PICK k : k = <<f, r.about>> /\ k \in D!Keys BY <2>1, KindsOfKeys
    <2>3. ~Put(written[p][k])
      <3>1. Same # NoRow BY KindsOfKeys
      <3> QED BY <1>4, <2>1, <2>2, <3>1 DEF Apart
    <2>4. rows'[k] = rows[k] \/ rows'[k] = NoRow BY <1>1, <2>2, <2>3 DEF Put
    <2>5. Leaves(q, k)' BY <1>2, <2>2, <2>4 DEF Leaves, Deletes
    <2> QED BY <2>2, <2>5
  <1>11. UserThere(q)'
    <2>1. r # NoRequest /\ r.op = "update_user" => e \in Emails /\ rows[e] # NoRow
      BY <1>0, <1>3, <1>5 DEF UserThere, DirectoryRequest, UserOps
    <2> QED BY <1>0, <1>1, <1>2, <1>3, <2>1 DEF UserThere
  <1>12. Replaces(q)'
    <2> SUFFICES ASSUME r # NoRequest, r.op = "update_user", ~contested'[q]
                 PROVE  /\ pc[q] # "conflict"
                        /\ pc[q] \in {"replacing", "writing"} => \A g \in asked : D!Exists(rows'[g])
                        /\ pc[q] = "writing" => Replacing(q, e, asked)'
      BY <1>0, <1>2 DEF Replaces, D!Exists
    <2>1. /\ ~contested[q] /\ request[p].about # e
          /\ ~(request[p].op = "delete_group" /\ request[p].about \in asked)
      BY <1>0, <1>2 DEF D!Contests
    <2>2. /\ pc[q] # "conflict"
          /\ pc[q] \in {"replacing", "writing"} => \A g \in asked : D!Exists(rows[g])
          /\ pc[q] = "writing" => Replacing(q, e, asked)
      BY <1>0, <1>3, <2>1 DEF Replaces
    <2>3. e \in Emails /\ \A g \in asked : g \in Groups
      <3>1. e \in Emails /\ r.ask \in Seq(Groups) BY <1>0, <1>5 DEF DirectoryRequest, UserOps
      <3> QED BY <1>0, <3>1 DEF D!Range
    <2>4. pc[q] \in {"replacing", "writing"} => \A g \in asked : D!Exists(rows'[g])
      BY <1>1, <2>1, <2>2, <2>3
    <2>5. ASSUME NEW g \in Groups, Leaves(q, <<e, g>>) PROVE Leaves(q, <<e, g>>)'
      <3>1. PICK k : k = <<e, g>> /\ k \in D!Keys BY <2>3, KindsOfKeys
      <3>2. rows'[k] = rows[k] \/ rows'[k] = NoRow BY <1>1, <2>1, <2>3, <3>1
      <3>3. Leaves(q, k)' BY <1>2, <2>5, <3>1, <3>2 DEF Leaves, Deletes
      <3> QED BY <3>1, <3>3
    <2>6. pc[q] = "writing" => Replacing(q, e, asked)' BY <1>2, <2>2, <2>5 DEF Replacing
    <2> QED BY <2>2, <2>4, <2>6
  <1> QED BY <1>6, <1>7, <1>8, <1>9, <1>10, <1>11, <1>12 DEF Associates

\* A commit puts its rows in place.
LEMMA GroupsCommit ==
    ASSUME DirectoryGiven, DirectoryInv, GroupsInv, NEW p \in Requests, D!commit(p)
    PROVE  GroupsInv'
  <1>1. /\ \A q \in Requests \ {p} : written'[q] = written[q]
        /\ request'[p] = NoRequest /\ pc'[p] = "idle"
        /\ \A k \in D!Keys : written'[p][k] = Same
    BY DEF D!commit, D!Finish, D!Go, DirectoryInv, DirectoryTypes
  <1>2. Associates(p)'
    BY <1>1, KindsOfKeys DEF Associates, WritesMeant, StatementsMeant, NamesFree, RefersTo, GroupGoes,
      UserThere, Replaces, Put
  <1>3. \A q \in Requests : Associates(q)' BY <1>2, CommitSpares
  <1>4. ASSUME NEW q \in Requests, NEW s \in Requests, q # s PROVE Apart(q, s)'
    <2>1. CASE q = p \/ s = p BY <1>1, <1>4, <2>1, KindsOfKeys DEF Apart, Put
    <2>2. CASE q # p /\ s # p
      <3>1. Apart(q, s) /\ written'[q] = written[q] /\ written'[s] = written[s]
        BY <1>1, <1>4, <2>2 DEF GroupsInv
      <3> QED BY <3>1 DEF Apart
    <2> QED BY <2>1, <2>2
  <1>5. RowsAgree(rows)' BY CommitAgrees
  <1> QED BY <1>3, <1>4, <1>5 DEF GroupsInv

-----------------------------------------------------------------------------
\* Whoever leaves the rows and the requests leaves all of it.
LEMMA GroupsStill ==
    ASSUME DirectoryGiven, GroupsInv, UNCHANGED <<rows, D!txVars, contested, started>>
    PROVE  GroupsInv'
  <1>1. UNCHANGED <<rows, written, request, pc, todo, contested>> BY DEF D!txVars
  <1>2. \A q \in Requests : Associates(q)' BY <1>1, AssociatesKept DEF GroupsInv
  <1>3. \A q, s \in Requests : q # s => Apart(q, s)' BY <1>1 DEF GroupsInv, Apart
  <1>4. RowsAgree(rows)' BY <1>1 DEF GroupsInv, RowsAgree, D!Exists
  <1> QED BY <1>2, <1>3, <1>4 DEF GroupsInv

\* The rows at the start agree, and nobody is at work.
LEMMA GroupsStart ==
    ASSUME GroupsGiven, D!Init
    PROVE  GroupsInv
  <1>0. DirectoryGiven BY DEF GroupsGiven
  <1>1. /\ \A p \in Requests : request[p] = NoRequest /\ pc[p] = "idle"
        /\ \A p \in Requests, k \in D!Keys : written[p][k] = Same
        /\ rows = InitialDirectory
    BY DEF D!Init
  <1>2. ASSUME NEW p \in Requests PROVE Associates(p)
    BY <1>0, <1>1, KindsOfKeys DEF Associates, WritesMeant, StatementsMeant, NamesFree, RefersTo,
      GroupGoes, UserThere, Replaces, Put
  <1>3. ASSUME NEW p \in Requests, NEW q \in Requests PROVE Apart(p, q)
    BY <1>0, <1>1, KindsOfKeys DEF Apart, Put
  <1>4. RowsAgree(rows) BY <1>1 DEF GroupsGiven
  <1> QED BY <1>2, <1>3, <1>4 DEF GroupsInv

\* One step of the directory, by its kind.
LEMMA GroupsStay ==
    ASSUME DirectoryGiven, DirectoryInv, GroupsInv, [D!Next]_D!vars
    PROVE  GroupsInv'
  <1>1. CASE UNCHANGED D!vars BY <1>1, GroupsStill DEF D!vars
  <1>2. ASSUME NEW p \in Requests, D!Arrival(p) PROVE GroupsInv'
    BY <1>2, GroupsArrival
  <1>3. ASSUME NEW p \in Requests, D!Step(p) PROVE GroupsInv'
    <2>1. CASE D!check_registered(p) BY <2>1, GroupsCheckRegistered
    <2>2. CASE D!_assert_groups_exist(p) BY <2>2, GroupsAssertExist
    <2>3. CASE D!_replace_user_groups(p) BY <2>3, GroupsReplace
    <2>4. CASE D!insert(p) BY <2>4, GroupsInsert
    <2>5. CASE D!lock(p) BY <2>5, GroupsLock
    <2>6. CASE D!update(p) BY <2>6, GroupsUpdate
    <2>7. CASE D!delete(p) BY <2>7, GroupsDelete
    <2>8. CASE D!cascade(p) BY <2>8, GroupsCascade
    <2>9. CASE D!commit(p) BY <2>9, GroupsCommit
    <2>10. CASE D!rollback(p) BY <2>10, GroupsFinish DEF D!rollback
    <2> QED BY <1>3, <2>1, <2>2, <2>3, <2>4, <2>5, <2>6, <2>7, <2>8, <2>9, <2>10 DEF D!Step
  <1>4. ASSUME NEW i \in Invitations, D!expire(i) PROVE GroupsInv'
    BY <1>4, GroupsStill DEF D!expire
  <1>5. \/ \E p \in Requests : D!Arrival(p) \/ D!Step(p)
        \/ \E i \in Invitations : D!expire(i)
        \/ UNCHANGED D!vars
    BY DEF D!Next
  <1> QED BY <1>1, <1>2, <1>3, <1>4, <1>5

\* What the invariant says to whoever reads the groups.
LEMMA GroupsMeans ==
    ASSUME DirectoryGiven, DirectoryInv, GroupsInv
    PROVE  D!TypeOK /\ D!UncontestedGroups
  <1>1. ASSUME NEW k \in D!Members, rows[k] # NoRow PROVE D!Exists(rows[k[1]]) /\ D!Exists(rows[k[2]])
    <2>1. k[1] \in Emails /\ k[2] \in Groups /\ k = <<k[1], k[2]>> BY KindsOfKeys
    <2>2. rows[k[1]] # NoRow /\ D!Exists(rows[k[2]]) BY <1>1, <2>1 DEF GroupsInv, RowsAgree
    <2>3. k[1] \in D!Keys /\ k[1] \notin Invitations /\ k[1] \notin Groups BY <2>1, KindsOfKeys
    <2>4. CellOf(k[1], rows[k[1]]) BY <2>3 DEF DirectoryInv, DirectoryTypes
    <2> QED BY <2>2, <2>3, <2>4 DEF CellOf, RowOf, DirectoryGiven, D!Exists
  <1>2. \A p \in Requests : PlaceOK(p) BY DirectoryFacts
  <1>3. D!TypeOK
    BY <1>1, <1>2 DEF D!TypeOK, GroupsInv, RowsAgree, PlaceOK, Places, DirectoryInv, DirectoryTypes
  <1>4. ASSUME NEW p \in Requests, pc[p] = "conflict", request[p].op = "update_user"
        PROVE  contested[p]
    <2>1. request[p] # NoRequest /\ Replaces(p) BY <1>4, DirectoryFacts, GroupsFacts
    <2> QED BY <1>4, <2>1 DEF Replaces
  <1>5. ASSUME NEW p \in Requests, pc[p] = "writing", todo[p] = <<>>,
               request[p].op = "update_user", ~contested[p]
        PROVE  LET after(k) == IF written[p][k] = Same THEN rows[k] ELSE written[p][k]
               IN  {g \in Groups : after(<<request[p].about, g>>) # NoRow} = D!Range(request[p].ask)
    <2>0. PICK e, asked : e = request[p].about /\ asked = D!Range(request[p].ask) OBVIOUS
    <2>1. request[p] # NoRequest /\ DirectoryRequest(request[p]) /\ Replaces(p)
      BY <1>5, DirectoryFacts, GroupsFacts
    <2>2. Replacing(p, e, asked) BY <1>5, <2>0, <2>1 DEF Replaces
    <2>3. DOMAIN todo[p] = {} BY <1>5
    <2>4. /\ \A g \in asked : Put(written[p][<<e, g>>])
          /\ \A g \in Groups : Put(written[p][<<e, g>>]) => g \in asked
          /\ \A g \in Groups : \/ Put(written[p][<<e, g>>])
                               \/ rows[<<e, g>>] = NoRow \/ written[p][<<e, g>>] = NoRow
      BY <2>2, <2>3 DEF Replacing, Inserts, Leaves, Deletes
    <2>5. \A g \in asked : g \in Groups
      <3>1. request[p].ask \in Seq(Groups) BY <1>5, <2>1 DEF DirectoryRequest, UserOps
      <3> QED BY <2>0, <3>1 DEF D!Range
    <2>6. \A g \in Groups :
             (IF written[p][<<e, g>>] = Same THEN rows[<<e, g>>] ELSE written[p][<<e, g>>]) # NoRow
             <=> g \in asked
      <3> TAKE g \in Groups
      <3>1. PICK j : j = <<e, g>> OBVIOUS
      <3>2. /\ g \in asked => Put(written[p][j])
            /\ Put(written[p][j]) => g \in asked
            /\ Put(written[p][j]) \/ rows[j] = NoRow \/ written[p][j] = NoRow
        BY <2>4, <3>1
      <3>3. Same # NoRow BY KindsOfKeys
      <3>4. (IF written[p][j] = Same THEN rows[j] ELSE written[p][j]) # NoRow <=> g \in asked
        BY <3>2, <3>3 DEF Put
      <3> QED BY <3>1, <3>4
    <2> QED BY <2>0, <2>5, <2>6
  <1> QED BY <1>3, <1>4, <1>5 DEF D!UncontestedGroups

\* A behaviour of the directory keeps all of it.
LEMMA GroupsInvariant ==
    ASSUME GroupsGiven
    PROVE  Spec => [](scope = "directory" => DirectoryInv /\ GroupsInv)
  <1>0. GroupsGiven /\ DirectoryGiven BY DEF GroupsGiven
  <1>1. ASSUME Init PROVE scope = "directory" => DirectoryInv /\ GroupsInv
    BY <1>0, <1>1, DirectoryStart, GroupsStart DEF Init
  <1>2. ASSUME scope = "directory" => DirectoryInv /\ GroupsInv, [Next]_vars
        PROVE  (scope = "directory" => DirectoryInv /\ GroupsInv)'
    <2>1. scope' = scope BY <1>2 DEF Next, vars
    <2>2. scope = "directory" => [D!Next]_D!vars
      BY <1>2 DEF Next, vars, ofDirectory, D!vars, D!txVars
    <2>3. ASSUME scope = "directory" PROVE DirectoryInv' /\ GroupsInv'
      <3>1. DirectoryInv /\ GroupsInv /\ [D!Next]_D!vars BY <1>2, <2>2, <2>3
      <3> QED BY <1>0, <3>1, DirectoryStay, GroupsStay
    <2> QED BY <2>1, <2>3
  <1> QED BY <1>1, <1>2, PTL DEF Spec

\* An association is of an account and a group that are there, no two groups share a name, and
\* a PATCH of the groups of a user leaves exactly those it asks for, unless another has changed
\* the same user or deleted one of them: what was checked before the transaction may be stale,
\* but the statements wait for those they depend on, and the deletions come before the rows
\* that replace them.
THEOREM GroupsAreReplaced ==
    ASSUME GroupsGiven
    PROVE  Spec => [](scope = "directory" => D!TypeOK /\ D!UncontestedGroups)
  <1>0. DirectoryGiven BY DEF GroupsGiven
  <1>1. (scope = "directory" => DirectoryInv /\ GroupsInv)
        => (scope = "directory" => D!TypeOK /\ D!UncontestedGroups)
    BY <1>0, GroupsMeans
  <1> QED BY <1>1, GroupsInvariant, PTL

-----------------------------------------------------------------------------
(* All modules together. *)

\* The module in scope has its types, by its own invariant, and no other module moves.
THEOREM ApiTypes ==
    ASSUME QuotaGiven, RoutingGiven, InboxGiven, GroupsGiven, PresetsGiven
    PROVE  Spec => []TypeOK
  <1> DEFINE Scoped == scope \in {"routing", "quota", "inbox", "directory", "presets"}
  <1>1. Init => Scoped BY DEF Init
  <1>2. Scoped /\ [Next]_vars => Scoped' BY DEF Next, vars
  <1>3. Spec => []Scoped BY <1>1, <1>2, PTL DEF Spec
  <1>4. (scope = "routing" => RoutingInv) => (scope = "routing" => R!TypeOK) BY Means
  <1>5. (scope = "quota" => QuotaInv) => (scope = "quota" => Q!TypeOK) BY QuotaMeans
  <1>6. (scope = "inbox" => InboxInv) => (scope = "inbox" => I!TypeOK) BY InboxMeans
  <1>7. (scope = "directory" => DirectoryInv /\ GroupsInv) => (scope = "directory" => D!TypeOK)
    BY GroupsMeans DEF GroupsGiven
  <1>8. (scope = "presets" => PresetsInv) => (scope = "presets" => P!TypeOK) BY PresetsMean
  <1>9. /\ Scoped
        /\ scope = "routing" => R!TypeOK
        /\ scope = "quota" => Q!TypeOK
        /\ scope = "inbox" => I!TypeOK
        /\ scope = "directory" => D!TypeOK
        /\ scope = "presets" => P!TypeOK
        => TypeOK
    BY DEF TypeOK
  <1> QED
    BY <1>3, <1>4, <1>5, <1>6, <1>7, <1>8, <1>9, RoutingInvariant, QuotaInvariant, InboxInvariant,
       GroupsInvariant, PresetsInvariant, PTL
=============================================================================
