------------------------------- MODULE MCApi --------------------------------
(***************************************************************************)
(* The modules of the API with few values.  The inbox is checked in three  *)
(* parts, each of which leaves out what is in another.                     *)
(***************************************************************************)
EXTENDS Api, TLC

CONSTANTS
    c1, c2,             \* Routing: a channel in use and one to be created
    x, y,               \* Quota: a receiver and one to be created
    g, h,               \* Inbox and Directory: groups
    i1, i2, e1, e2,     \* Directory: two invitations to e1, and a user
    s1, s2, s3          \* Presets: one of the catalogue and two to be created

EveryOperation ==
    {"create_channel", "update_channel", "delete_channel", "bind_group_channel",
     "update_group_channel_binding", "unbind_group_channel", "create_receiver_override",
     "update_receiver_override", "delete_receiver_override", "ingest"}

OneChannel ==
    [channel |-> c1 :> [id |-> 0, enabled |-> TRUE] @@ c2 :> Unborn,
     binding |-> c1 :> [id |-> 0, min |-> 1, enabled |-> TRUE] @@ c2 :> NoRow,
     override |-> c1 :> [id |-> 0, mode |-> "override", min |-> 2] @@ c2 :> NoRow]

T(max_per_day, max_storage, cap) ==
    [max_per_day |-> max_per_day, max_storage |-> max_storage, cap |-> cap]

OneCap == x :> 2 @@ y :> NoRow
FewLimits == {T(Null, Null, 2), T(1, Null, 2), T(2, 3, 2)}
FewSettings ==
    {[max_per_day |-> 1], [max_per_day |-> Null, max_storage |-> 2], [cap |-> 1]}

OneInstant == <<1, 1, 1>>
OfNotifications == <<1, 1, 2>>
OfGroups == <<g, g, h>>

ToE1 == i1 :> e1 @@ i2 :> e1
OneMember ==
    i1 :> [id |-> 0, accepted |-> FALSE] @@ i2 :> Unborn @@
    e1 :> NoRow @@ e2 :> [id |-> 0, via |-> Null] @@
    g :> [id |-> 0, name |-> "a"] @@ h :> Unborn @@
    <<e1, g>> :> NoRow @@ <<e1, h>> :> NoRow @@
    <<e2, g>> :> [id |-> 0] @@ <<e2, h>> :> NoRow

Catalogue == <<"K", "L">>
OnePreset ==
    s1 :> [id |-> 0, builtin |-> "K", name |-> "K"] @@
    <<s1, 1>> :> [id |-> 0, factory |-> TRUE] @@
    <<s1, 2>> :> [id |-> 0, factory |-> FALSE] @@
    <<x, 0>> :> [id |-> 0, preset |-> s1] @@ <<x, 1>> :> NoRow @@
    s2 :> Unborn @@ s3 :> Unborn @@ TenantRow :> TRUE @@
    [k \in {s2, s3} \X {1, 2} |-> NoRow]

-----------------------------------------------------------------------------
(* The parts of the inbox. *)

VARIABLE part

Parts == IF scope = "inbox" THEN {"marks", "pages", "events"} ELSE {"whole"}

Busy == {request'[p] : p \in Requests} \ {NoRequest}

TrailKept == \A n \in DOMAIN trail' : trail'[n].kept

\* Every pair of operations on the notifications, without anybody listing.
Marks ==
    /\ listing' = Null /\ member' = {g, h}
    /\ started' <= 2
    /\ rows'[2] = Unborn
    /\ TrailKept

\* Every list of notifications and deliveries, with one bulk read.
Pages ==
    /\ listing' # Null => listing'.source \in {"notifications", "deliveries"}
    /\ started' <= 1 /\ member' # {h}
    /\ TrailKept
    /\ \A r \in Busy : r.op = "bulk" /\ r.groups = {g, h}

\* Every list of events, with requests that mark one notification, and a retention that
\* comes after the list has begun.
Events ==
    /\ listing' # Null => listing'.source \in {"audit", "export"}
    /\ listing = Null => TrailKept
    /\ member' = {g, h}
    /\ \A n \in {1, 2, 3} : rows'[n] # rows[n] => trail' # trail
    /\ \A r \in Busy : r.op = "mark" /\ r.ids = {1} /\ DOMAIN r.columns = {"status", "read_by"}

MCInit == Init /\ part \in Parts

MCNext ==
    /\ Next
    /\ CASE part = "marks" -> Marks
         [] part = "pages" -> Pages
         [] part = "events" -> Events
         [] part = "whole" -> TRUE
    /\ part' = part

MCSpec == MCInit /\ [][MCNext]_<<vars, part>>

\* No behaviour has both users and presets: they are exchanged together.
Exchange == LET other(k, twins) == CHOOSE twin \in twins : twin # k
            IN  [k \in Users \cup {s2, s3} |->
                    IF k \in Users THEN other(k, Users) ELSE other(k, {s2, s3})]

Interchangeable == Permutations(Requests) \cup {Exchange}
=============================================================================
