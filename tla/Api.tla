--------------------------------- MODULE Api ----------------------------------
(***************************************************************************)
(* The modules of the API side by side: routing, quotas, inbox, directory  *)
(* and presets.  They share no row, so a behaviour is one of one of them:  *)
(* its scope, chosen at the start, says which, and the variables of the    *)
(* others stay Null.                                                       *)
(***************************************************************************)
EXTENDS Naturals, Sequences, FiniteSets

\* The constants of the modules, each described there.
CONSTANTS
    Requests, MaxRequests, Unborn, NoRow, NoRequest, Same, Null,
    Channels, Severities, Operations, InitialTables,
    Receivers, Caps, Sizes, InitialCaps, InitialTenants, Settings,
    Notifications, Present, ReceivedAt, Deliveries, NotificationOf, Groups, GroupOf, Users,
    Limit, ExportMax,
    Emails, Invitations, EmailOf, GroupNames, InitialDirectory,
    Presets, BUILTIN_PRESETS, PresetNames, Priorities, Factory, Positions, Receiver, TenantRow,
    InitialPresets

VARIABLES
    scope,
    rows, written, request, pc, todo, started,
    deliveries, inserted, purged, read, overtaken,
    tenant, caps, stored, locks, changed,
    trail, member, listing,
    expired, contested

ofRouting == <<deliveries, inserted, purged, read, overtaken>>
ofQuota == <<tenant, caps, stored, locks, changed>>
ofInbox == <<trail, member, listing>>
ofDirectory == <<expired, contested>>

R == INSTANCE Routing WITH InitialRows <- InitialTables
Q == INSTANCE Quota
I == INSTANCE Inbox
D == INSTANCE Directory WITH Names <- GroupNames, InitialRows <- InitialDirectory
P == INSTANCE Presets WITH Names <- PresetNames, InitialRows <- InitialPresets

vars == <<scope, rows, written, request, pc, todo, started,
          ofRouting, ofQuota, ofInbox, ofDirectory>>

NoRouting ==
    deliveries = Null /\ inserted = Null /\ purged = Null /\ read = Null /\ overtaken = Null

NoQuota == tenant = Null /\ caps = Null /\ stored = Null /\ locks = Null /\ changed = Null
NoInbox == trail = Null /\ member = Null /\ listing = Null
NoDirectory == expired = Null /\ contested = Null

Init ==
    \/ /\ scope = "routing" /\ R!Init
       /\ NoQuota /\ NoInbox /\ NoDirectory
    \/ /\ scope = "quota" /\ Q!Init
       /\ rows = Null /\ written = Null
       /\ NoRouting /\ NoInbox /\ NoDirectory
    \/ /\ scope = "inbox" /\ I!Init
       /\ NoRouting /\ NoQuota /\ NoDirectory
    \/ /\ scope = "directory" /\ D!Init
       /\ NoRouting /\ NoQuota /\ NoInbox
    \/ /\ scope = "presets" /\ P!Init
       /\ NoRouting /\ NoQuota /\ NoInbox /\ expired = Null

Next ==
    \/ /\ scope = "routing" /\ R!Next
       /\ UNCHANGED <<scope, ofQuota, ofInbox, ofDirectory>>
    \/ /\ scope = "quota" /\ Q!Next
       /\ UNCHANGED <<scope, rows, written, ofRouting, ofInbox, ofDirectory>>
    \/ /\ scope = "inbox" /\ I!Next
       /\ UNCHANGED <<scope, ofRouting, ofQuota, ofDirectory>>
    \/ /\ scope = "directory" /\ D!Next
       /\ UNCHANGED <<scope, ofRouting, ofQuota, ofInbox>>
    \/ /\ scope = "presets" /\ P!Next
       /\ UNCHANGED <<scope, ofRouting, ofQuota, ofInbox, expired>>

Spec == Init /\ [][Next]_vars

-----------------------------------------------------------------------------
(* The properties of the modules. *)

\* The variables of the module in scope have their types.
TypeOK ==
    CASE scope = "routing" -> R!TypeOK
      [] scope = "quota" -> Q!TypeOK
      [] scope = "inbox" -> I!TypeOK
      [] scope = "directory" -> D!TypeOK
      [] scope = "presets" -> P!TypeOK

\* A constraint refuses a request only when another has come in between: in the
\* configuration of channels and in the presets.
RefusalsHaveACause ==
    /\ scope = "routing" => R!RefusalsHaveACause
    /\ scope = "presets" => P!RefusalsHaveACause

\* An ingestion that one commit overtakes goes to the channels of the configuration before
\* it or after it, though it reads them in three statements.
RoutedByOneConfiguration == [][scope = "routing" => R!FollowsOneConfiguration]_vars

\* A send that is stored leaves its tenant within the limits of a day and of the storage.
QuotaHolds == [][scope = "quota" => Q!StoredWithin]_vars

\* No receiver accepts a body larger than its tenant's cap.
CapHolds == scope = "quota" => Q!CapHolds

\* Sends, the job of the surveillance and the changes of a limit do not wait in a circle.
SendsNeverDeadlock == scope = "quota" => Q!SendsNeverDeadlock

\* Who turns the pages of a list to the end meets what stays in it once and in order.
ListedOnce == scope = "inbox" => I!ListedOnce

\* A notification is read or verified as the last event of the audit about it says.
TrailTellsTheState == scope = "inbox" => I!TrailTellsTheState

\* An accepted invitation is the account of its e-mail, whoever accepts at the same time.
InvitationIsSpentOnce == scope = "directory" => D!InvitationIsSpentOnce

\* A request that replaces a set of rows leaves the set it was given: the groups of a
\* user, the rules of a preset, the presets of a receiver.
ReplacedAsAsked ==
    /\ scope = "directory" => D!UncontestedGroups
    /\ scope = "presets" => P!PresetsAsAsked
=============================================================================
