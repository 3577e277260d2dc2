-------------------------------- MODULE Events --------------------------------
(***************************************************************************)
(* The life of ONE event: its organizers edit and delete it, administrators *)
(* decide about it, its owner chooses who else organizes it, and the people *)
(* registered for it are told when its times change.                        *)
(*                                                                         *)
(* Administrators lock the event row and write single columns.  Organizers  *)
(* read the row without a lock and save all of it.  A call is cut between   *)
(* that read and the COMMIT, and again before the hook that announces new   *)
(* times; a transaction that locks first is one step.                      *)
(*                                                                         *)
(* Left out: title, category, room (see Catalogue) and the other columns no *)
(* property is about, the roles staff and checkin (nothing writes them),    *)
(* and the lists and statistics, which only read.                           *)
(***************************************************************************)
EXTENDS Integers, FiniteSets

CONSTANTS
  Users,
  Creator,    \* the user who creates the event
  Instants,   \* a set of integers
  Statuses,   \* what an administrator may decide
  Edits,      \* what an organizer's edit may send
  Workers,
  Ops

VARIABLES
  row,         \* the event, NoRow before it is created
  role,        \* role[u]: the organizer_role of u's row in event_organizers
  removed,     \* the users whose row there is soft deleted
  decided,     \* the statuses decided in the moderation log
  told,        \* the times in the last announcement
  heard,       \* all that was announced since the times were last moved
  missed,      \* why this may not be, or not end with, the present times
  call         \* call[w]: the request worker w is serving

team == <<role, removed>>
news == <<told, heard, missed>>
vars == <<row, team, decided, news, call>>

BugOrganizerStatuses == {"draft", "cancelled"}         \* as the endpoint's doc says
OrganizerStatuses == {"draft", "active"}

TimeField == {"start", "end"}
NoRow == [status |-> "none"]
EventRow == [status: Statuses \cup OrganizerStatuses, deleted: BOOLEAN,
             start: Instants, end: Instants]
Times == [start: Instants, end: Instants]
TimesOf(r) == [start |-> r.start, end |-> r.end]

(* A cross-field check of the serializer (the three others are of the same   *)
(* form).  It sees the fields that were sent: all of them for a new event,   *)
(* some of them for an edit.                                               *)
InOrder(p) == TimeField \subseteq DOMAIN p => p["start"] < p["end"]

TimePatches == UNION {[D -> Instants] : D \in SUBSET TimeField}
Patches ==
  {p \in TimePatches : InOrder(p)}
  \cup {[x \in {"status"} |-> s] : s \in OrganizerStatuses}

ASSUME EventsAssumption ==
  /\ Creator \in Users
  /\ Instants \subseteq Int
  /\ Statuses \subseteq {"approved", "rejected", "cancelled", "archived", "active"}
  /\ Edits \subseteq Patches

Idle == [op |-> "none"]
Call ==
  {Idle}
  \cup [op: {"edit"}, copy: EventRow, patch: Edits]
  \cup [op: {"announce"}, times: Times]
  \cup [op: {"delete"}]
  \cup [op: {"add", "remove", "grant"}, user: Users]

Init ==
  /\ row = NoRow
  /\ role = [u \in Users |-> "none"] /\ removed = {}
  /\ decided = {}
  /\ told = NoRow /\ heard = {} /\ missed = {}
  /\ call = [w \in Workers |-> Idle]
------------------------------------------------------------------------------
Exists == row # NoRow
Live == Exists /\ ~row.deleted

HasRole(u, r) == role[u] = r /\ u \notin removed

IsOwner(u) == u = Creator \/ HasRole(u, "owner")
BugIsOrganizer(u) == u = Creator \/ role[u] # "none"       \* all_objects
IsOrganizer(u) == u = Creator \/ (role[u] # "none" /\ u \notin removed)

(* get_user_event_relation, what the event's public page tells its reader.  *)
Relation(u) ==
  CASE u = Creator \/ HasRole(u, "owner") -> "owner"
    [] u # Creator /\ HasRole(u, "co_host") -> "cohost"
    [] u # Creator /\ ~HasRole(u, "owner") /\ ~HasRole(u, "co_host") ->
         "registered or unregistered"

(* list_events asks for a row in event_organizers, deleted or not: a join    *)
(* does not go through the manager that hides deleted rows.                 *)
Listed(u) == Live /\ role[u] \in {"owner", "co_host"}

Begin(w, o) == call[w] = Idle /\ o \in Ops
Remember(w, c) == call' = [call EXCEPT ![w] = c]
Finish(w) == Remember(w, Idle)
------------------------------------------------------------------------------
(* create_event: the event and the row of its owner.                        *)
Create(w, p, s) ==
  /\ Begin(w, "create") /\ ~Exists
  /\ DOMAIN p = TimeField /\ InOrder(p)
  /\ row' = [status |-> s, deleted |-> FALSE,
             start |-> p["start"], end |-> p["end"]]
  /\ role' = [role EXCEPT ![Creator] = "owner"]
  /\ told' = [start |-> p["start"], end |-> p["end"]]
  /\ heard' = {told'}
  /\ UNCHANGED <<removed, decided, missed, call>>

(* update_event reads the event again after the view did, and later saves   *)
(* every column: those that were sent, and the others as it read them.     *)
EditRead(w, u, p) ==
  /\ Begin(w, "edit")
  /\ Live /\ IsOrganizer(u)
  /\ Remember(w, [op |-> "edit", copy |-> row, patch |-> p])
  /\ UNCHANGED <<row, team, decided, news>>

Edited(r, p) == [x \in DOMAIN r |-> IF x \in DOMAIN p THEN p[x] ELSE r[x]]

BugTimesMoved(old, new) == old.start # new.start
TimesMoved(old, new) == TimesOf(old) # TimesOf(new)

Announcing(w) == call[w].op = "announce"

(* What moves the times gives the announcement to on_commit; the announcement *)
(* of an earlier edit may still be about to be made.                        *)
EditCommit(w) ==
  LET old == call[w].copy
      new == Edited(old, call[w].patch)
  IN
  /\ call[w].op = "edit"
  /\ row' = new
  /\ \/ /\ TimesMoved(old, new)
        /\ heard' = {}
        /\ missed' = IF \E v \in Workers: Announcing(v) THEN {"overtaken"} ELSE {}
        /\ Remember(w, [op |-> "announce", times |-> TimesOf(new)])
     \/ /\ ~TimesMoved(old, new)
        /\ missed' = IF TimesOf(old) # TimesOf(row)
                     THEN missed \cup {"overwritten"} ELSE missed
        /\ UNCHANGED heard
        /\ Finish(w)
  /\ UNCHANGED <<team, decided, told>>

(* The hook, after COMMIT: the task that tells the people registered is      *)
(* enqueued, unless the worker or the broker is lost (see Fail).            *)
Announce(w) ==
  /\ Announcing(w)
  /\ told' = call[w].times /\ heard' = heard \cup {told'}
  /\ Finish(w)
  /\ UNCHANGED <<row, team, decided, missed>>

DeleteRead(w, u) ==
  /\ Begin(w, "delete")
  /\ Live /\ IsOrganizer(u)
  /\ Remember(w, [op |-> "delete"])
  /\ UNCHANGED <<row, team, decided, news>>

DeleteCommit(w) ==
  /\ call[w].op = "delete"
  /\ row' = [row EXCEPT !.deleted = TRUE]
  /\ Finish(w)
  /\ UNCHANGED <<team, decided, news>>
------------------------------------------------------------------------------
(* The administrator's update_event_status and delete_event.                *)
Decide(s) ==
  /\ "decide" \in Ops /\ Live
  /\ row' = [row EXCEPT !.status = s]
  /\ decided' = decided \cup {s}
  /\ UNCHANGED <<team, news, call>>

AdminDelete ==
  /\ "decide" \in Ops /\ Live
  /\ row' = [row EXCEPT !.deleted = TRUE]
  /\ UNCHANGED <<team, decided, news, call>>
------------------------------------------------------------------------------
(* The team.  Both changes begin with get_event and assert_event_owner.     *)
TeamRead(w, o, u, v) ==
  /\ Begin(w, o)
  /\ Live /\ IsOwner(u)
  /\ Remember(w, [op |-> o, user |-> v])
  /\ UNCHANGED <<row, team, decided, news>>

(* add_organizer_by_email locks the row, and makes or revives it.  An owner *)
(* or co-host who has one is left as is.                                   *)
AddCommit(w) ==
  LET v == call[w].user
      gone == role[v] = "none" \/ v \in removed
  IN
  /\ call[w].op = "add"
  /\ role' = IF gone THEN [role EXCEPT ![v] = "co_host"] ELSE role
  /\ removed' = removed \ {v}
  /\ Finish(w)
  /\ UNCHANGED <<row, decided, news>>

(* remove_organizer_by_email reads the row without a lock, then deletes it. *)
BugRemovableAny(v) == v # Creator                     \* no test that it exists
BugRemovable(v) == role[v] = "co_host" /\ v \notin removed
Removable(v) == BugRemovable(v) /\ v # Creator

RemoveRead(w, u, v) == Removable(v) /\ TeamRead(w, "remove", u, v)

RemoveCommit(w) ==
  /\ call[w].op = "remove"
  /\ removed' = removed \cup {call[w].user}
  /\ Finish(w)
  /\ UNCHANGED <<row, role, decided, news>>

(* grant_cohost_role_to_registration, for anybody who is registered (see     *)
(* Registrations), updates a live row or inserts one, which the unique index *)
(* refuses when there is a deleted row (see Fail).                          *)
GrantCommit(w) ==
  LET v == call[w].user IN
  /\ call[w].op = "grant"
  /\ v \notin removed
  /\ role' = [role EXCEPT ![v] = "co_host"]
  /\ Finish(w)
  /\ UNCHANGED <<row, removed, decided, news>>

(* The unique index refuses an INSERT, a connection, a worker or the broker   *)
(* is lost.                                                                 *)
Fail(w) ==
  /\ call[w] # Idle
  /\ missed' = IF Announcing(w) THEN missed \cup {"lost"} ELSE missed
  /\ Finish(w)
  /\ UNCHANGED <<row, team, decided, told, heard>>

Next ==
  \/ \E s \in Statuses: Decide(s)
  \/ AdminDelete
  \/ \E w \in Workers:
       \/ \E p \in TimePatches, s \in OrganizerStatuses: Create(w, p, s)
       \/ \E u \in Users, p \in Edits: EditRead(w, u, p)
       \/ EditCommit(w) \/ Announce(w)
       \/ \E u \in Users: DeleteRead(w, u)
       \/ DeleteCommit(w)
       \/ \E u, v \in Users:
            \/ TeamRead(w, "add", u, v)
            \/ RemoveRead(w, u, v)
            \/ TeamRead(w, "grant", u, v)
       \/ AddCommit(w) \/ RemoveCommit(w) \/ GrantCommit(w)
       \/ Fail(w)

Spec == Init /\ [][Next]_vars
------------------------------------------------------------------------------
(* Rows and calls are well formed, and only a row that exists is deleted.    *)
TypeOK ==
  /\ row \in EventRow \cup {NoRow}
  /\ role \in [Users -> {"none", "owner", "co_host"}]
  /\ removed \subseteq {u \in Users : role[u] # "none"}
  /\ decided \subseteq Statuses
  /\ told \in Times \cup {NoRow} /\ heard \subseteq Times
  /\ missed \subseteq {"lost", "overtaken", "overwritten"}
  /\ call \in [Workers -> Call]

(* A status other than draft and active was once decided by an administrator *)
(* and is in the moderation log, also when a stale edit brings it back.      *)
DecisionsLogged ==
  Exists => row.status \in {"draft", "active"} \cup decided

(* When no announcement is about to be made, the event's times were announced *)
(* since they were moved, unless an announcement was lost or an edit of       *)
(* something else wrote back times it had read before.  They were announced   *)
(* last, unless two announcements were to be made at once.                   *)
KnownTimes ==
  Exists /\ (\A w \in Workers: ~Announcing(w)) =>
    /\ TimesOf(row) \in heard \/ missed \cap {"lost", "overwritten"} # {}
    /\ told = TimesOf(row) \/ missed # {}

(* The event's creator stays in its team, also when a grant to the creator's *)
(* own registration has turned the owner's row into a co-host's.            *)
CreatorNeverRemoved == Exists => IsOrganizer(Creator) /\ Creator \notin removed

(* What the public page tells its readers agrees with what they may do, and  *)
(* whoever may organize the event finds it in the list of his events.        *)
RelationAgrees ==
  \A u \in Users:
    /\ Relation(u) = "owner" <=> IsOwner(u)
    /\ Relation(u) \in {"owner", "cohost"} <=> IsOrganizer(u)
    /\ Live /\ IsOrganizer(u) => Listed(u)

(* Two claims that the code does not keep (see the README).  "start_at must  *)
(* be before end_at" (Docs/Endpoint/organizer_event.md:330); "Only returns   *)
(* events where actor has owner, co-host, or staff role" (list_events).      *)
StartBeforeEnd == Exists => row.start < row.end
ListedForOrganizers == \A u \in Users: Listed(u) => IsOrganizer(u)
===============================================================================
