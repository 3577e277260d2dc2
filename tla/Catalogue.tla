------------------------------- MODULE Catalogue -------------------------------
(***************************************************************************)
(* Campuses, buildings and rooms, the categories of events, and the events  *)
(* that stand in them.  An administrator's DELETE counts what is alive below *)
(* a row: nothing, and the row is soft deleted; something, and the row and   *)
(* the places below it are deactivated instead.  No row is locked, so what   *)
(* was counted or validated may have changed by the time of the write.      *)
(*                                                                         *)
(* A change is cut between its last read and its first write.  One code     *)
(* stands for every unique column of a row (name, code, slug).              *)
(*                                                                         *)
(* Left out: the other columns, lists and counts, which are only read, and   *)
(* what else happens to an event (see Events).                              *)
(***************************************************************************)
CONSTANTS
  Campuses, Buildings, Rooms, Categories, Events,
  Codes,
  Blank,      \* the empty slug
  Clients

VARIABLES
  row,        \* row[x]: the row x of its table, NoRow before it is inserted
  change,     \* change[w]: the one that the client w has under way
  raced,      \* the rows that a change overlapping another left as orphans
  refused     \* why the unique indexes refused a write

catalogueVars == <<row, change, raced, refused>>

Places == Campuses \cup Buildings \cup Rooms
Managed == Places \cup Categories      \* what administrators manage
All == Managed \cup Events

Tables == <<Campuses, Buildings, Rooms, Categories, Events>>
ASSUME CatalogueAssumption ==
  /\ \A i, j \in DOMAIN Tables: i # j => Tables[i] \cap Tables[j] = {}
  /\ Blank \notin Codes

Table(x) == Tables[CHOOSE i \in DOMAIN Tables : x \in Tables[i]]

(* The rows the foreign keys of a row of x's table may point to.             *)
Parents(x) ==
  CASE x \in Campuses \cup Categories -> {{}}
    [] x \in Buildings -> {{c} : c \in Campuses}
    [] x \in Rooms -> {{b} : b \in Buildings}
    [] x \in Events -> {{k} : k \in Categories}
                       \cup {{k, r} : k \in Categories, r \in Rooms}

NoRow == [code |-> "none"]
Row == [above: SUBSET All, code: Codes \cup {Blank},
        active: BOOLEAN, deleted: BOOLEAN]

NoChange == [op |-> "none"]
Change ==
  {NoChange}
  \cup [op: {"create"}, id: All, new: Row, alone: BOOLEAN]
  \cup [op: {"patch"}, id: All, copy: Row, alone: BOOLEAN,
        patch: UNION {[{f} -> BOOLEAN \cup Codes \cup {Blank} \cup SUBSET All] :
                      f \in {"above", "code", "active"}}]
  \cup [op: {"drop", "close"}, id: All, alone: BOOLEAN]

CatalogueInit ==
  /\ row = [x \in All |-> NoRow]
  /\ change = [w \in Clients |-> NoChange]
  /\ raced = {} /\ refused = {}
------------------------------------------------------------------------------
Exists(x) == row[x] # NoRow
Live(x) == Exists(x) /\ ~row[x].deleted

(* Everything above a row, through deleted rows too: joins do not see that   *)
(* they are deleted.                                                       *)
Up(S) == S \cup UNION {row[y].above : y \in {z \in S : Exists(z)}}
Above(x) == Up(Up(Up({x}))) \ {x}

(* What stands directly under a deleted row.                                *)
Orphans ==
  {x \in All : Live(x) /\ \E y \in row[x].above : row[y].deleted}

BugBelow(x) ==                                \* only what is in use is counted
  {y \in All : Live(y) /\ row[y].active /\ x \in Above(y)}
Below(x) == {y \in All : Live(y) /\ x \in Above(y)}

(* What the unique indexes hold, and the serializers test before: no other   *)
(* row, deleted ones included, has the code (under the same parent).        *)
Indexed(x, r) ==
  x \in Managed =>
    \A y \in Table(x) \ {x}:
      Exists(y) => row[y].above # r.above \/ row[y].code # r.code

BugFits(x, r) ==                                  \* asks the default manager
  \A y \in Table(x) \ {x}:
    Live(y) => row[y].above # r.above \/ row[y].code # r.code
Fits(x, r) == Indexed(x, r)

(* The serializers' test of a foreign key that was sent.  A room need not be *)
(* active, nor must anything above it be.                                   *)
BugChosen(up) == \A y \in up: Exists(y)
Chosen(up) ==
  \A y \in up: Live(y) /\ (y \in Categories => row[y].active)

(* A client's request is taken; it and the others under way overlap.        *)
NothingElse(w) == \A v \in Clients \ {w}: change[v] = NoChange
StartChange(w, c) ==
  /\ change' = [v \in Clients |->
       IF v = w THEN c
       ELSE IF change[v] = NoChange THEN NoChange
       ELSE [change[v] EXCEPT !.alone = FALSE]]
  /\ UNCHANGED <<row, raced, refused>>

EndChange(w) == change' = [change EXCEPT ![w] = NoChange]
Race(w) == raced' = IF change[w].alone THEN raced ELSE raced \cup Orphans'
Refuse(w, why) ==
  /\ refused' = refused \cup {IF change[w].alone THEN why ELSE "race"}
  /\ UNCHANGED <<row, raced>>
------------------------------------------------------------------------------
(* create_campus, create_building, create_room, create_category and          *)
(* create_event, after the serializer.  A category's slug is one nobody has. *)
CreateRead(w, x, new) ==
  /\ Chosen(new.above) /\ Fits(x, new)
  /\ StartChange(w, [op |-> "create", id |-> x, new |-> new,
                     alone |-> NothingElse(w)])

CreateCommit(w) ==
  LET x == change[w].id
      new == change[w].new
  IN
  /\ change[w].op = "create" /\ ~Exists(x)
  /\ \/ /\ Indexed(x, new)
        /\ row' = [row EXCEPT ![x] = new]
        /\ Race(w) /\ UNCHANGED refused
     \/ ~Indexed(x, new) /\ Refuse(w, "checked")
  /\ EndChange(w)

Patched(r, p) ==
  [f \in DOMAIN r |-> IF f \in DOMAIN p THEN p[f] ELSE r[f]]

Patches(x) ==
  [{"above"} -> Parents(x) \ {{}}]
  \cup (IF x \in Managed
        THEN [{"active"} -> BOOLEAN] \cup [{"code"} -> Codes] ELSE {})
  \cup (IF x \in Categories THEN [{"code"} -> {Blank}] ELSE {})

(* PATCH.  The slug of a category may be sent blank, which is not tested.    *)
PatchRead(w, x, p) ==
  LET new == Patched(row[x], p) IN
  /\ Chosen(new.above \ row[x].above)
  /\ new.code = Blank \/ Fits(x, new)
  /\ StartChange(w, [op |-> "patch", id |-> x, copy |-> row[x], patch |-> p,
                     alone |-> NothingElse(w)])

(* update_campus and the like save only the fields that were sent;           *)
(* update_event saves the whole row as it was read.                         *)
BugSaved(c) == Patched(c.copy, c.patch)
Saved(c) ==
  Patched(IF c.id \in Events THEN c.copy ELSE row[c.id], c.patch)

(* The service reads the row again after it saved it, in the same            *)
(* transaction: a row deleted meanwhile is not found and nothing is changed. *)
PatchCommit(w) ==
  LET x == change[w].id
      new == Saved(change[w])
  IN
  /\ change[w].op = "patch"
  /\ \/ /\ ~new.deleted /\ Indexed(x, new)
        /\ row' = [row EXCEPT ![x] = new]
        /\ Race(w) /\ UNCHANGED refused
     \/ /\ ~Indexed(x, new)
        /\ Refuse(w, IF new.code = Blank THEN "blank" ELSE "checked")
     \/ new.deleted /\ UNCHANGED <<row, raced, refused>>
  /\ EndChange(w)

(* delete_campus, delete_building, delete_room, delete_category: the counts; *)
(* an event is deleted without one.                                        *)
DeleteRead(w, x) ==
  StartChange(w, [op |-> IF x \in Managed /\ Below(x) # {} THEN "close" ELSE "drop",
                  id |-> x, alone |-> NothingElse(w)])

DropCommit(w) ==
  LET x == change[w].id IN
  /\ change[w].op = "drop"
  /\ row' = [row EXCEPT ![x].deleted = TRUE]
  /\ Race(w)
  /\ EndChange(w) /\ UNCHANGED refused

(* The UPDATEs go to the live places at and below x; a category is saved by  *)
(* its primary key, deleted or not.                                        *)
Closed(x) ==
  IF x \in Categories THEN {x}
  ELSE {y \in Places : Live(y) /\ x \in Above(y) \cup {y}}

DeactivateCommit(w) ==
  /\ change[w].op = "close"
  /\ row' = [x \in All |-> IF x \in Closed(change[w].id)
                           THEN [row[x] EXCEPT !.active = FALSE] ELSE row[x]]
  /\ EndChange(w) /\ UNCHANGED <<raced, refused>>

(* A connection or a worker is lost before COMMIT.                           *)
Fail(w) ==
  /\ change[w] # NoChange
  /\ EndChange(w) /\ UNCHANGED <<row, raced, refused>>

NewRows(x) ==
  {r \in [above: Parents(x), code: Codes, active: BOOLEAN, deleted: {FALSE}] :
     x \in Events => r.active}

(* What a view serves for a row of its table.                               *)
Serve(w, x) ==
  /\ change[w] = NoChange
  /\ \/ ~Exists(x) /\ \E new \in NewRows(x): CreateRead(w, x, new)
     \/ Live(x) /\ \E p \in Patches(x): PatchRead(w, x, p)
     \/ Live(x) /\ DeleteRead(w, x)

CampusRequest(w) == \E x \in Campuses: Serve(w, x)
BuildingRequest(w) == \E x \in Buildings: Serve(w, x)
RoomRequest(w) == \E x \in Rooms: Serve(w, x)
CategoryRequest(w) == \E x \in Categories: Serve(w, x)
EventRequest(w) == \E x \in Events: Serve(w, x)

CatalogueNext ==
  \E w \in Clients:
    \/ CampusRequest(w) \/ BuildingRequest(w) \/ RoomRequest(w)
    \/ CategoryRequest(w) \/ EventRequest(w)
    \/ CreateCommit(w) \/ PatchCommit(w) \/ DropCommit(w) \/ DeactivateCommit(w)
    \/ Fail(w)

CatalogueSpec == CatalogueInit /\ [][CatalogueNext]_catalogueVars
------------------------------------------------------------------------------
(* Nothing that is alive points to a deleted row, unless a change that        *)
(* overlapped another put it there: one change at a time, what is counted     *)
(* and validated is enough.                                                *)
OrphansOnlyByRaces == Orphans \subseteq raced

(* A unique index refuses a write (a 500) only when two calls overlap, or    *)
(* when a slug was sent blank: the serializers' tests cover the indexes.    *)
ChecksCoverIndexes == "checked" \notin refused

(* A deleted place or category stays deleted, and an inactive one becomes    *)
(* active only by a PATCH that sent is_active: no stale copy is written back.*)
OnlyAskedToReturn ==
  [][\A x \in Managed: Exists(x) =>
       /\ row[x].deleted => row'[x].deleted
       /\ ~row[x].active /\ row'[x].active =>
            \E w \in Clients:
              change[w].op = "patch" /\ change[w].id = x
                /\ "active" \in DOMAIN change[w].patch]_catalogueVars
------------------------------------------------------------------------------
(* The rooms that organizers are shown: active, in an active building of an   *)
(* active campus.                                                          *)
Offered == {r \in Rooms : Live(r) /\ \A y \in Above(r) \cup {r} : row[y].active}

(* A claim the code does not keep.  RoomListView offers these rooms "for      *)
(* event creation" (locations/views.py:16), but the serializer of an event    *)
(* accepts any room that is not deleted.                                    *)
BookedWhereOffered ==
  [][\A e \in Events:
       LET had == IF Exists(e) THEN row[e].above ELSE {} IN
       Exists(e)' => row'[e].above \cap Rooms \subseteq had \cup Offered]_catalogueVars
===============================================================================
