------------------------------ MODULE UserRoles ------------------------------
(***************************************************************************)
(* The roles of ONE user and the user's requests to become an organizer.   *)
(* Five services write the user_roles table: the login (role sync from the  *)
(* Keycloak token), the approval of an organizer request, and the          *)
(* administrator's role sync, assignment and removal.  Rows are soft        *)
(* deleted, but two unique indexes see deleted rows too: one row per role,  *)
(* one primary row per user.  A write that violates one rolls back.        *)
(*                                                                         *)
(* A call is cut between its reads (and the row locks it takes) and its     *)
(* commit.  Login and the reviews of a request lock the user's row; an      *)
(* INSERT into a child table waits for it at commit (foreign key).          *)
(*                                                                         *)
(* Left out: is_active of roles, assigned_by, review notes, audit rows and *)
(* the notifications sent after commit.                                     *)
(***************************************************************************)
EXTENDS Integers, FiniteSets, Sequences

CONSTANTS
  Roles,              \* the codes of the roles table
  Student, Organizer, \* two of them
  Requests,           \* bound: requests the user may make
  Workers,
  Ops,                \* the operations this instance serves
  LoginLists,         \* role codes a token may map to, in order
  SyncLists           \* lists an administrator may ask for

VARIABLES
  alive,    \* roles with a row that is not deleted
  gone,     \* roles with a soft-deleted row
  primary,  \* roles whose row, deleted or not, has is_primary
  request,  \* request[q]: status of request q, "none" before it is made
  call      \* call[w]: the call worker w is serving

roles == <<alive, gone, primary>>
vars == <<alive, gone, primary, request, call>>

CodesOf(list) == {list[i] : i \in DOMAIN list}
AllOps == {"login", "assign", "remove", "sync", "create", "cancel", "reject",
           "approve"}
RequestStatus == {"none", "pending", "approved", "rejected", "cancelled"}

Idle == [op |-> "none", rows |-> {}]
Call ==
  {Idle}
  \cup [op: {"assign"}, rows: {{}}, role: Roles, first: BOOLEAN]
  \cup [op: {"remove"}, rows: {{}}, role: Roles, lost: BOOLEAN]
  \cup [op: {"sync"}, rows: SUBSET Roles, list: SyncLists]
  \cup [op: {"login"}, rows: SUBSET Roles, list: LoginLists, hasPrimary: BOOLEAN]
  \cup [op: {"create"}, rows: {{}}]
  \cup [op: {"cancel", "reject"}, rows: {{}}, req: Requests]
  \cup [op: {"approve"}, rows: SUBSET Roles, req: Requests,
        at: {"request_locked", "rows_locked"}]

ASSUME RolesAssumption ==
  /\ Student \in Roles /\ Organizer \in Roles /\ Student # Organizer
  /\ Ops \subseteq AllOps
  /\ LoginLists \subseteq Seq(Roles) /\ SyncLists \subseteq Seq(Roles)

Init ==
  /\ alive = {} /\ gone = {} /\ primary = {}
  /\ request = [q \in Requests |-> "none"]
  /\ call = [w \in Workers |-> Idle]
------------------------------------------------------------------------------
(* Locks and uniqueness.                                                    *)
Existing == alive \cup gone

HoldsUser(w) == call[w].op \in {"login", "cancel", "reject", "approve"}
BugUserFree(w) == TRUE                        \* reviews without row locks
UserFree(w) == \A o \in Workers \ {w}: ~HoldsUser(o)
RowsFree(w, rs) == \A o \in Workers \ {w}: call[o].rows \cap rs = {}

(* Setting is_primary on rs would leave two primary rows.                   *)
BugTwoPrimaries(rs) == FALSE                  \* no partial unique index
TwoPrimaries(rs) == Cardinality(primary \cup rs) > 1

Begin(w, o) == call[w] = Idle /\ o \in Ops
Remember(w, c) == call' = [call EXCEPT ![w] = c]
Finish(w) == Remember(w, Idle)
------------------------------------------------------------------------------
(* assign_role: both checks, then the INSERT.                               *)
AssignRead(w, r) ==
  /\ Begin(w, "assign")
  /\ r \notin alive
  /\ Remember(w, [op |-> "assign", rows |-> {}, role |-> r, first |-> alive = {}])
  /\ UNCHANGED <<roles, request>>

AssignCommit(w) ==
  LET r == call[w].role
      marked == IF call[w].first THEN {r} ELSE {}
      refused == r \in Existing \/ TwoPrimaries(marked)
  IN
  /\ call[w].op = "assign"
  /\ UserFree(w)
  /\ \/ /\ ~refused
        /\ alive' = alive \cup {r}
        /\ primary' = primary \cup marked
        /\ UNCHANGED gone
     \/ /\ refused
        /\ UNCHANGED roles
  /\ Finish(w)
  /\ UNCHANGED request

(* remove_role: the row is read without a lock and soft deleted; `lost'     *)
(* when it was hard deleted in between (the UPDATE then finds no row).      *)
MayRemove(r) == r \in alive \ primary

RemoveRead(w, r) ==
  /\ Begin(w, "remove")
  /\ MayRemove(r)
  /\ Remember(w, [op |-> "remove", rows |-> {}, role |-> r, lost |-> FALSE])
  /\ UNCHANGED <<roles, request>>

RemoveCommit(w) ==
  LET r == call[w].role IN
  /\ call[w].op = "remove"
  /\ RowsFree(w, {r})
  /\ alive' = IF call[w].lost THEN alive ELSE alive \ {r}
  /\ gone' = IF call[w].lost THEN gone ELSE gone \cup {r}
  /\ Finish(w)
  /\ UNCHANGED <<primary, request>>
------------------------------------------------------------------------------
(* _sync_user_roles: every row is locked, those not asked for are hard      *)
(* deleted, the others are restored or created in the order of the list.    *)
SyncLock(w, list) ==
  /\ Begin(w, "sync")
  /\ RowsFree(w, Existing)
  /\ Remember(w, [op |-> "sync", rows |-> Existing, list |-> list])
  /\ UNCHANGED <<roles, request>>

(* The primary role stays when it is asked for, else the first of the list. *)
BugSyncTarget(w) == call[w].rows \cap alive \cap primary   \* dropped with row
SyncTarget(w) ==
  LET list == call[w].list
      kept == call[w].rows \cap alive \cap primary \cap CodesOf(list)
  IN IF kept # {} \/ list = <<>> THEN kept ELSE {list[1]}

(* The rows are written in the order of the list, so a row that comes after *)
(* the target still has its is_primary when the target gets its own.        *)
SyncRefused(w) ==
  LET list == call[w].list
      rows == call[w].rows
      Cleared(p, t) == /\ p \in rows
                       /\ \E i, j \in DOMAIN list: list[i] = p /\ list[j] = t /\ i < j
  IN \/ (CodesOf(list) \ rows) \cap Existing # {}
     \/ \E t \in SyncTarget(w), p \in primary \ (rows \ CodesOf(list)):
          p # t /\ ~Cleared(p, t)

SyncCommit(w) ==
  LET wanted == CodesOf(call[w].list)
      removed == call[w].rows \ wanted
      kept == wanted \cap call[w].rows
  IN
  /\ call[w].op = "sync"
  /\ kept # wanted => UserFree(w)
  /\ \/ /\ ~SyncRefused(w)
        /\ alive' = (alive \ removed) \cup wanted
        /\ gone' = gone \ call[w].rows
        /\ primary' = (primary \ call[w].rows) \cup SyncTarget(w)
        /\ call' = [o \in Workers |->
             IF o = w THEN Idle
             ELSE IF call[o].op = "remove" /\ call[o].role \in removed
                  THEN [call[o] EXCEPT !.lost = TRUE]
                  ELSE call[o]]
     \/ /\ SyncRefused(w)
        /\ UNCHANGED roles
        /\ Finish(w)
  /\ UNCHANGED request
------------------------------------------------------------------------------
(* sync_roles_from_payload, inside the transaction that holds the identity  *)
(* and the user.  Without a mapped role the default one is ensured.         *)
Wanted(list) == IF list = <<>> THEN {Student} ELSE CodesOf(list)

LoginLock(w, list) ==
  LET rows == Wanted(list) \cap Existing IN
  /\ Begin(w, "login")
  /\ UserFree(w)
  /\ list = <<>> => alive = {}
  /\ RowsFree(w, rows)
  /\ Remember(w, [op |-> "login", rows |-> rows, list |-> list,
                  hasPrimary |-> alive \cap primary # {}])
  /\ UNCHANGED <<roles, request>>

(* Roles that get is_primary.  A restored row that already has it does not  *)
(* count as the primary role, so the next one is marked as well.            *)
LoginMarks(w) ==
  LET list == call[w].list IN
  IF call[w].hasPrimary THEN {}
  ELSE IF list = <<>> THEN {Student}
  ELSE IF list[1] \in primary \cap call[w].rows /\ Len(list) > 1 THEN {list[2]}
  ELSE {list[1]}

LoginCommit(w) ==
  LET wanted == Wanted(call[w].list)
      refused == \/ (wanted \ call[w].rows) \cap Existing # {}
                 \/ TwoPrimaries(LoginMarks(w))
  IN
  /\ call[w].op = "login"
  /\ \/ /\ ~refused
        /\ alive' = alive \cup wanted
        /\ gone' = gone \ wanted
        /\ primary' = primary \cup LoginMarks(w)
     \/ /\ refused
        /\ UNCHANGED roles
  /\ Finish(w)
  /\ UNCHANGED request
------------------------------------------------------------------------------
(* create_request: two checks without locks, then the INSERT.               *)
RequestRead(w) ==
  /\ Begin(w, "create")
  /\ Organizer \notin alive
  /\ \A q \in Requests: request[q] # "pending"
  /\ Remember(w, [op |-> "create", rows |-> {}])
  /\ UNCHANGED <<roles, request>>

RequestCommit(w) ==
  /\ call[w].op = "create"
  /\ UserFree(w)
  /\ \/ /\ \A q \in Requests: request[q] # "pending"
        /\ \E q \in Requests: /\ request[q] = "none"
                              /\ request' = [request EXCEPT ![q] = "pending"]
     \/ /\ \E q \in Requests: request[q] = "pending"  \* unique index
        /\ UNCHANGED request
  /\ Finish(w)
  /\ UNCHANGED roles

(* cancel_request and reject_request: lock, check, write.                   *)
Reviewable(q) == request[q] = "pending"

CloseLock(w, q, o) ==
  /\ Begin(w, o)
  /\ Reviewable(q)
  /\ UserFree(w)
  /\ Remember(w, [op |-> o, rows |-> {}, req |-> q])
  /\ UNCHANGED <<roles, request>>

CloseCommit(w) ==
  /\ call[w].op \in {"cancel", "reject"}
  /\ request' = [request EXCEPT ![call[w].req] =
                   IF call[w].op = "cancel" THEN "cancelled" ELSE "rejected"]
  /\ Finish(w)
  /\ UNCHANGED roles

(* approve_request: the request and the user, every role row, the write.    *)
ApproveLock(w, q) ==
  /\ Begin(w, "approve")
  /\ Reviewable(q)
  /\ UserFree(w)
  /\ Remember(w, [op |-> "approve", rows |-> {}, req |-> q,
                  at |-> "request_locked"])
  /\ UNCHANGED <<roles, request>>

ApproveLockRows(w) ==
  /\ call[w].op = "approve" /\ call[w].at = "request_locked"
  /\ RowsFree(w, Existing)
  /\ call' = [call EXCEPT ![w].rows = Existing, ![w].at = "rows_locked"]
  /\ UNCHANGED <<roles, request>>

Revived == alive \cup {Organizer}

ApproveCommit(w) ==
  /\ call[w].op = "approve" /\ call[w].at = "rows_locked"
  /\ alive' = Revived
  /\ gone' = gone \ {Organizer}
  /\ primary' = {Organizer}
  /\ request' = [request EXCEPT ![call[w].req] = "approved"]
  /\ Finish(w)
------------------------------------------------------------------------------
(* The call is a deadlock victim, or its connection or worker is lost: its  *)
(* transaction rolls back.                                                  *)
Abort(w) ==
  /\ call[w] # Idle
  /\ Finish(w)
  /\ UNCHANGED <<roles, request>>

Next ==
  \E w \in Workers:
    \/ \E r \in Roles: AssignRead(w, r) \/ RemoveRead(w, r)
    \/ AssignCommit(w) \/ RemoveCommit(w)
    \/ \E list \in SyncLists: SyncLock(w, list)
    \/ SyncCommit(w)
    \/ \E list \in LoginLists: LoginLock(w, list)
    \/ LoginCommit(w)
    \/ RequestRead(w) \/ RequestCommit(w)
    \/ \E q \in Requests: \/ \E o \in {"cancel", "reject"}: CloseLock(w, q, o)
                          \/ ApproveLock(w, q)
    \/ CloseCommit(w) \/ ApproveLockRows(w) \/ ApproveCommit(w)
    \/ Abort(w)

Spec == Init /\ [][Next]_vars
------------------------------------------------------------------------------
(* A role has at most one row, only rows are primary and at most one is     *)
(* (the two unique indexes), and calls remember what their kind reads.      *)
TypeOK ==
  /\ alive \subseteq Roles /\ gone \subseteq Roles /\ alive \cap gone = {}
  /\ primary \subseteq Existing /\ Cardinality(primary) <= 1
  /\ request \in [Requests -> RequestStatus]
  /\ call \in [Workers -> Call]

(* "Each user has exactly one primary role": whoever has roles has exactly *)
(* one primary among those not deleted, and no deleted row keeps the flag,  *)
(* which would bar every later primary role.                                *)
OnePrimaryRole == primary \subseteq alive /\ (alive # {} => primary # {})

(* Three races alone break that: remove_role on a row that has become       *)
(* primary since it was read; an empty role list that removes the primary   *)
(* row, but not a role that came since it read the rows; and a role that is  *)
(* added without the flag, by a call that saw others, when there are none    *)
(* left.  No other race of logins, assignments, syncs and approvals does.    *)
OnlyKnownRacesLosePrimary ==
  [][OnePrimaryRole /\ ~OnePrimaryRole' =>
       \E w \in Workers:
         /\ call'[w] = Idle
         /\ \/ call[w].op = "remove" /\ call[w].role \in primary
            \/ /\ call[w].op = "sync" /\ call[w].list = <<>>
               /\ ~(alive \subseteq call[w].rows)
            \/ call[w].op = "assign" /\ ~call[w].first /\ alive = {}
            \/ call[w].op = "login" /\ call[w].hasPrimary /\ alive = {}]_vars

(* "Only a pending request can be approved / rejected / cancelled": what    *)
(* was decided stays decided, whoever reviews at the same time.             *)
DecidedOnce ==
  [][\A q \in Requests: request[q] \in {"approved", "rejected", "cancelled"}
       => request'[q] = request[q]]_vars
==============================================================================
