------------------------- MODULE AdministrationProofs -------------------------
(***************************************************************************)
(* Theorems about what administrators keep: the roles of a user, the places  *)
(* and categories, the support tickets, the help center and the legal        *)
(* documents.  They hold for any rows, any number of requests at a time and  *)
(* any bound on the days and on the times of publication.                    *)
(*                                                                         *)
(* Each part has one inductive invariant (RolesInv, CatalogueInv, TicketInv, *)
(* HelpInv), one lemma per write that needs more than a line, and then the   *)
(* theorems.                                                                *)
(***************************************************************************)
EXTENDS UserRoles, Catalogue, SupportTickets, HelpCenter, FiniteSetTheorems, TLAPS

------------------------------------------------------------------------------
(* UserRoles                                                                 *)

(* A review holds the user's row from its check of the request to its write,  *)
(* so that no other review decides the request in between.                   *)
Reviews(w) == call[w].op \in {"cancel", "reject", "approve"}

RolesInv ==
  /\ alive \subseteq Roles /\ gone \subseteq Roles /\ alive \cap gone = {}
  /\ primary \subseteq Existing
  /\ \A r, s \in primary: r = s
  /\ request \in [Requests -> RequestStatus]
  /\ call \in [Workers -> Call]
  /\ \A v, w \in Workers: HoldsUser(v) /\ HoldsUser(w) => v = w
  /\ \A w \in Workers: Reviews(w) => request[call[w].req] = "pending"

LEMMA CallForms ==
  ASSUME NEW c \in Call
  PROVE  /\ c.rows \subseteq Roles
         /\ c.op \in {"assign", "remove"} => c.role \in Roles
         /\ c.op = "assign" => c.first \in BOOLEAN
         /\ c.op = "remove" => c.lost \in BOOLEAN /\ c = [op |-> "remove", rows |-> {},
                                 role |-> c.role, lost |-> c.lost]
         /\ c.op = "sync" => c.list \in SyncLists
         /\ c.op = "login" => c.list \in LoginLists /\ c.hasPrimary \in BOOLEAN
         /\ c.op \in {"cancel", "reject", "approve"} => c.req \in Requests
         /\ c.op = "approve" => c = [op |-> "approve", rows |-> c.rows, req |-> c.req,
                                     at |-> c.at]
<1>1. CASE c = Idle BY <1>1 DEF Idle
<1>2. CASE c \in [op: {"assign"}, rows: {{}}, role: Roles, first: BOOLEAN]
  BY <1>2
<1>3. CASE c \in [op: {"remove"}, rows: {{}}, role: Roles, lost: BOOLEAN]
  BY <1>3
<1>4. CASE c \in [op: {"sync"}, rows: SUBSET Roles, list: SyncLists]
  BY <1>4
<1>5. CASE c \in [op: {"login"}, rows: SUBSET Roles, list: LoginLists, hasPrimary: BOOLEAN]
  BY <1>5
<1>6. CASE c \in [op: {"create"}, rows: {{}}] BY <1>6
<1>7. CASE c \in [op: {"cancel", "reject"}, rows: {{}}, req: Requests] BY <1>7
<1>8. CASE c \in [op: {"approve"}, rows: SUBSET Roles, req: Requests,
                  at: {"request_locked", "rows_locked"}]
  BY <1>8
<1> QED BY <1>1, <1>2, <1>3, <1>4, <1>5, <1>6, <1>7, <1>8 DEF Call

LEMMA CallsOf ==
  /\ Idle \in Call
  /\ \A r \in Roles, b \in BOOLEAN:
       /\ [op |-> "assign", rows |-> {}, role |-> r, first |-> b] \in Call
       /\ [op |-> "remove", rows |-> {}, role |-> r, lost |-> b] \in Call
  /\ \A rs \in SUBSET Roles:
       /\ \A l \in SyncLists: [op |-> "sync", rows |-> rs, list |-> l] \in Call
       /\ \A l \in LoginLists, b \in BOOLEAN:
            [op |-> "login", rows |-> rs, list |-> l, hasPrimary |-> b] \in Call
       /\ \A q \in Requests, a \in {"request_locked", "rows_locked"}:
            [op |-> "approve", rows |-> rs, req |-> q, at |-> a] \in Call
  /\ [op |-> "create", rows |-> {}] \in Call
  /\ \A q \in Requests, o \in {"cancel", "reject"}:
       [op |-> o, rows |-> {}, req |-> q] \in Call
BY DEF Call

LEMMA LostForm ==
  ASSUME NEW c \in Call, c.op = "remove"
  PROVE  [c EXCEPT !.lost = TRUE] \in Call /\ [c EXCEPT !.lost = TRUE].op = "remove"
<1> DEFINE q == [c EXCEPT !.lost = TRUE]
<1>1. /\ c = [op |-> "remove", rows |-> {}, role |-> c.role, lost |-> c.lost]
      /\ c.role \in Roles
  BY CallForms
<1>2. DOMAIN c = {"op", "rows", "role", "lost"} BY <1>1
<1>3. /\ q.op = "remove" /\ q.rows = {} /\ q.role = c.role /\ q.lost = TRUE
      /\ q = [k \in {"op", "rows", "role", "lost"} |-> q[k]]
  <2>1. q = [k \in {"op", "rows", "role", "lost"} |-> IF k = "lost" THEN TRUE ELSE c[k]]
    BY <1>2
  <2>2. c.op = "remove" /\ c.rows = {} BY <1>1
  <2> HIDE DEF q
  <2> QED BY <2>1, <2>2
<1> HIDE DEF q
<1>4. q = [op |-> "remove", rows |-> {}, role |-> c.role, lost |-> TRUE] BY <1>3
<1>5. q \in Call /\ q.op = "remove" BY <1>1, <1>3, <1>4, CallsOf
<1> QED BY <1>5 DEF q

(* The partial unique index.                                                 *)
LEMMA OneOrNone ==
  ASSUME NEW P, NEW R, \A r, s \in P: r = s, \A r, s \in R: r = s,
         Cardinality(P \cup R) <= 1
  PROVE  \A r, s \in P \cup R: r = s
<1> SUFFICES ASSUME NEW r \in P \cup R, NEW s \in P \cup R, r # s
             PROVE  FALSE
  OBVIOUS
<1>1. P \cup R = {r, s} OBVIOUS
<1>2. IsFiniteSet({r}) /\ Cardinality({r}) = 1 BY FS_Singleton
<1>3. Cardinality({r} \cup {s}) = 2 BY <1>2, FS_AddElement
<1>4. {r, s} = {r} \cup {s} OBVIOUS
<1> QED BY <1>1, <1>3, <1>4

LEMMA FewPrimaries ==
  ASSUME NEW P, \A r, s \in P: r = s
  PROVE  IsFiniteSet(P) /\ Cardinality(P) <= 1
<1>1. CASE P = {} BY <1>1, FS_EmptySet
<1>2. ASSUME NEW r \in P PROVE IsFiniteSet(P) /\ Cardinality(P) <= 1
  <2>1. P = {r} OBVIOUS
  <2>2. IsFiniteSet({r}) /\ Cardinality({r}) = 1 BY FS_Singleton
  <2> QED BY <2>1, <2>2
<1> QED BY <1>1, <1>2

(* What a call writes to the roles, whatever the call.                       *)
RowsOK(a, g, p) ==
  /\ a \subseteq Roles /\ g \subseteq Roles /\ a \cap g = {}
  /\ p \subseteq a \cup g
  /\ \A r, s \in p: r = s

(* A step that begins a call of w: nothing is written.                       *)
LEMMA CallBegins ==
  ASSUME RolesInv, NEW w \in Workers, NEW c \in Call, Remember(w, c),
         UNCHANGED <<roles, request>>,
         c.op \in {"login", "cancel", "reject", "approve"} =>
           UserFree(w) \/ HoldsUser(w),
         c.op \in {"cancel", "reject", "approve"} => request[c.req] = "pending"
  PROVE  RolesInv'
<1>1. /\ call' \in [Workers -> Call] /\ call'[w] = c
      /\ \A v \in Workers \ {w}: call'[v] = call[v]
  BY DEF RolesInv, Remember
<1>2. ASSUME NEW u \in Workers, NEW v \in Workers, HoldsUser(u)', HoldsUser(v)'
      PROVE  u = v
  BY <1>1, <1>2 DEF HoldsUser, UserFree, RolesInv
<1>3. \A v \in Workers: Reviews(v)' => request'[call'[v].req] = "pending"
  BY <1>1 DEF Reviews, RolesInv, roles
<1> QED BY <1>1, <1>2, <1>3 DEF RolesInv, roles, Existing

(* A step that ends a call of w: the other calls are as they were, up to a    *)
(* removal that has lost its row.                                           *)
LEMMA CallEnds ==
  ASSUME RolesInv, NEW w \in Workers, call' \in [Workers -> Call], call'[w] = Idle,
         \A v \in Workers \ {w}: \/ call'[v] = call[v]
                                 \/ call'[v].op = "remove",
         RowsOK(alive, gone, primary)', request' \in [Requests -> RequestStatus],
         \A v \in Workers \ {w}: Reviews(v) => request'[call[v].req] = "pending"
  PROVE  RolesInv'
<1>1. \A v \in Workers: HoldsUser(v)' => v # w /\ HoldsUser(v) /\ call'[v] = call[v]
  BY DEF HoldsUser, Idle
<1>2. \A v \in Workers: Reviews(v)' => v # w /\ Reviews(v) /\ call'[v] = call[v]
  BY DEF Reviews, Idle
<1>3. \A u, v \in Workers: HoldsUser(u)' /\ HoldsUser(v)' => u = v
  BY <1>1 DEF RolesInv
<1>4. \A v \in Workers: Reviews(v)' => request'[call'[v].req] = "pending"
  BY <1>2
<1> QED BY <1>3, <1>4 DEF RolesInv, RowsOK, Existing

LEMMA Finished ==
  ASSUME RolesInv, NEW w \in Workers, Finish(w)
  PROVE  /\ call' \in [Workers -> Call] /\ call'[w] = Idle
         /\ \A v \in Workers \ {w}: call'[v] = call[v]
BY CallsOf DEF RolesInv, Finish, Remember

LEMMA RowsKept == ASSUME RolesInv PROVE RowsOK(alive, gone, primary)
BY DEF RolesInv, RowsOK, Existing

(* The calls that write the roles.  Each lemma also says what becomes of a     *)
(* single live primary role.                                                 *)
LEMMA AssignOK ==
  ASSUME RolesInv, NEW w \in Workers, AssignCommit(w)
  PROVE  /\ RolesInv'
         /\ OnePrimaryRole /\ (alive # {} \/ call[w].first) => OnePrimaryRole'
<1> DEFINE r == call[w].role
           marked == IF call[w].first THEN {r} ELSE {}
<1>1. r \in Roles BY CallForms DEF AssignCommit, RolesInv
<1>2. \/ /\ r \notin Existing /\ ~TwoPrimaries(marked)
         /\ alive' = alive \cup {r} /\ primary' = primary \cup marked /\ gone' = gone
      \/ UNCHANGED roles
  BY DEF AssignCommit
<1>3. RowsOK(alive, gone, primary) /\ IsFiniteSet(primary) BY RowsKept, FewPrimaries DEF RowsOK
<1>4. \A p, q \in marked: p = q OBVIOUS
<1>5. marked \subseteq {r} /\ (call[w].first => r \in marked) OBVIOUS
<1> HIDE DEF r, marked
<1>6. ASSUME r \notin Existing, ~TwoPrimaries(marked), alive' = alive \cup {r},
             primary' = primary \cup marked, gone' = gone
      PROVE  /\ RowsOK(alive, gone, primary)'
             /\ OnePrimaryRole /\ (alive # {} \/ call[w].first) => OnePrimaryRole'
  <2>1. IsFiniteSet(marked) BY <1>4, FewPrimaries
  <2>2. IsFiniteSet(primary \cup marked) BY <1>3, <2>1, FS_Union
  <2>3. Cardinality(primary \cup marked) <= 1
    BY <1>6, <2>2, FS_CardinalityType DEF TwoPrimaries
  <2>4. \A p, q \in primary \cup marked: p = q
    BY <1>3, <1>4, <2>3, OneOrNone DEF RowsOK
  <2>5. RowsOK(alive, gone, primary)'
    BY <1>1, <1>3, <1>5, <1>6, <2>4 DEF RowsOK, Existing
  <2> QED BY <1>5, <1>6, <2>5 DEF OnePrimaryRole
<1>7. ASSUME UNCHANGED roles
      PROVE  RowsOK(alive, gone, primary)' /\ (OnePrimaryRole => OnePrimaryRole')
  BY <1>3, <1>7 DEF RowsOK, roles, OnePrimaryRole
<1>8. request' = request /\ Finish(w) BY DEF AssignCommit
<1> QED BY <1>2, <1>6, <1>7, <1>8, Finished, CallEnds DEF RolesInv

LEMMA RemoveOK ==
  ASSUME RolesInv, NEW w \in Workers, RemoveCommit(w)
  PROVE  /\ RolesInv'
         /\ OnePrimaryRole /\ call[w].role \notin primary => OnePrimaryRole'
<1>1. call[w].role \in Roles BY CallForms DEF RemoveCommit, RolesInv
<1>2. RowsOK(alive, gone, primary)'
  BY <1>1, RowsKept DEF RemoveCommit, RowsOK
<1>3. request' = request /\ Finish(w) BY DEF RemoveCommit
<1>4. OnePrimaryRole /\ call[w].role \notin primary => OnePrimaryRole'
  BY DEF RemoveCommit, OnePrimaryRole
<1>5. RolesInv' BY <1>2, <1>3, Finished, CallEnds DEF RolesInv
<1> QED BY <1>4, <1>5

LEMMA SyncOK ==
  ASSUME RolesInv, NEW w \in Workers, SyncCommit(w)
  PROVE  /\ RolesInv'
         /\ OnePrimaryRole /\ (call[w].list # <<>> \/ alive \subseteq call[w].rows)
              => OnePrimaryRole'
<1> DEFINE list == call[w].list
           rows == call[w].rows
           wanted == CodesOf(list)
           target == SyncTarget(w)
<1>1. list \in Seq(Roles) /\ rows \subseteq Roles
  BY CallForms, RolesAssumption DEF SyncCommit, RolesInv, RolesAssumption
<1>2. wanted \subseteq Roles BY <1>1 DEF CodesOf
<1>3. /\ target \subseteq wanted
      /\ \A t, u \in target: t = u
      /\ list # <<>> => target # {}
      /\ list = <<>> => wanted = {}
  <2>1. list # <<>> => 1 \in DOMAIN list BY <1>1
  <2>2. list # <<>> => list[1] \in wanted BY <2>1 DEF CodesOf
  <2>3. list = <<>> => wanted = {} BY DEF CodesOf
  <2> QED BY <2>2, <2>3 DEF SyncTarget, RolesInv
<1>4. /\ call' \in [Workers -> Call] /\ call'[w] = Idle
      /\ \A v \in Workers \ {w}: call'[v] = call[v] \/ call'[v].op = "remove"
  <2>1. CASE Finish(w) BY <2>1, Finished
  <2>2. CASE call' = [o \in Workers |->
               IF o = w THEN Idle
               ELSE IF call[o].op = "remove" /\ call[o].role \in rows \ wanted
                    THEN [call[o] EXCEPT !.lost = TRUE]
                    ELSE call[o]]
    <3>1. ASSUME NEW v \in Workers, call[v].op = "remove"
          PROVE  /\ [call[v] EXCEPT !.lost = TRUE] \in Call
                 /\ [call[v] EXCEPT !.lost = TRUE].op = "remove"
      BY <3>1, LostForm DEF RolesInv
    <3> QED BY <2>2, <3>1, CallsOf DEF RolesInv
  <2> QED BY <2>1, <2>2 DEF SyncCommit
<1>5. \/ UNCHANGED roles
      \/ /\ ~SyncRefused(w)
         /\ alive' = (alive \ (rows \ wanted)) \cup wanted
         /\ gone' = gone \ rows
         /\ primary' = (primary \ rows) \cup target
  BY DEF SyncCommit
<1>6. ASSUME UNCHANGED roles
      PROVE  RowsOK(alive, gone, primary)' /\ (OnePrimaryRole => OnePrimaryRole')
  BY <1>6, RowsKept DEF RowsOK, roles, OnePrimaryRole
<1>7. ASSUME ~SyncRefused(w), alive' = (alive \ (rows \ wanted)) \cup wanted,
             gone' = gone \ rows, primary' = (primary \ rows) \cup target
      PROVE  /\ RowsOK(alive, gone, primary)'
             /\ OnePrimaryRole /\ (list # <<>> \/ alive \subseteq rows)
                  => OnePrimaryRole'
  <2>1. (wanted \ rows) \cap Existing = {} BY <1>7 DEF SyncRefused
  <2>2. \A t \in target, p \in primary \ rows: p = t
    BY <1>7 DEF SyncRefused
  <2> HIDE DEF list, rows, wanted, target
  <2>3. \A r, s \in primary': r = s
    BY <1>3, <1>7, <2>2 DEF RolesInv
  <2>4. primary' \subseteq alive' \cup gone'
    BY <1>3, <1>7 DEF RolesInv, Existing
  <2>5. alive' \cap gone' = {} /\ alive' \subseteq Roles /\ gone' \subseteq Roles
    BY <1>2, <1>7, <2>1 DEF RolesInv, Existing
  <2>6. RowsOK(alive, gone, primary)' BY <2>3, <2>4, <2>5 DEF RowsOK
  <2>7. OnePrimaryRole /\ list # <<>> => OnePrimaryRole'
    BY <1>3, <1>7 DEF OnePrimaryRole
  <2>8. OnePrimaryRole /\ list = <<>> /\ alive \subseteq rows => OnePrimaryRole'
    BY <1>3, <1>7 DEF OnePrimaryRole
  <2> QED BY <2>6, <2>7, <2>8
<1>8. request' = request BY DEF SyncCommit
<1> QED BY <1>4, <1>5, <1>6, <1>7, <1>8, CallEnds DEF RolesInv

LEMMA LoginOK ==
  ASSUME RolesInv, NEW w \in Workers, LoginCommit(w)
  PROVE  /\ RolesInv'
         /\ OnePrimaryRole /\ (alive # {} \/ ~call[w].hasPrimary) => OnePrimaryRole'
<1> DEFINE list == call[w].list
           wanted == Wanted(list)
           marks == LoginMarks(w)
<1>1. list \in Seq(Roles)
  BY CallForms, RolesAssumption DEF LoginCommit, RolesInv, RolesAssumption
<1>2. wanted \subseteq Roles
  BY <1>1, RolesAssumption DEF Wanted, CodesOf, RolesAssumption
<1>3. /\ marks \subseteq wanted /\ \A r, s \in marks: r = s
      /\ ~call[w].hasPrimary => marks # {}
  <2>1. list # <<>> => list[1] \in CodesOf(list)
    <3>1. list # <<>> => 1 \in DOMAIN list BY <1>1
    <3> QED BY <3>1 DEF CodesOf
  <2>2. Len(list) > 1 => list[2] \in CodesOf(list)
    <3>1. Len(list) > 1 => 2 \in DOMAIN list BY <1>1
    <3> QED BY <3>1 DEF CodesOf
  <2> QED BY <2>1, <2>2 DEF LoginMarks, Wanted
<1>4. \/ UNCHANGED roles
      \/ /\ ~TwoPrimaries(marks)
         /\ alive' = alive \cup wanted /\ gone' = gone \ wanted
         /\ primary' = primary \cup marks
  BY DEF LoginCommit
<1> HIDE DEF list, wanted, marks
<1>5. ASSUME UNCHANGED roles
      PROVE  RowsOK(alive, gone, primary)' /\ (OnePrimaryRole => OnePrimaryRole')
  BY <1>5, RowsKept DEF RowsOK, roles, OnePrimaryRole
<1>6. ASSUME ~TwoPrimaries(marks), alive' = alive \cup wanted, gone' = gone \ wanted,
             primary' = primary \cup marks
      PROVE  /\ RowsOK(alive, gone, primary)'
             /\ OnePrimaryRole /\ (alive # {} \/ ~call[w].hasPrimary) => OnePrimaryRole'
  <2>1. IsFiniteSet(marks) /\ IsFiniteSet(primary)
    BY <1>3, FewPrimaries DEF RolesInv
  <2>2. IsFiniteSet(primary \cup marks) BY <2>1, FS_Union
  <2>3. Cardinality(primary \cup marks) <= 1
    BY <1>6, <2>2, FS_CardinalityType DEF TwoPrimaries
  <2>4. \A r, s \in primary \cup marks: r = s
    BY <1>3, <2>3, OneOrNone DEF RolesInv
  <2>5. RowsOK(alive, gone, primary)'
    BY <1>2, <1>3, <1>6, <2>4 DEF RowsOK, RolesInv, Existing
  <2> QED BY <1>3, <1>6, <2>5 DEF OnePrimaryRole
<1>7. request' = request /\ Finish(w) BY DEF LoginCommit
<1> QED BY <1>4, <1>5, <1>6, <1>7, Finished, CallEnds DEF RolesInv

LEMMA ApproveOK ==
  ASSUME RolesInv, NEW w \in Workers, ApproveCommit(w)
  PROVE  RolesInv' /\ OnePrimaryRole'
<1>1. /\ alive' = alive \cup {Organizer} /\ gone' = gone \ {Organizer}
      /\ primary' = {Organizer}
      /\ request' = [request EXCEPT ![call[w].req] = "approved"] /\ Finish(w)
  BY DEF ApproveCommit, Revived
<1>2. RowsOK(alive, gone, primary)'
  BY <1>1, RolesAssumption DEF RowsOK, RolesInv, RolesAssumption
<1>3. /\ request' \in [Requests -> RequestStatus]
      /\ \A v \in Workers \ {w}: ~Reviews(v)
  BY <1>1 DEF ApproveCommit, RolesInv, RequestStatus, HoldsUser, Reviews
<1> QED BY <1>1, <1>2, <1>3, Finished, CallEnds DEF OnePrimaryRole

LEMMA RolesStep == RolesInv /\ [Next]_vars => RolesInv'
<1> SUFFICES ASSUME RolesInv, [Next]_vars PROVE RolesInv'
  OBVIOUS
<1> USE RolesAssumption DEF RolesAssumption
<1>1. CASE UNCHANGED vars
  BY <1>1 DEF RolesInv, vars, Existing, HoldsUser, Reviews
<1>2. Existing \subseteq Roles BY DEF RolesInv, Existing
<1>3. ASSUME NEW w \in Workers, NEW r \in Roles, AssignRead(w, r)
      PROVE  RolesInv'
  BY <1>3, CallBegins, CallsOf DEF AssignRead
<1>4. ASSUME NEW w \in Workers, NEW r \in Roles, RemoveRead(w, r)
      PROVE  RolesInv'
  BY <1>4, CallBegins, CallsOf DEF RemoveRead
<1>5. ASSUME NEW w \in Workers, NEW list \in SyncLists, SyncLock(w, list)
      PROVE  RolesInv'
  BY <1>2, <1>5, CallBegins, CallsOf DEF SyncLock
<1>6. ASSUME NEW w \in Workers, NEW list \in LoginLists, LoginLock(w, list)
      PROVE  RolesInv'
  <2>1. Wanted(list) \cap Existing \subseteq Roles BY <1>2
  <2>2. (alive \cap primary # {}) \in BOOLEAN OBVIOUS
  <2> QED BY <1>6, <2>1, <2>2, CallBegins, CallsOf DEF LoginLock
<1>7. ASSUME NEW w \in Workers, RequestRead(w)
      PROVE  RolesInv'
  BY <1>7, CallBegins, CallsOf DEF RequestRead
<1>8. ASSUME NEW w \in Workers, RequestCommit(w)
      PROVE  RolesInv'
  <2>1. /\ request' \in [Requests -> RequestStatus]
        /\ \A v \in Workers \ {w}: Reviews(v) => request'[call[v].req] = "pending"
    BY <1>8 DEF RequestCommit, RolesInv, RequestStatus, UserFree, HoldsUser, Reviews
  <2>2. UNCHANGED roles /\ Finish(w) BY <1>8 DEF RequestCommit
  <2> QED BY <2>1, <2>2, RowsKept, Finished, CallEnds DEF roles
<1>9. ASSUME NEW w \in Workers, NEW q \in Requests, NEW o \in {"cancel", "reject"},
             CloseLock(w, q, o)
      PROVE  RolesInv'
  BY <1>9, CallBegins, CallsOf DEF CloseLock, Reviewable
<1>10. ASSUME NEW w \in Workers, NEW q \in Requests, ApproveLock(w, q)
       PROVE  RolesInv'
  BY <1>10, CallBegins, CallsOf DEF ApproveLock, Reviewable
<1>11. ASSUME NEW w \in Workers, CloseCommit(w)
       PROVE  RolesInv'
  <2>1. \A v \in Workers \ {w}: ~Reviews(v)
    BY <1>11 DEF CloseCommit, RolesInv, HoldsUser, Reviews
  <2>2. request' \in [Requests -> RequestStatus]
    BY <1>11 DEF CloseCommit, RolesInv, RequestStatus
  <2>3. UNCHANGED roles /\ Finish(w) BY <1>11 DEF CloseCommit
  <2> QED BY <2>1, <2>2, <2>3, RowsKept, Finished, CallEnds DEF roles
<1>12. ASSUME NEW w \in Workers, ApproveLockRows(w)
       PROVE  RolesInv'
  <2> DEFINE c == call[w]
             d == [op |-> "approve", rows |-> Existing, req |-> c.req,
                   at |-> "rows_locked"]
  <2>1. /\ c = [op |-> "approve", rows |-> c.rows, req |-> c.req, at |-> c.at]
        /\ c.op = "approve" /\ c.req \in Requests
    BY <1>12, CallForms DEF ApproveLockRows, RolesInv
  <2>2. call' = [call EXCEPT ![w] = d] /\ UNCHANGED <<roles, request>>
    <3>1. call' = [call EXCEPT ![w] = [c EXCEPT !.rows = Existing, !.at = "rows_locked"]]
      BY <1>12 DEF ApproveLockRows, RolesInv
    <3> HIDE DEF c
    <3>2. [c EXCEPT !.rows = Existing, !.at = "rows_locked"] = d
      <4>1. DOMAIN c = {"op", "rows", "req", "at"} BY <2>1
      <4>2. [c EXCEPT !.rows = Existing, !.at = "rows_locked"]
              = [k \in {"op", "rows", "req", "at"} |->
                   IF k = "rows" THEN Existing ELSE IF k = "at" THEN "rows_locked" ELSE c[k]]
        BY <4>1
      <4> QED BY <2>1, <4>2
    <3> QED BY <1>12, <3>1, <3>2 DEF ApproveLockRows
  <2>3. d \in Call /\ d.op = "approve" /\ d.req = c.req BY <1>2, <2>1, CallsOf
  <2>4. HoldsUser(w) /\ request[c.req] = "pending"
    BY <2>1 DEF HoldsUser, Reviews, RolesInv
  <2> HIDE DEF c, d
  <2> QED BY <2>2, <2>3, <2>4, CallBegins DEF Remember
<1>13. ASSUME NEW w \in Workers, Abort(w)
       PROVE  RolesInv'
  <2>1. UNCHANGED <<roles, request>> /\ Finish(w) BY <1>13 DEF Abort
  <2>2. \A v \in Workers: Reviews(v) => request[call[v].req] = "pending" BY DEF RolesInv
  <2> QED BY <2>1, <2>2, RowsKept, Finished, CallEnds DEF roles, RolesInv
<1> QED BY <1>1, <1>3, <1>4, <1>5, <1>6, <1>7, <1>8, <1>9, <1>10, <1>11, <1>12, <1>13,
           AssignOK, RemoveOK, SyncOK, LoginOK, ApproveOK DEF Next

LEMMA RolesStart == Init => RolesInv
<1> SUFFICES ASSUME Init PROVE RolesInv
  OBVIOUS
<1>1. call \in [Workers -> Call] /\ \A w \in Workers: call[w] = Idle
  BY CallsOf DEF Init
<1>2. \A w \in Workers: ~HoldsUser(w) /\ ~Reviews(w)
  BY <1>1 DEF HoldsUser, Reviews, Idle
<1> QED BY <1>1, <1>2 DEF Init, RolesInv, Existing, RequestStatus

LEMMA RolesKept == Spec => []RolesInv
BY RolesStart, RolesStep, PTL DEF Spec

(* The unique indexes of user_roles hold whatever calls overlap: one row per  *)
(* role, deleted or not, and one primary row.  No write relies on its reads   *)
(* for that, only on the refusal of the indexes.                             *)
THEOREM RowsAreUnique == Spec => []TypeOK
<1>1. RolesInv => TypeOK BY FewPrimaries DEF RolesInv, TypeOK
<1> QED BY <1>1, RolesKept, PTL

(* A user who has one live primary role loses it by three races only: a       *)
(* removal of a row that became primary, an empty role list that leaves a role *)
(* it did not see, and a role that is added without the flag when the others   *)
(* its call saw are gone.                                                    *)
THEOREM OnlyRacesLosePrimary == Spec => OnlyKnownRacesLosePrimary
<1>1. ASSUME RolesInv, [Next]_vars, OnePrimaryRole, ~OnePrimaryRole'
      PROVE  \E w \in Workers:
               /\ call'[w] = Idle
               /\ \/ call[w].op = "remove" /\ call[w].role \in primary
                  \/ /\ call[w].op = "sync" /\ call[w].list = <<>>
                     /\ ~(alive \subseteq call[w].rows)
                  \/ call[w].op = "assign" /\ ~call[w].first /\ alive = {}
                  \/ call[w].op = "login" /\ call[w].hasPrimary /\ alive = {}
  <2>1. ~UNCHANGED roles BY <1>1 DEF roles, OnePrimaryRole
  <2>2. PICK w \in Workers: \/ AssignCommit(w) \/ RemoveCommit(w) \/ SyncCommit(w)
                            \/ LoginCommit(w) \/ ApproveCommit(w)
    BY <1>1, <2>1 DEF Next, vars, roles, AssignRead, RemoveRead, SyncLock, LoginLock,
       RequestRead, RequestCommit, CloseLock, ApproveLock, CloseCommit, ApproveLockRows, Abort
  <2>3. call'[w] = Idle
    <3>1. CASE Finish(w) BY <1>1, <3>1, Finished
    <3>2. CASE ~Finish(w)
      BY <2>2, <3>2 DEF AssignCommit, RemoveCommit, SyncCommit, LoginCommit, ApproveCommit
    <3> QED BY <3>1, <3>2
  <2>4. ~ApproveCommit(w) BY <1>1, ApproveOK
  <2>5. CASE AssignCommit(w) BY <1>1, <2>3, <2>5, AssignOK DEF AssignCommit
  <2>6. CASE RemoveCommit(w) BY <1>1, <2>3, <2>6, RemoveOK DEF RemoveCommit
  <2>7. CASE SyncCommit(w) BY <1>1, <2>3, <2>7, SyncOK DEF SyncCommit
  <2>8. CASE LoginCommit(w) BY <1>1, <2>3, <2>8, LoginOK DEF LoginCommit
  <2> QED BY <2>2, <2>4, <2>5, <2>6, <2>7, <2>8
<1> QED BY <1>1, RolesKept, PTL DEF Spec, OnlyKnownRacesLosePrimary

(* A request to become an organizer is decided once: the review that writes    *)
(* has held the user's row since it saw the request pending.                 *)
THEOREM DecisionsStay == Spec => DecidedOnce
<1>1. ASSUME RolesInv, [Next]_vars, NEW q \in Requests,
             request[q] \in {"approved", "rejected", "cancelled"}
      PROVE  request'[q] = request[q]
  <2>1. CASE request' = request BY <2>1
  <2>2. CASE \E w \in Workers: RequestCommit(w)
    BY <1>1, <2>2 DEF RequestCommit, RolesInv
  <2>3. ASSUME NEW w \in Workers, CloseCommit(w) \/ ApproveCommit(w)
        PROVE  request'[q] = request[q]
    <3>1. request[call[w].req] = "pending"
      BY <1>1, <2>3 DEF CloseCommit, ApproveCommit, RolesInv, Reviews
    <3> QED BY <1>1, <2>3, <3>1 DEF CloseCommit, ApproveCommit, RolesInv
  <2> QED BY <1>1, <2>1, <2>2, <2>3
          DEF Next, vars, AssignRead, AssignCommit, RemoveRead, RemoveCommit, SyncLock,
              SyncCommit, LoginLock, LoginCommit, RequestRead, CloseLock, ApproveLock,
              ApproveLockRows, Abort
<1>2. RolesInv /\ [Next]_vars =>
        \A q \in Requests: request[q] \in {"approved", "rejected", "cancelled"}
          => request'[q] = request[q]
  BY <1>1
<1> QED BY <1>2, RolesKept, PTL DEF Spec, DecidedOnce

------------------------------------------------------------------------------
(* Catalogue                                                                 *)

(* A change in progress.  One that was alone from its first read on still is,  *)
(* so that what it read and tested is still there.                          *)
CreateOK(c) ==
  /\ c.new \in NewRows(c.id)
  /\ c.alone => Chosen(c.new.above) /\ Fits(c.id, c.new)

PatchOK(c) ==
  LET new == Patched(c.copy, c.patch) IN
  /\ c.patch \in Patches(c.id)
  /\ c.copy \in Row /\ c.copy.above \in Parents(c.id)
  /\ Exists(c.id)
  /\ c.alone => /\ c.copy = row[c.id] /\ Live(c.id)
                /\ Chosen(new.above \ c.copy.above)
                /\ new.code = Blank \/ Fits(c.id, new)

DropOK(c) ==
  /\ Exists(c.id)
  /\ c.alone /\ c.op = "drop" /\ c.id \in Managed => Below(c.id) = {}

ChangeOK(c) ==
  /\ c.op = "create" => CreateOK(c)
  /\ c.op = "patch" => PatchOK(c)
  /\ c.op \in {"drop", "close"} => DropOK(c)

CatalogueInv ==
  /\ row \in [All -> Row \cup {NoRow}]
  /\ \A x \in All: Exists(x) => row[x].above \in Parents(x)
  /\ change \in [Clients -> Change]
  /\ \A w \in Clients:
       /\ change[w] # NoChange /\ change[w].alone => NothingElse(w)
       /\ ChangeOK(change[w])

LEMMA TablesApart ==
  /\ Events \cap Managed = {}
  /\ Campuses \cap Buildings = {} /\ Campuses \cap Rooms = {}
  /\ Buildings \cap Rooms = {} /\ Categories \cap Places = {}
BY CatalogueAssumption DEF CatalogueAssumption, Tables, Managed, Places

LEMMA RowForms ==
  ASSUME NEW r \in Row
  PROVE  /\ r # NoRow
         /\ r = [above |-> r.above, code |-> r.code, active |-> r.active,
                 deleted |-> r.deleted]
         /\ r.above \subseteq All /\ r.code \in Codes \cup {Blank}
         /\ r.active \in BOOLEAN /\ r.deleted \in BOOLEAN
         /\ DOMAIN r = {"above", "code", "active", "deleted"}
<1>1. r # NoRow BY DEF Row, NoRow
<1> QED BY <1>1 DEF Row

LEMMA NewRowForms ==
  ASSUME NEW x \in All, NEW new \in NewRows(x)
  PROVE  new \in Row /\ new.above \in Parents(x) /\ new.code \in Codes /\ ~new.deleted
<1>1. /\ new = [above |-> new.above, code |-> new.code, active |-> new.active,
                deleted |-> new.deleted]
      /\ new.above \in Parents(x) /\ new.code \in Codes
      /\ new.active \in BOOLEAN /\ new.deleted = FALSE
  BY DEF NewRows
<1>2. Parents(x) \subseteq SUBSET All BY DEF Parents, All, Managed, Places
<1> QED BY <1>1, <1>2 DEF Row

LEMMA PatchedForms ==
  ASSUME NEW x \in All, NEW r \in Row, NEW p \in Patches(x),
         r.above \in Parents(x)
  PROVE  /\ Patched(r, p) \in Row
         /\ Patched(r, p).above \in Parents(x)
         /\ Patched(r, p).deleted = r.deleted
         /\ ("active" \notin DOMAIN p => Patched(r, p).active = r.active)
<1> DEFINE q == Patched(r, p)
<1>1. PICK f \in {"above", "code", "active"}: DOMAIN p = {f}
  BY DEF Patches
<1>2. /\ DOMAIN q = {"above", "code", "active", "deleted"}
      /\ q.deleted = r.deleted
      /\ q.above = IF f = "above" THEN p.above ELSE r.above
      /\ q.code = IF f = "code" THEN p.code ELSE r.code
      /\ q.active = IF f = "active" THEN p.active ELSE r.active
  BY <1>1, RowForms DEF Patched
<1>3. /\ f = "above" => p.above \in Parents(x)
      /\ f = "code" => p.code \in Codes \cup {Blank}
      /\ f = "active" => p.active \in BOOLEAN
  BY <1>1 DEF Patches
<1>4. Parents(x) \subseteq SUBSET All
  BY DEF Parents, All, Managed, Places
<1>5. /\ q.above \in Parents(x) /\ q.above \subseteq All
      /\ q.code \in Codes \cup {Blank} /\ q.active \in BOOLEAN /\ q.deleted \in BOOLEAN
  BY <1>2, <1>3, <1>4, RowForms
<1>6. q = [above |-> q.above, code |-> q.code, active |-> q.active, deleted |-> q.deleted]
  BY <1>2 DEF Patched
<1>7. q \in Row BY <1>5, <1>6 DEF Row
<1> QED BY <1>1, <1>2, <1>5, <1>7

LEMMA ChangeForms ==
  ASSUME NEW c \in Change, c # NoChange
  PROVE  /\ c.op \in {"create", "patch", "drop", "close"}
         /\ c.id \in All /\ c.alone \in BOOLEAN
         /\ [c EXCEPT !.alone = FALSE] \in Change
         /\ [c EXCEPT !.alone = FALSE] # NoChange
         /\ ~[c EXCEPT !.alone = FALSE].alone
<1>1. CASE c.op = "create"
  <2>1. c \in [op: {"create"}, id: All, new: Row, alone: BOOLEAN]
    BY <1>1 DEF Change, NoChange
  <2> QED BY <2>1 DEF Change, NoChange
<1>2. CASE c.op = "patch"
  <2> DEFINE P == UNION {[{f} -> BOOLEAN \cup Codes \cup {Blank} \cup SUBSET All] :
                         f \in {"above", "code", "active"}}
  <2>1. c \in [op: {"patch"}, id: All, copy: Row, alone: BOOLEAN, patch: P]
    BY <1>2 DEF Change, NoChange
  <2>2. [op: {"patch"}, id: All, copy: Row, alone: BOOLEAN, patch: P] \subseteq Change
    BY DEF Change
  <2> HIDE DEF P
  <2> QED BY <2>1, <2>2 DEF NoChange
<1>3. CASE c.op \in {"drop", "close"}
  <2>1. c \in [op: {"drop", "close"}, id: All, alone: BOOLEAN]
    BY <1>3 DEF Change, NoChange
  <2> QED BY <2>1 DEF Change, NoChange
<1> QED BY <1>1, <1>2, <1>3 DEF Change, NoChange

LEMMA Restless ==
  ASSUME NEW c \in Change, c # NoChange, ChangeOK(c)
  PROVE  ChangeOK([c EXCEPT !.alone = FALSE])
<1> DEFINE d == [c EXCEPT !.alone = FALSE]
<1>1. CASE c.op = "create"
  <2>1. /\ c \in [op: {"create"}, id: All, new: Row, alone: BOOLEAN]
    BY <1>1 DEF Change, NoChange
  <2>2. d.op = "create" /\ d.id = c.id /\ d.new = c.new /\ ~d.alone BY <2>1
  <2> QED BY <1>1, <2>2 DEF ChangeOK, CreateOK
<1>2. CASE c.op = "patch"
  <2> DEFINE P == UNION {[{f} -> BOOLEAN \cup Codes \cup {Blank} \cup SUBSET All] :
                         f \in {"above", "code", "active"}}
  <2>1. c \in [op: {"patch"}, id: All, copy: Row, alone: BOOLEAN, patch: P]
    BY <1>2 DEF Change, NoChange
  <2> HIDE DEF P
  <2>2. /\ d.op = "patch" /\ d.id = c.id /\ d.copy = c.copy /\ d.patch = c.patch
        /\ ~d.alone
    BY <2>1
  <2> QED BY <1>2, <2>2 DEF ChangeOK, PatchOK
<1>3. CASE c.op \in {"drop", "close"}
  <2>1. c \in [op: {"drop", "close"}, id: All, alone: BOOLEAN]
    BY <1>3 DEF Change, NoChange
  <2>2. d.op = c.op /\ d.id = c.id /\ ~d.alone BY <2>1
  <2> QED BY <1>3, <2>2 DEF ChangeOK, DropOK
<1> QED BY <1>1, <1>2, <1>3, ChangeForms

(* Reads leave the rows alone, and what was tested stays so.                 *)
LEMMA RowsStill ==
  ASSUME UNCHANGED row, NEW v \in Clients, NEW c, change'[v] = c, ChangeOK(c)
  PROVE  ChangeOK(change[v])'
<1>1. /\ \A x: Exists(x)' <=> Exists(x)
      /\ \A x: Live(x)' <=> Live(x)
      /\ \A up: Chosen(up)' <=> Chosen(up)
      /\ \A x, r: Fits(x, r)' <=> Fits(x, r)
      /\ \A x: Below(x)' = Below(x)
  BY DEF Exists, Live, Chosen, Fits, Indexed, Below, Above, Up
<1> QED BY <1>1 DEF ChangeOK, CreateOK, PatchOK, DropOK

LEMMA Started ==
  ASSUME CatalogueInv, NEW w \in Clients, NEW c \in Change, change[w] = NoChange,
         c # NoChange, c.alone <=> NothingElse(w), ChangeOK(c), StartChange(w, c)
  PROVE  CatalogueInv'
<1>1. UNCHANGED <<row, raced, refused>> BY DEF StartChange
<1>2. /\ row' \in [All -> Row \cup {NoRow}]
      /\ \A x \in All: Exists(x)' => row'[x].above \in Parents(x)
  BY <1>1 DEF CatalogueInv, Exists
<1>3. change'[w] = c BY DEF StartChange
<1>4. ASSUME NEW v \in Clients \ {w}
      PROVE  /\ change[v] = NoChange => change'[v] = NoChange
             /\ change[v] # NoChange =>
                  /\ change'[v] = [change[v] EXCEPT !.alone = FALSE]
                  /\ change'[v] # NoChange /\ ~change'[v].alone
             /\ change'[v] \in Change
             /\ ChangeOK(change'[v])
  <2>1. change[v] \in Change /\ ChangeOK(change[v]) BY DEF CatalogueInv
  <2>2. change'[v] = IF change[v] = NoChange THEN NoChange
                     ELSE [change[v] EXCEPT !.alone = FALSE]
    BY DEF StartChange
  <2>3. CASE change[v] = NoChange
    BY <2>1, <2>2, <2>3
  <2>4. CASE change[v] # NoChange
    <3>1. change'[v] = [change[v] EXCEPT !.alone = FALSE] BY <2>2, <2>4
    <3> QED BY <2>1, <2>4, <3>1, ChangeForms, Restless
  <2> QED BY <2>3, <2>4
<1>5. change' \in [Clients -> Change]
  <2>1. change' = [v \in Clients |-> change'[v]] BY DEF StartChange
  <2> QED BY <1>3, <1>4, <2>1
<1>6. ASSUME NEW v \in Clients
      PROVE  /\ change'[v] # NoChange /\ change'[v].alone => NothingElse(v)'
             /\ ChangeOK(change[v])'
  <2>1. PICK d: d = change'[v] OBVIOUS
  <2>2. ChangeOK(d) BY <1>3, <1>4, <2>1
  <2>3. ChangeOK(change[v])' BY <1>1, <2>1, <2>2, RowsStill
  <2>4. c.alone => NothingElse(w)'
    BY <1>4 DEF NothingElse
  <2> QED BY <1>3, <1>4, <2>3, <2>4
<1> QED BY <1>2, <1>5, <1>6 DEF CatalogueInv

(* A change ends: those that overlapped it rely on nothing it may have       *)
(* written.                                                                *)
LEMMA Ended ==
  ASSUME CatalogueInv, NEW w \in Clients, change[w] # NoChange, EndChange(w),
         row' \in [All -> Row \cup {NoRow}],
         \A x \in All: /\ Exists(x) => Exists(x)'
                       /\ Exists(x)' => row'[x].above \in Parents(x)
  PROVE  CatalogueInv'
<1>1. NoChange \in Change BY DEF Change
<1>2. /\ change' \in [Clients -> Change] /\ change'[w] = NoChange
      /\ \A v \in Clients \ {w}: change'[v] = change[v]
  BY <1>1 DEF EndChange, CatalogueInv
<1>3. ASSUME NEW v \in Clients
      PROVE  /\ change'[v] # NoChange /\ change'[v].alone => NothingElse(v)'
             /\ ChangeOK(change[v])'
  <2>1. CASE v = w
    BY <1>2, <2>1 DEF ChangeOK, NoChange
  <2>2. CASE v # w
    <3>1. change'[v] = change[v] /\ change[v] \in Change /\ ChangeOK(change[v])
      BY <1>2, <2>2 DEF CatalogueInv
    <3>2. CASE change[v] = NoChange
      BY <3>1, <3>2 DEF ChangeOK, NoChange
    <3>3. CASE change[v] # NoChange
      <4>1. ~change[v].alone /\ change[v].id \in All
        BY <2>2, <3>1, <3>3, ChangeForms DEF CatalogueInv, NothingElse
      <4>2. Exists(change[v].id) => Exists(change[v].id)'
        BY <3>1, <4>1 DEF Exists
      <4> QED
        BY <3>1, <4>1, <4>2 DEF ChangeOK, CreateOK, PatchOK, DropOK, Exists
    <3> QED BY <3>2, <3>3
  <2> QED BY <2>1, <2>2
<1> QED BY <1>2, <1>3 DEF CatalogueInv

LEMMA RowOf ==
  ASSUME CatalogueInv, NEW x \in All, Exists(x)
  PROVE  row[x] \in Row /\ row[x].above \in Parents(x) /\ row[x] # NoRow
BY DEF CatalogueInv, Exists

LEMMA ServeOK ==
  ASSUME CatalogueInv, NEW w \in Clients, NEW x \in All, Serve(w, x)
  PROVE  CatalogueInv'
<1>1. change[w] = NoChange BY DEF Serve
<1>2. ASSUME NEW new \in NewRows(x), ~Exists(x), CreateRead(w, x, new)
      PROVE  CatalogueInv'
  <2> DEFINE c == [op |-> "create", id |-> x, new |-> new, alone |-> NothingElse(w)]
  <2>1. new \in Row BY <1>2, NewRowForms
  <2>2. c \in Change
    <3>1. c \in [op: {"create"}, id: All, new: Row, alone: BOOLEAN]
      BY <2>1 DEF NothingElse
    <3> QED BY <3>1 DEF Change
  <2>3. c # NoChange BY DEF NoChange
  <2>4. ChangeOK(c) BY <1>2 DEF ChangeOK, CreateOK, CreateRead
  <2>5. StartChange(w, c) BY <1>2 DEF CreateRead
  <2> HIDE DEF c
  <2>6. c.alone <=> NothingElse(w) BY DEF c
  <2> QED BY <1>1, <2>2, <2>3, <2>4, <2>5, <2>6, Started
<1>3. ASSUME NEW p \in Patches(x), Live(x), PatchRead(w, x, p)
      PROVE  CatalogueInv'
  <2> DEFINE c == [op |-> "patch", id |-> x, copy |-> row[x], patch |-> p,
                   alone |-> NothingElse(w)]
             P == UNION {[{f} -> BOOLEAN \cup Codes \cup {Blank} \cup SUBSET All] :
                         f \in {"above", "code", "active"}}
  <2>1. row[x] \in Row /\ row[x].above \in Parents(x) /\ Exists(x)
    BY <1>3, RowOf DEF Live
  <2>2. p \in P
    <3>1. Parents(x) \subseteq SUBSET All BY DEF Parents, All, Managed, Places
    <3>2. PICK f \in {"above", "code", "active"}:
            p \in [{f} -> BOOLEAN \cup Codes \cup {Blank} \cup SUBSET All]
      BY <3>1 DEF Patches
    <3> QED BY <3>2
  <2>3. c \in Change
    <3> HIDE DEF P
    <3>1. c \in [op: {"patch"}, id: All, copy: Row, alone: BOOLEAN, patch: P]
      BY <2>1, <2>2 DEF NothingElse
    <3>2. [op: {"patch"}, id: All, copy: Row, alone: BOOLEAN, patch: P] \subseteq Change
      BY DEF Change, P
    <3> QED BY <3>1, <3>2
  <2>4. c # NoChange BY DEF NoChange
  <2>5. ChangeOK(c) BY <1>3, <2>1 DEF ChangeOK, PatchOK, PatchRead
  <2>6. StartChange(w, c) BY <1>3 DEF PatchRead
  <2> HIDE DEF c, P
  <2>7. c.alone <=> NothingElse(w) BY DEF c
  <2> QED BY <1>1, <2>3, <2>4, <2>5, <2>6, <2>7, Started
<1>4. ASSUME Live(x), DeleteRead(w, x)
      PROVE  CatalogueInv'
  <2> DEFINE o == IF x \in Managed /\ Below(x) # {} THEN "close" ELSE "drop"
             c == [op |-> o, id |-> x, alone |-> NothingElse(w)]
  <2>1. o \in {"drop", "close"} /\ (o = "drop" /\ x \in Managed => Below(x) = {})
    OBVIOUS
  <2>2. StartChange(w, c) BY <1>4 DEF DeleteRead
  <2> HIDE DEF o
  <2>3. c \in Change
    <3>1. c \in [op: {"drop", "close"}, id: All, alone: BOOLEAN]
      BY <2>1 DEF NothingElse
    <3> QED BY <3>1 DEF Change
  <2>4. c # NoChange BY DEF NoChange
  <2>5. ChangeOK(c) BY <1>4, <2>1 DEF ChangeOK, DropOK, Live
  <2> HIDE DEF c
  <2>6. c.alone <=> NothingElse(w) BY DEF c
  <2> QED BY <1>1, <2>2, <2>3, <2>4, <2>5, <2>6, Started
<1> QED BY <1>2, <1>3, <1>4 DEF Serve

HistoryOK == OrphansOnlyByRaces /\ ChecksCoverIndexes

(* What one row may become without orphaning any: it was not deleted and      *)
(* points to deleted rows no more than it did, or it is deleted itself and    *)
(* nothing alive points to it.                                              *)
LEMMA OneRowWritten ==
  ASSUME CatalogueInv, NEW x \in All, NEW r \in Row, row' = [row EXCEPT ![x] = r],
         \/ /\ ~r.deleted
            /\ \A y \in r.above: y \in All /\ row[y].deleted =>
                 Live(x) /\ y \in row[x].above
         \/ /\ r.deleted
            /\ \A z \in All \ {x}: Live(z) => x \notin row[z].above
  PROVE  Orphans' \subseteq Orphans
<1>1. r # NoRow BY RowForms
<1>2. row'[x] = r /\ \A y \in All \ {x}: row'[y] = row[y] BY DEF CatalogueInv
<1>3. SUFFICES ASSUME NEW z \in All, NEW y, Live(z)', y \in row'[z].above, row'[y].deleted
               PROVE  z \in Orphans
  BY DEF Orphans
<1>4. y \in All
  <2>1. row'[z] \in Row BY <1>1, <1>2, <1>3 DEF CatalogueInv, Live, Exists
  <2> QED BY <1>3, <2>1, RowForms
<1>5. CASE y = x
  <2>1. r.deleted BY <1>2, <1>3, <1>5
  <2>2. z # x BY <1>2, <1>3, <2>1 DEF Live
  <2>3. Live(z) /\ x \in row[z].above BY <1>2, <1>3, <1>5, <2>2 DEF Live, Exists
  <2> QED BY <2>1, <2>2, <2>3
<1>6. CASE y # x
  <2>1. row[y].deleted BY <1>2, <1>3, <1>4, <1>6
  <2>2. CASE z = x
    <3>1. ~r.deleted /\ y \in r.above BY <1>2, <1>3, <2>2 DEF Live
    <3>2. Live(x) /\ y \in row[x].above BY <1>4, <2>1, <3>1
    <3> QED BY <2>1, <2>2, <3>2 DEF Orphans
  <2>3. CASE z # x
    BY <1>2, <1>3, <2>1, <2>3 DEF Orphans, Live, Exists
  <2> QED BY <2>2, <2>3
<1> QED BY <1>5, <1>6

LEMMA OneRowKept ==
  ASSUME CatalogueInv, NEW x \in All, NEW r \in Row, row' = [row EXCEPT ![x] = r],
         r.above \in Parents(x), NEW w \in Clients, change[w] # NoChange, EndChange(w)
  PROVE  CatalogueInv'
<1>1. r # NoRow BY RowForms
<1>2. row' \in [All -> Row \cup {NoRow}] BY DEF CatalogueInv
<1>3. row'[x] = r /\ \A y \in All \ {x}: row'[y] = row[y] BY DEF CatalogueInv
<1>4. \A y \in All: /\ Exists(y) => Exists(y)'
                    /\ Exists(y)' => row'[y].above \in Parents(y)
  BY <1>1, <1>3 DEF Exists, CatalogueInv
<1> QED BY <1>2, <1>4, Ended

LEMMA RowsUntouched ==
  ASSUME CatalogueInv, UNCHANGED row, NEW w \in Clients, change[w] # NoChange,
         EndChange(w)
  PROVE  CatalogueInv'
<1>1. row' \in [All -> Row \cup {NoRow}] BY DEF CatalogueInv
<1>2. \A y \in All: /\ Exists(y) => Exists(y)'
                    /\ Exists(y)' => row'[y].above \in Parents(y)
  BY DEF Exists, CatalogueInv
<1> QED BY <1>1, <1>2, Ended

LEMMA OrphansUntouched ==
  ASSUME UNCHANGED row
  PROVE  Orphans' = Orphans
BY DEF Orphans, Live, Exists

LEMMA UnderWay ==
  ASSUME CatalogueInv, NEW w \in Clients, change[w].op # "none"
  PROVE  /\ change[w] # NoChange /\ change[w] \in Change /\ change[w].id \in All
         /\ ChangeOK(change[w])
<1>1. change[w] # NoChange BY DEF NoChange
<1>2. change[w] \in Change /\ ChangeOK(change[w]) BY DEF CatalogueInv
<1> QED BY <1>1, <1>2, ChangeForms

LEMMA CreateCommitOK ==
  ASSUME CatalogueInv, HistoryOK, NEW w \in Clients, CreateCommit(w)
  PROVE  CatalogueInv' /\ HistoryOK'
<1> DEFINE c == change[w]
           x == c.id
           new == c.new
<1>1. c.op = "create" /\ ~Exists(x) /\ EndChange(w) BY DEF CreateCommit
<1>2. c # NoChange /\ c \in Change /\ ChangeOK(c) /\ x \in All
  BY <1>1, UnderWay
<1>3. /\ new \in NewRows(x)
      /\ c.alone => Chosen(new.above) /\ Fits(x, new)
  BY <1>1, <1>2 DEF ChangeOK, CreateOK
<1>4. new \in Row /\ new.above \in Parents(x) /\ ~new.deleted BY <1>2, <1>3, NewRowForms
<1>5. ASSUME row' = [row EXCEPT ![x] = new], Race(w), UNCHANGED refused
      PROVE  CatalogueInv' /\ HistoryOK'
  <2>1. CatalogueInv' BY <1>1, <1>2, <1>4, <1>5, OneRowKept
  <2>2. CASE c.alone
    <3>1. \A y \in new.above: ~row[y].deleted BY <1>3, <2>2 DEF Chosen, Live
    <3>2. Orphans' \subseteq Orphans
      BY <1>2, <1>4, <1>5, <3>1, OneRowWritten
    <3> QED BY <1>5, <2>1, <2>2, <3>2 DEF Race, HistoryOK, OrphansOnlyByRaces, ChecksCoverIndexes
  <2>3. CASE ~c.alone
    BY <1>5, <2>1, <2>3 DEF Race, HistoryOK, OrphansOnlyByRaces, ChecksCoverIndexes
  <2> QED BY <2>2, <2>3
<1>6. ASSUME ~Indexed(x, new), Refuse(w, "checked")
      PROVE  CatalogueInv' /\ HistoryOK'
  <2>1. ~c.alone BY <1>3, <1>6 DEF Fits
  <2>2. CatalogueInv' BY <1>1, <1>2, <1>6, RowsUntouched DEF Refuse
  <2>3. Orphans' = Orphans BY <1>6, OrphansUntouched DEF Refuse
  <2> QED BY <1>6, <2>1, <2>2, <2>3 DEF Refuse, HistoryOK, OrphansOnlyByRaces, ChecksCoverIndexes
<1> QED BY <1>5, <1>6 DEF CreateCommit

LEMMA PatchCommitOK ==
  ASSUME CatalogueInv, HistoryOK, NEW w \in Clients, PatchCommit(w)
  PROVE  CatalogueInv' /\ HistoryOK'
<1> DEFINE c == change[w]
           x == c.id
           new == Saved(c)
<1>1. c.op = "patch" /\ EndChange(w) BY DEF PatchCommit
<1>2. c # NoChange /\ c \in Change /\ ChangeOK(c) /\ x \in All
  BY <1>1, UnderWay
<1>3. /\ c.patch \in Patches(x) /\ c.copy \in Row /\ c.copy.above \in Parents(x)
      /\ Exists(x)
      /\ c.alone => /\ c.copy = row[x] /\ Live(x)
                    /\ Chosen(Patched(c.copy, c.patch).above \ c.copy.above)
                    /\ \/ Patched(c.copy, c.patch).code = Blank
                       \/ Fits(x, Patched(c.copy, c.patch))
  BY <1>1, <1>2 DEF ChangeOK, PatchOK
<1>4. row[x] \in Row /\ row[x].above \in Parents(x) BY <1>2, <1>3, RowOf
<1>5. new \in Row /\ new.above \in Parents(x)
  BY <1>2, <1>3, <1>4, PatchedForms DEF Saved
<1>6. c.alone => new = Patched(c.copy, c.patch)
  BY <1>3 DEF Saved
<1> HIDE DEF new
<1>7. ASSUME ~new.deleted, row' = [row EXCEPT ![x] = new], Race(w), UNCHANGED refused
      PROVE  CatalogueInv' /\ HistoryOK'
  <2>1. CatalogueInv' BY <1>1, <1>2, <1>5, <1>7, OneRowKept
  <2>2. CASE c.alone
    <3>1. \A y \in new.above: row[y].deleted => Live(x) /\ y \in row[x].above
      BY <1>3, <1>6, <2>2 DEF Chosen, Live
    <3>2. Orphans' \subseteq Orphans
      BY <1>2, <1>5, <1>7, <3>1, OneRowWritten
    <3> QED BY <1>7, <2>1, <2>2, <3>2 DEF Race, HistoryOK, OrphansOnlyByRaces, ChecksCoverIndexes
  <2>3. CASE ~c.alone
    BY <1>7, <2>1, <2>3 DEF Race, HistoryOK, OrphansOnlyByRaces, ChecksCoverIndexes
  <2> QED BY <2>2, <2>3
<1>8. ASSUME ~Indexed(x, new), Refuse(w, IF new.code = Blank THEN "blank" ELSE "checked")
      PROVE  CatalogueInv' /\ HistoryOK'
  <2>1. ~c.alone \/ new.code = Blank BY <1>3, <1>6, <1>8 DEF Fits
  <2>2. CatalogueInv' BY <1>1, <1>2, <1>8, RowsUntouched DEF Refuse
  <2>3. Orphans' = Orphans BY <1>8, OrphansUntouched DEF Refuse
  <2> QED BY <1>8, <2>1, <2>2, <2>3 DEF Refuse, HistoryOK, OrphansOnlyByRaces, ChecksCoverIndexes
<1>9. ASSUME UNCHANGED <<row, raced, refused>>
      PROVE  CatalogueInv' /\ HistoryOK'
  BY <1>1, <1>2, <1>9, RowsUntouched, OrphansUntouched
  DEF HistoryOK, OrphansOnlyByRaces, ChecksCoverIndexes
<1> QED BY <1>7, <1>8, <1>9 DEF PatchCommit, new

LEMMA DropCommitOK ==
  ASSUME CatalogueInv, HistoryOK, NEW w \in Clients, DropCommit(w)
  PROVE  CatalogueInv' /\ HistoryOK'
<1> DEFINE c == change[w]
           x == c.id
           r == [row[x] EXCEPT !.deleted = TRUE]
<1>1. /\ c.op = "drop" /\ EndChange(w) /\ Race(w) /\ UNCHANGED refused
      /\ row' = [row EXCEPT ![x].deleted = TRUE]
  BY DEF DropCommit
<1>2. c # NoChange /\ c \in Change /\ ChangeOK(c) /\ x \in All
  BY <1>1, UnderWay
<1>3. Exists(x) /\ (c.alone /\ x \in Managed => Below(x) = {})
  BY <1>1, <1>2 DEF ChangeOK, DropOK
<1>4. row[x] \in Row /\ row[x].above \in Parents(x) BY <1>2, <1>3, RowOf
<1>5. r \in Row /\ r.above \in Parents(x) /\ r.deleted /\ row' = [row EXCEPT ![x] = r]
  BY <1>1, <1>4 DEF Row
<1> HIDE DEF r
<1>6. CatalogueInv' BY <1>1, <1>2, <1>5, OneRowKept
<1>7. CASE c.alone
  <2>1. ASSUME NEW z \in All \ {x}, Live(z), x \in row[z].above
        PROVE  FALSE
    <3>1. row[z].above \in Parents(z) BY <2>1, RowOf DEF Live
    <3>2. Parents(z) \subseteq SUBSET Managed BY DEF Parents, Managed, Places, All
    <3>3. Below(x) = {} BY <1>3, <1>7, <2>1, <3>1, <3>2
    <3>4. x \in Up({z}) BY <2>1 DEF Up, Live
    <3>5. x \in Above(z) BY <2>1, <3>4 DEF Above, Up
    <3> QED BY <2>1, <3>3, <3>5 DEF Below
  <2>2. Orphans' \subseteq Orphans BY <1>2, <1>5, <2>1, OneRowWritten
  <2> QED BY <1>1, <1>6, <1>7, <2>2 DEF Race, HistoryOK, OrphansOnlyByRaces, ChecksCoverIndexes
<1>8. CASE ~c.alone
  BY <1>1, <1>6, <1>8 DEF Race, HistoryOK, OrphansOnlyByRaces, ChecksCoverIndexes
<1> QED BY <1>7, <1>8

LEMMA DeactivateCommitOK ==
  ASSUME CatalogueInv, HistoryOK, NEW w \in Clients, DeactivateCommit(w)
  PROVE  CatalogueInv' /\ HistoryOK'
<1>1. /\ change[w].op = "close" /\ EndChange(w) /\ UNCHANGED <<raced, refused>>
      /\ row' = [y \in All |-> IF y \in Closed(change[w].id)
                               THEN [row[y] EXCEPT !.active = FALSE] ELSE row[y]]
  BY DEF DeactivateCommit
<1>2. /\ change[w] # NoChange /\ change[w].id \in All /\ Exists(change[w].id)
  BY <1>1, UnderWay DEF ChangeOK, DropOK
<1>3. ASSUME NEW y \in All
      PROVE  /\ row'[y] \in Row \cup {NoRow}
             /\ Exists(y)' <=> Exists(y)
             /\ Exists(y) => /\ row'[y].above = row[y].above
                             /\ row'[y].deleted = row[y].deleted
  <2>1. row'[y] = IF y \in Closed(change[w].id)
                  THEN [row[y] EXCEPT !.active = FALSE] ELSE row[y]
    BY <1>1
  <2>2. CASE y \in Closed(change[w].id)
    <3>1. Exists(y) BY <1>2, <2>2 DEF Closed, Live
    <3>2. row[y] \in Row BY <3>1, RowOf
    <3>3. /\ row'[y] \in Row /\ row'[y].above = row[y].above
          /\ row'[y].deleted = row[y].deleted
      BY <2>1, <2>2, <3>2 DEF Row
    <3> QED BY <3>1, <3>3, RowForms DEF Exists
  <2>3. CASE y \notin Closed(change[w].id)
    BY <2>1, <2>3 DEF CatalogueInv, Exists
  <2> QED BY <2>2, <2>3
<1>4. row' \in [All -> Row \cup {NoRow}] BY <1>1, <1>3
<1>5. \A y \in All: /\ Exists(y) => Exists(y)'
                    /\ Exists(y)' => row'[y].above \in Parents(y)
  BY <1>3 DEF CatalogueInv
<1>6. CatalogueInv' BY <1>1, <1>2, <1>4, <1>5, Ended
<1>7. Orphans' \subseteq Orphans
  <2>1. SUFFICES ASSUME NEW z \in All, NEW y, Live(z)', y \in row'[z].above,
                        row'[y].deleted
                 PROVE  z \in Orphans
    BY DEF Orphans
  <2>2. Live(z) /\ y \in row[z].above BY <1>3, <2>1 DEF Live
  <2>3. row[z] \in Row /\ y \in All BY <2>2, RowOf, RowForms DEF Live
  <2>4. CASE Exists(y) BY <1>3, <2>1, <2>2, <2>3, <2>4 DEF Orphans
  <2>5. CASE ~Exists(y)
    <3>1. row'[y] = row[y] BY <1>3, <2>3, <2>5 DEF Exists
    <3> QED BY <2>1, <2>2, <3>1 DEF Orphans
  <2> QED BY <2>4, <2>5
<1> QED BY <1>1, <1>6, <1>7 DEF HistoryOK, OrphansOnlyByRaces, ChecksCoverIndexes

LEMMA NextForms ==
  ASSUME CatalogueNext
  PROVE  \E w \in Clients:
           \/ \E x \in All: Serve(w, x)
           \/ CreateCommit(w) \/ PatchCommit(w) \/ DropCommit(w) \/ DeactivateCommit(w)
           \/ Fail(w)
BY DEF CatalogueNext, CampusRequest, BuildingRequest, RoomRequest, CategoryRequest,
       EventRequest, All, Managed, Places

LEMMA RowsServed ==
  ASSUME NEW w, NEW x, Serve(w, x)
  PROVE  UNCHANGED <<row, raced, refused>>
BY DEF Serve, CreateRead, PatchRead, DeleteRead, StartChange

LEMMA CatalogueStep ==
  ASSUME CatalogueInv, HistoryOK, [CatalogueNext]_catalogueVars
  PROVE  CatalogueInv' /\ HistoryOK'
<1>1. CASE UNCHANGED catalogueVars
  <2>1. OrphansOnlyByRaces' /\ ChecksCoverIndexes'
    BY <1>1, OrphansUntouched
    DEF HistoryOK, OrphansOnlyByRaces, ChecksCoverIndexes, catalogueVars
  <2>2. ASSUME NEW v \in Clients
        PROVE  /\ change'[v] # NoChange /\ change'[v].alone => NothingElse(v)'
               /\ ChangeOK(change[v])'
    <3>1. PICK d: d = change[v] OBVIOUS
    <3>2. ChangeOK(d) /\ change'[v] = d BY <1>1, <3>1 DEF CatalogueInv, catalogueVars
    <3>3. ChangeOK(change[v])' BY <1>1, <3>2, RowsStill DEF catalogueVars
    <3> QED BY <1>1, <3>3 DEF CatalogueInv, catalogueVars, NothingElse
  <2>3. /\ row' \in [All -> Row \cup {NoRow}] /\ change' \in [Clients -> Change]
        /\ \A x \in All: Exists(x)' => row'[x].above \in Parents(x)
    BY <1>1 DEF CatalogueInv, catalogueVars, Exists
  <2> QED BY <2>1, <2>2, <2>3 DEF CatalogueInv, HistoryOK
<1>2. ASSUME NEW w \in Clients, NEW x \in All, Serve(w, x)
      PROVE  CatalogueInv' /\ HistoryOK'
  <2>1. CatalogueInv' BY <1>2, ServeOK
  <2>2. UNCHANGED <<row, raced, refused>>
    BY <1>2, RowsServed
  <2> QED BY <2>1, <2>2, OrphansUntouched DEF HistoryOK, OrphansOnlyByRaces, ChecksCoverIndexes
<1>3. ASSUME NEW w \in Clients, Fail(w)
      PROVE  CatalogueInv' /\ HistoryOK'
  <2>1. CatalogueInv' BY <1>3, RowsUntouched DEF Fail
  <2> QED BY <1>3, <2>1, OrphansUntouched
          DEF Fail, HistoryOK, OrphansOnlyByRaces, ChecksCoverIndexes
<1>4. CASE CatalogueNext
  <2>1. PICK w \in Clients:
          \/ \E x \in All: Serve(w, x)
          \/ CreateCommit(w) \/ PatchCommit(w) \/ DropCommit(w) \/ DeactivateCommit(w)
          \/ Fail(w)
    BY <1>4, NextForms
  <2> QED BY <1>2, <1>3, <2>1, CreateCommitOK, PatchCommitOK, DropCommitOK, DeactivateCommitOK
<1> QED BY <1>1, <1>4

LEMMA CatalogueStart == CatalogueInit => CatalogueInv /\ HistoryOK
<1> SUFFICES ASSUME CatalogueInit PROVE CatalogueInv /\ HistoryOK
  OBVIOUS
<1>1. \A x \in All: ~Exists(x) BY DEF CatalogueInit, Exists
<1>2. \A w \in Clients: change[w] = NoChange BY DEF CatalogueInit
<1>3. CatalogueInv
  BY <1>1, <1>2 DEF CatalogueInit, CatalogueInv, Change, NoChange, ChangeOK
<1> QED BY <1>1, <1>3 DEF HistoryOK, OrphansOnlyByRaces, ChecksCoverIndexes, Orphans, Live,
                          CatalogueInit

LEMMA CatalogueHolds == CatalogueSpec => [](CatalogueInv /\ HistoryOK)
BY CatalogueStart, CatalogueStep, PTL DEF CatalogueSpec

(* The deletions that count what is below a place or category, and the        *)
(* creations that look for what is above, leave nothing live under a deleted  *)
(* row unless two of them overlap.                                          *)
THEOREM OnlyRacesOrphan == CatalogueSpec => []OrphansOnlyByRaces
<1>1. HistoryOK => OrphansOnlyByRaces BY DEF HistoryOK
<1> QED BY <1>1, CatalogueHolds, PTL

(* The serializers' uniqueness tests refuse all that the unique indexes would, *)
(* so that a request that runs alone is never answered by a database error.  *)
THEOREM TestsCoverIndexes == CatalogueSpec => []ChecksCoverIndexes
<1>1. HistoryOK => ChecksCoverIndexes BY DEF HistoryOK
<1> QED BY <1>1, CatalogueHolds, PTL

(* No stale copy of a PATCH brings back a deleted place or category, or makes  *)
(* an inactive one active that was not asked to be.                          *)
THEOREM ReturnsAreAsked == CatalogueSpec => OnlyAskedToReturn
<1>1. ASSUME CatalogueInv, [CatalogueNext]_catalogueVars, NEW x \in Managed, Exists(x)
      PROVE  /\ row[x].deleted => row'[x].deleted
             /\ ~row[x].active /\ row'[x].active =>
                  \E w \in Clients:
                    change[w].op = "patch" /\ change[w].id = x
                      /\ "active" \in DOMAIN change[w].patch
  <2>1. x \in All /\ x \notin Events BY TablesApart DEF All
  <2>2. row[x] \in Row BY <1>1, <2>1, RowOf
  <2>3. CASE row'[x] = row[x] BY <2>2, <2>3, RowForms
  <2>4. ASSUME NEW w \in Clients, CreateCommit(w) PROVE row'[x] = row[x]
    BY <1>1, <2>1, <2>4 DEF CreateCommit, Refuse, CatalogueInv, Exists
  <2>5. ASSUME NEW w \in Clients, DropCommit(w)
        PROVE  row'[x].active = row[x].active /\ (row[x].deleted => row'[x].deleted)
    BY <2>1, <2>2, <2>5 DEF DropCommit, CatalogueInv, Row
  <2>6. ASSUME NEW w \in Clients, DeactivateCommit(w)
        PROVE  (row'[x].active => row[x].active) /\ (row[x].deleted => row'[x].deleted)
    <3>1. row'[x] = row[x] \/ row'[x] = [row[x] EXCEPT !.active = FALSE]
      BY <2>1, <2>6 DEF DeactivateCommit
    <3> QED BY <2>2, <3>1 DEF Row
  <2>7. ASSUME NEW w \in Clients, PatchCommit(w), row'[x] # row[x]
        PROVE  /\ row[x].deleted => row'[x].deleted
               /\ ~row[x].active /\ row'[x].active =>
                  /\ change[w].op = "patch" /\ change[w].id = x
                  /\ "active" \in DOMAIN change[w].patch
    <3>1. change[w].op = "patch" BY <2>7 DEF PatchCommit
    <3>2. /\ change[w].id \in All
          /\ change[w].patch \in Patches(change[w].id)
      BY <1>1, <3>1, UnderWay DEF ChangeOK, PatchOK
    <3>3. change[w].id = x /\ row'[x] = Saved(change[w])
      BY <1>1, <2>1, <2>7 DEF PatchCommit, Refuse, CatalogueInv
    <3>4. row'[x] = Patched(row[x], change[w].patch) BY <2>1, <3>3 DEF Saved
    <3>5. row[x].above \in Parents(x) BY <1>1, <2>1, RowOf
    <3>6. /\ row'[x].deleted = row[x].deleted
          /\ "active" \notin DOMAIN change[w].patch => row'[x].active = row[x].active
      BY <2>1, <2>2, <3>2, <3>3, <3>4, <3>5, PatchedForms
    <3> QED BY <3>1, <3>3, <3>6
  <2>8. \/ row'[x] = row[x]
        \/ \E w \in Clients: \/ CreateCommit(w) \/ PatchCommit(w) \/ DropCommit(w)
                             \/ DeactivateCommit(w)
    <3>1. CASE UNCHANGED catalogueVars BY <3>1 DEF catalogueVars
    <3>2. CASE CatalogueNext BY <3>2, NextForms, RowsServed DEF Fail
    <3> QED BY <1>1, <3>1, <3>2
  <2> QED BY <2>3, <2>4, <2>5, <2>6, <2>7, <2>8
<1>2. CatalogueInv /\ [CatalogueNext]_catalogueVars =>
        [\A x \in Managed: Exists(x) =>
           /\ row[x].deleted => row'[x].deleted
           /\ ~row[x].active /\ row'[x].active =>
                \E w \in Clients:
                  change[w].op = "patch" /\ change[w].id = x
                    /\ "active" \in DOMAIN change[w].patch]_catalogueVars
  BY <1>1
<1> QED BY <1>2, CatalogueHolds, PTL DEF CatalogueSpec, OnlyAskedToReturn

------------------------------------------------------------------------------
(* SupportTickets                                                           *)

(* A write under the lock takes its time there, so that the ticket was not     *)
(* updated before it was resolved unless a late message came last; no stamp   *)
(* and no resolution is of a day to come.                                   *)
MessagesOK ==
  /\ post \in [Posters -> Message]
  /\ \A p \in Posters: post[p].at = "writing" => post[p].day \in Days /\ post[p].day <= today

NoMessages == \A p \in Posters: post[p] = NoMessage

TicketInv ==
  /\ ticket \in Ticket \cup {NoTicket}
  /\ today \in Days /\ resolvedOn \in Days \cup {0} /\ late \in BOOLEAN
  /\ answered \in BOOLEAN /\ reopened \in BOOLEAN
  /\ MessagesOK /\ resolvedOn <= today
  /\ TicketExists => /\ ~late => resolvedOn <= ticket.updated
                     /\ ticket.updated <= today
  /\ ~TicketExists => ~answered /\ resolvedOn = 0 /\ NoMessages
  /\ AnsweredNotOpen

LEMMA TicketForms ==
  ASSUME NEW t \in Ticket
  PROVE  /\ t # NoTicket
         /\ t.status \in TicketStatus /\ t.priority \in Priority
         /\ t.assigned \in BOOLEAN /\ t.updated \in Days
<1>1. t # NoTicket BY DEF Ticket, NoTicket
<1> QED BY <1>1 DEF Ticket

LEMMA DaysCount == Days \subseteq Nat /\ 0 \in Nat
BY SupportTicketsAssumption DEF SupportTicketsAssumption

LEMMA MessageForms ==
  /\ NoMessage.at = "idle" /\ NoMessage \in Message
  /\ [at |-> "checked"].at = "checked"
BY DEF NoMessage, Message

LEMMA EscalatedForms ==
  ASSUME NEW p \in Priority
  PROVE  Escalated(p) \in Priority
<1>1. PICK i \in 1..4: PriorityOrder[i] = p BY DEF Priority
<1>2. Index(p) \in 1..4 BY <1>1 DEF Index
<1>3. (IF Index(p) = 4 THEN 4 ELSE Index(p) + 1) \in 1..4 BY <1>2
<1> QED BY <1>3 DEF Escalated, Priority

(* Whatever is written, the ticket is stamped.                               *)
LEMMA TouchedOK ==
  ASSUME TicketInv, TicketExists, NEW t \in Ticket, Touched(t), UNCHANGED <<post, today>>,
         answered' \in BOOLEAN, reopened' \in BOOLEAN,
         answered' /\ t.status = "open" => reopened'
  PROVE  TicketInv'
<1> USE SupportTicketsAssumption DEF SupportTicketsAssumption
<1>1. /\ ticket' = [t EXCEPT !.updated = today] /\ today \in Days
  BY DEF Touched, Stamped, TicketInv
<1>2. /\ ticket' \in Ticket /\ ticket'.updated = today /\ ticket'.status = t.status
  BY <1>1 DEF Ticket
<1>3. ticket' # NoTicket /\ TicketExists' BY <1>2, TicketForms DEF TicketExists
<1>4. resolvedOn \in Days \cup {0} /\ resolvedOn <= today /\ MessagesOK'
  BY DEF TicketInv, MessagesOK
<1>5. /\ resolvedOn' \in Days \cup {0} /\ resolvedOn' <= today /\ today <= today
      /\ late' = FALSE
  BY <1>1, <1>4 DEF Touched
<1> QED BY <1>1, <1>2, <1>3, <1>4, <1>5 DEF TicketInv, AnsweredNotOpen

LEMMA TicketStep == TicketInv /\ [TicketNext]_ticketVars => TicketInv'
<1> SUFFICES ASSUME TicketInv, [TicketNext]_ticketVars PROVE TicketInv'
  OBVIOUS
<1> USE SupportTicketsAssumption DEF SupportTicketsAssumption
<1>1. CASE UNCHANGED ticketVars
  BY <1>1 DEF ticketVars, TicketInv, MessagesOK, NoMessages, TicketExists, AnsweredNotOpen
<1>2. CASE NextDay
  <2>1. /\ UNCHANGED <<ticket, post, resolvedOn, late, answered, reopened>>
        /\ today' = today + 1 /\ today' \in Days
    BY <1>2 DEF NextDay
  <2>2. TicketExists => ticket.updated \in Days
    BY TicketForms DEF TicketInv, TicketExists
  <2>3. TicketExists => ticket.updated <= today'
    <3> SUFFICES ASSUME TicketExists PROVE ticket.updated <= today'
      OBVIOUS
    <3>1. today \in Days /\ ticket.updated <= today BY DEF TicketInv
    <3>2. today \in Nat /\ ticket.updated \in Nat BY <2>2, <3>1, DaysCount
    <3> QED BY <2>1, <3>1, <3>2
  <2>4. resolvedOn' <= today' BY <2>1 DEF TicketInv
  <2>5. MessagesOK'
    <3> SUFFICES ASSUME NEW p \in Posters, post[p].at = "writing"
                 PROVE  post[p].day \in Days /\ post[p].day <= today'
      BY <2>1 DEF TicketInv, MessagesOK
    <3>1. post[p].day \in Days /\ post[p].day <= today BY DEF TicketInv, MessagesOK
    <3>2. today \in Days BY DEF TicketInv
    <3>3. today \in Nat /\ post[p].day \in Nat BY <3>1, <3>2, DaysCount
    <3> QED BY <2>1, <3>1, <3>3
  <2> QED BY <2>1, <2>3, <2>4, <2>5 DEF TicketInv, NoMessages, TicketExists, AnsweredNotOpen
<1>3. CASE CreateTicket
  <2>1. /\ ticket' = [status |-> "open", priority |-> "medium", assigned |-> FALSE,
                      updated |-> today]
        /\ UNCHANGED <<post, today, resolvedOn, late, answered, reopened>>
        /\ ~answered /\ resolvedOn = 0
    BY <1>3 DEF CreateTicket, TicketInv
  <2>2. "medium" \in Priority
    <3>1. PriorityOrder[2] = "medium" BY DEF PriorityOrder
    <3> QED BY <3>1 DEF Priority
  <2>3. ticket' \in Ticket BY <2>1, <2>2 DEF Ticket, TicketStatus, TicketInv
  <2>4. TicketExists' BY <2>3, TicketForms DEF TicketExists
  <2>5. /\ ticket'.updated = today /\ today <= today /\ 0 <= today
        /\ MessagesOK'
    BY <2>1 DEF TicketInv, MessagesOK
  <2> QED BY <2>1, <2>3, <2>4, <2>5 DEF TicketInv, AnsweredNotOpen
<1>4. ASSUME NEW p \in Posters, MessageRead(p) \/ MessageStamp(p) \/ MessageFails(p)
      PROVE  TicketInv'
  <2>1. /\ UNCHANGED <<ticket, today, resolvedOn, late, answered, reopened>>
        /\ MessagesOK /\ TicketExists
        /\ \E x \in {NoMessage, [at |-> "checked"], [at |-> "writing", day |-> today]}:
             post' = [post EXCEPT ![p] = x]
    <3>1. TicketExists
      BY <1>4, MessageForms DEF MessageRead, MessageStamp, MessageFails, TicketInv, NoMessages
    <3> QED BY <1>4, <3>1 DEF MessageRead, MessageStamp, MessageFails, TicketInv
  <2>2. PICK x \in {NoMessage, [at |-> "checked"], [at |-> "writing", day |-> today]}:
          post' = [post EXCEPT ![p] = x]
    BY <2>1
  <2>3. /\ x \in Message
        /\ x.at = "writing" => x.day = today
    BY MessageForms DEF TicketInv, Message
  <2>4. post' \in [Posters -> Message] /\ post'[p] = x
        /\ \A q \in Posters \ {p}: post'[q] = post[q]
    BY <2>1, <2>2, <2>3 DEF MessagesOK
  <2>5. today \in Days /\ today <= today BY DEF TicketInv
  <2>6. \A q \in Posters: post'[q].at = "writing" => post'[q].day \in Days /\ post'[q].day <= today
    BY <2>1, <2>3, <2>4, <2>5 DEF MessagesOK
  <2>7. MessagesOK' BY <2>1, <2>4, <2>6 DEF MessagesOK
  <2> QED BY <2>1, <2>7 DEF TicketInv, TicketExists, AnsweredNotOpen
<1>5. ASSUME NEW p \in Posters, MessageCommit(p)
      PROVE  TicketInv'
  <2>1. TicketExists /\ ticket \in Ticket
    BY <1>5, MessageForms DEF MessageCommit, TicketInv, NoMessages, TicketExists
  <2>2. /\ ticket' = [ticket EXCEPT !.updated = post[p].day]
        /\ late' = (post[p].day < resolvedOn)
        /\ post' = [post EXCEPT ![p] = NoMessage]
        /\ UNCHANGED <<today, resolvedOn, answered, reopened>>
        /\ post[p].at = "writing"
    BY <1>5 DEF MessageCommit, Posted
  <2>3. post[p].day \in Days /\ post[p].day <= today BY <2>2 DEF TicketInv, MessagesOK
  <2>4. /\ ticket' \in Ticket /\ ticket'.updated = post[p].day
        /\ ticket'.status = ticket.status
    BY <2>1, <2>2, <2>3 DEF Ticket
  <2>5. ticket' # NoTicket /\ TicketExists' BY <2>4, TicketForms DEF TicketExists
  <2>6. /\ post' \in [Posters -> Message] /\ post'[p] = NoMessage
        /\ \A q \in Posters \ {p}: post'[q] = post[q]
    BY <2>2 DEF TicketInv, MessagesOK, Message
  <2>7. \A q \in Posters: post'[q].at = "writing" => post'[q].day \in Days /\ post'[q].day <= today
    BY <2>6, MessageForms DEF TicketInv, MessagesOK
  <2>9. MessagesOK' BY <2>2, <2>6, <2>7 DEF MessagesOK
  <2>8. late' \in BOOLEAN /\ (~late' => resolvedOn <= post[p].day)
    <3>0. resolvedOn \in Days \cup {0} BY DEF TicketInv
    <3>1. post[p].day \in Nat /\ resolvedOn \in Nat BY <2>3, <3>0, DaysCount
    <3>2. ~(post[p].day < resolvedOn) => resolvedOn <= post[p].day BY <3>1
    <3>3. late' \in BOOLEAN BY <2>2
    <3>4. late' <=> post[p].day < resolvedOn BY <2>2
    <3> QED BY <3>2, <3>3, <3>4
  <2> QED BY <2>2, <2>3, <2>4, <2>5, <2>8, <2>9 DEF TicketInv, AnsweredNotOpen
<1>6. ASSUME NEW s \in TicketStatus, NEW p \in Priority, NEW a \in BOOLEAN,
             UpdateTicket(s, p, a)
      PROVE  TicketInv'
  <2> DEFINE t == [ticket EXCEPT !.status = s, !.priority = p, !.assigned = a]
  <2>1. TicketExists /\ ticket \in Ticket
    BY <1>6 DEF UpdateTicket, TicketInv, TicketExists
  <2>2. t \in Ticket /\ t.status = s BY <2>1 DEF Ticket
  <2>3. Touched(t) /\ UNCHANGED <<post, today, answered>>
        /\ reopened' = (reopened \/ (s = "open" /\ ticket.status # "open"))
    BY <1>6 DEF UpdateTicket
  <2> HIDE DEF t
  <2> QED BY <2>1, <2>2, <2>3, TouchedOK DEF TicketInv, AnsweredNotOpen
<1>7. CASE Reply
  <2> DEFINE t == [ticket EXCEPT !.status = InProgress(@)]
  <2>1. TicketExists /\ ticket \in Ticket
    BY <1>7 DEF Reply, TicketInv, TicketExists
  <2>2. t \in Ticket /\ t.status # "open"
    BY <2>1 DEF Ticket, InProgress, TicketStatus
  <2>3. Touched(t) /\ UNCHANGED <<post, today, reopened>> /\ answered' = TRUE
    BY <1>7 DEF Reply
  <2> HIDE DEF t
  <2> QED BY <2>1, <2>2, <2>3, TouchedOK DEF TicketInv
<1>8. ASSUME NEW note \in BOOLEAN, Resolve(note)
      PROVE  TicketInv'
  <2> DEFINE t == [ticket EXCEPT !.status = "resolved"]
  <2>1. TicketExists /\ ticket \in Ticket
    BY <1>8 DEF Resolve, TicketInv, TicketExists
  <2>2. t \in Ticket /\ t.status # "open" BY <2>1 DEF Ticket, TicketStatus
  <2>3. Touched(t) /\ UNCHANGED <<post, today, reopened>> /\ answered' = (answered \/ note)
    BY <1>8 DEF Resolve
  <2> HIDE DEF t
  <2> QED BY <2>1, <2>2, <2>3, TouchedOK DEF TicketInv
<1>9. CASE Escalate
  <2> DEFINE t == [ticket EXCEPT !.priority = Escalated(@), !.status = InProgress(@)]
  <2>1. TicketExists /\ ticket \in Ticket
    BY <1>9 DEF Escalate, TicketInv, TicketExists
  <2>2. Escalated(ticket.priority) \in Priority BY <2>1, TicketForms, EscalatedForms
  <2>3. t \in Ticket /\ t.status # "open"
    BY <2>1, <2>2 DEF Ticket, InProgress, TicketStatus
  <2>4. Touched(t) /\ UNCHANGED <<post, today, answered, reopened>>
    BY <1>9 DEF Escalate
  <2> HIDE DEF t
  <2> QED BY <2>1, <2>3, <2>4, TouchedOK DEF TicketInv
<1> QED BY <1>1, <1>2, <1>3, <1>4, <1>5, <1>6, <1>7, <1>8, <1>9 DEF TicketNext

LEMMA TicketsKept == TicketSpec => []TicketInv
<1>1. TicketInit => TicketInv
  <2> SUFFICES ASSUME TicketInit PROVE TicketInv
    OBVIOUS
  <2> USE SupportTicketsAssumption DEF SupportTicketsAssumption, TicketInit
  <2>1. ~TicketExists /\ AnsweredNotOpen BY DEF TicketExists, AnsweredNotOpen
  <2>2. MessagesOK BY MessageForms DEF MessagesOK
  <2>3. NoMessages BY DEF NoMessages
  <2>4. today \in Days /\ resolvedOn <= today OBVIOUS
  <2> QED BY <2>1, <2>2, <2>3, <2>4 DEF TicketInv
<1> QED BY <1>1, TicketStep, PTL DEF TicketSpec

(* Neither a message of the user nor an escalation reopens a ticket that staff *)
(* has answered; an administrator alone does.                                *)
THEOREM AnswersStay == TicketSpec => []AnsweredNotOpen
<1>1. TicketInv => AnsweredNotOpen BY DEF TicketInv
<1> QED BY <1>1, TicketsKept, PTL

(* get_statistics counts each ticket resolved today that was not last written   *)
(* by a message that took its time before the day of the resolution.          *)
THEOREM CountsAreRight == TicketSpec => []ResolvedTodayCounted
<1>1. TicketInv => ResolvedTodayCounted
  <2> SUFFICES ASSUME TicketInv, TicketExists, ticket.status = "resolved",
                      resolvedOn = today, ~late
               PROVE  CountedToday
    BY DEF ResolvedTodayCounted
  <2>1. ticket.updated \in Days /\ today \in Days /\ resolvedOn \in Days \cup {0}
    BY TicketForms DEF TicketInv, TicketExists
  <2>2. resolvedOn <= ticket.updated /\ ticket.updated <= today BY DEF TicketInv
  <2>3. ticket.updated = today
    <3>1. ticket.updated \in Nat /\ today \in Nat BY <2>1, DaysCount
    <3>2. today <= ticket.updated BY <2>2
    <3> QED BY <2>2, <3>1, <3>2
  <2> QED BY <2>3 DEF CountedToday
<1> QED BY <1>1, TicketsKept, PTL

------------------------------------------------------------------------------
(* HelpCenter                                                               *)

(* A time of publication is given to one page only; edits in progress may     *)
(* hold one that they read, and write it back to that page.                  *)
HasTime(x, t) ==
  \/ PageExists(x) /\ page[x].published_at = t
  \/ \E e \in PageEditors: /\ editing[e].of = "page" /\ editing[e].page = x
                           /\ editing[e].copy.published_at = t

HelpInv ==
  /\ category \in Category
  /\ page \in [Pages -> Page \cup {NoPage}]
  /\ editing \in [PageEditors -> Editing]
  /\ now \in Clock \cup {0}
  /\ \A x \in Pages, t \in Clock: HasTime(x, t) => t <= now
  /\ \A x, y \in Pages, t \in Clock: HasTime(x, t) /\ HasTime(y, t) => x = y
  /\ \A x \in Pages: page[x].status = "published" => page[x].published_at # 0

LEMMA PageForms ==
  ASSUME NEW r \in Page
  PROVE  /\ r # NoPage /\ r.status \in PageStatus
         /\ r.published_at \in Clock \cup {0} /\ r.deleted \in BOOLEAN
<1>1. r # NoPage BY DEF Page, NoPage
<1> QED BY <1>1 DEF Page

LEMMA EditForms ==
  ASSUME NEW c \in Editing
  PROVE  /\ c.of = "page" => c.page \in Pages /\ c.copy \in Page /\ c.status \in PageStatus
         /\ c.of = "category" => c.copy \in Category /\ c.is_active \in BOOLEAN
         /\ c # NoEdit => c.of \in {"page", "category"}
<1>1. CASE c = NoEdit BY <1>1 DEF NoEdit
<1>2. CASE c \in [of: {"page"}, page: Pages, copy: Page, status: PageStatus]
  BY <1>2
<1>3. CASE c \in [of: {"category"}, copy: Category, is_active: BOOLEAN]
  BY <1>3
<1> QED BY <1>1, <1>2, <1>3 DEF Editing

(* What publishing makes of a row: the time is the row's own or a new one.    *)
LEMMA PublishedForms ==
  ASSUME NEW r \in Page, NEW s \in PageStatus, now \in Clock \cup {0}
  PROVE  /\ Published(r, s).status = s /\ Published(r, s).deleted = r.deleted
         /\ Published(r, s) =
              [status |-> s, published_at |-> Published(r, s).published_at,
               deleted |-> r.deleted]
         /\ \/ Published(r, s).published_at = r.published_at
               /\ (s = "published" => r.published_at # 0)
            \/ Published(r, s).published_at = now + 1 /\ r.published_at = 0
<1> DEFINE p == IF s = "published" /\ r.published_at = 0 THEN now + 1 ELSE r.published_at
           q == Published(r, s)
<1>1. r = [status |-> r.status, published_at |-> r.published_at, deleted |-> r.deleted]
  BY DEF Page
<1>2. q = [r EXCEPT !.status = s, !.published_at = p] BY DEF Published
<1> HIDE DEF p, q
<1>3. q = [status |-> s, published_at |-> p, deleted |-> r.deleted]
  BY <1>1, <1>2
<1>4. \/ p = r.published_at /\ (s = "published" => r.published_at # 0)
      \/ p = now + 1 /\ r.published_at = 0
  BY DEF p
<1>5. q.status = s /\ q.deleted = r.deleted /\ q.published_at = p BY <1>3
<1> QED BY <1>3, <1>4, <1>5 DEF q

LEMMA DeletedForm ==
  ASSUME NEW r \in Page
  PROVE  [r EXCEPT !.deleted = TRUE] =
           [status |-> r.status, published_at |-> r.published_at, deleted |-> TRUE]
<1> DEFINE q == [r EXCEPT !.deleted = TRUE]
<1>1. r = [status |-> r.status, published_at |-> r.published_at, deleted |-> r.deleted]
  BY DEF Page
<1>2. DOMAIN r = {"status", "published_at", "deleted"} BY <1>1
<1>3. /\ DOMAIN q = {"status", "published_at", "deleted"}
      /\ q.status = r.status /\ q.published_at = r.published_at /\ q.deleted = TRUE
  BY <1>2
<1>4. q = [k \in {"status", "published_at", "deleted"} |-> q[k]] BY <1>3
<1> HIDE DEF q
<1>5. q = [status |-> r.status, published_at |-> r.published_at, deleted |-> TRUE]
  BY <1>3, <1>4
<1> QED BY <1>5 DEF q

(* A write of a page: it keeps a time that was the page's, or takes a new one.*)
LEMMA WriteOK ==
  ASSUME HelpInv, NEW x \in Pages, NEW r, Write(x, r), UNCHANGED category,
         r = [status |-> r.status, published_at |-> r.published_at,
              deleted |-> r.deleted],
         r.status \in PageStatus, r.deleted \in BOOLEAN,
         r.status = "published" => r.published_at # 0,
         \/ r.published_at = 0
         \/ r.published_at \in Clock /\ HasTime(x, r.published_at)
         \/ r.published_at = now + 1,
         editing' \in [PageEditors -> Editing],
         \A e \in PageEditors: editing'[e] \in {editing[e], NoEdit}
  PROVE  HelpInv'
<1> USE HelpCenterAssumption DEF HelpCenterAssumption
<1>1. now \in Nat /\ now \in Clock \cup {0} BY DEF HelpInv
<1>2. \/ r.published_at = 0 /\ now' = now
      \/ r.published_at \in Clock /\ HasTime(x, r.published_at) /\ now' = now
      \/ r.published_at = now + 1 /\ now' = now + 1 /\ now + 1 \in Clock
  <2>1. CASE r.published_at = 0 BY <1>1, <2>1 DEF Write
  <2>2. CASE r.published_at \in Clock /\ HasTime(x, r.published_at)
    BY <1>1, <2>2 DEF Write, HelpInv
  <2>3. CASE r.published_at = now + 1 BY <1>1, <2>3 DEF Write
  <2> QED BY <2>1, <2>2, <2>3
<1>3. r \in Page /\ r.published_at \in Clock \cup {0} BY <1>2 DEF Page
<1>4. /\ page' = [page EXCEPT ![x] = r] /\ page' \in [Pages -> Page \cup {NoPage}]
      /\ page'[x] = r /\ \A y \in Pages \ {x}: page'[y] = page[y]
  BY <1>3 DEF Write, HelpInv
<1>5. now' \in Clock \cup {0} /\ now' \in Nat /\ now <= now' BY <1>1, <1>2
<1>6. ASSUME NEW y \in Pages, NEW t \in Clock, HasTime(y, t)'
      PROVE  HasTime(y, t) \/ (y = x /\ t = now + 1 /\ now' = now + 1)
  <2>1. CASE PageExists(y)' /\ page'[y].published_at = t
    <3>1. CASE y = x BY <1>1, <1>2, <1>4, <2>1, <3>1
    <3>2. CASE y # x BY <1>4, <2>1, <3>2 DEF PageExists, HasTime
    <3> QED BY <3>1, <3>2
  <2>2. ASSUME NEW e \in PageEditors, editing'[e].of = "page", editing'[e].page = y,
               editing'[e].copy.published_at = t
        PROVE  HasTime(y, t)
    <3>1. editing'[e] = editing[e] BY <2>2 DEF NoEdit
    <3> QED BY <2>2, <3>1 DEF HasTime
  <2> QED BY <1>6, <2>1, <2>2 DEF HasTime
<1>7. \A y \in Pages, t \in Clock: HasTime(y, t) => t <= now
  BY DEF HelpInv
<1>8. \A y \in Pages, t \in Clock: HasTime(y, t)' => t <= now'
  BY <1>1, <1>5, <1>6, <1>7
<1>9. \A y, z \in Pages, t \in Clock: HasTime(y, t)' /\ HasTime(z, t)' => y = z
  <2> SUFFICES ASSUME NEW y \in Pages, NEW z \in Pages, NEW t \in Clock,
                      HasTime(y, t)', HasTime(z, t)'
               PROVE  y = z
    OBVIOUS
  <2>1. CASE t = now + 1
    <3>1. ~HasTime(y, t) /\ ~HasTime(z, t) BY <1>1, <1>7, <2>1
    <3> QED BY <1>6, <3>1
  <2>2. CASE t # now + 1
    <3>1. HasTime(y, t) /\ HasTime(z, t) BY <1>6, <2>2
    <3> QED BY <3>1 DEF HelpInv
  <2> QED BY <2>1, <2>2
<1>10. \A y \in Pages: page'[y].status = "published" => page'[y].published_at # 0
  BY <1>4 DEF HelpInv
<1>11. category' \in Category BY DEF HelpInv
<1> QED BY <1>4, <1>5, <1>8, <1>9, <1>10, <1>11 DEF HelpInv

(* Steps that write no page.                                                *)
LEMMA PagesStill ==
  ASSUME HelpInv, UNCHANGED <<page, now>>, category' \in Category,
         editing' \in [PageEditors -> Editing],
         \A e \in PageEditors, x \in Pages, t \in Clock:
            /\ editing'[e].of = "page" /\ editing'[e].page = x
            /\ editing'[e].copy.published_at = t
            => HasTime(x, t)
  PROVE  HelpInv'
<1>1. \A x \in Pages, t \in Clock: HasTime(x, t)' => HasTime(x, t)
  <2> SUFFICES ASSUME NEW x \in Pages, NEW t \in Clock, HasTime(x, t)'
               PROVE  HasTime(x, t)
    OBVIOUS
  <2>1. CASE PageExists(x)' /\ page'[x].published_at = t
    BY <2>1 DEF HasTime, PageExists
  <2>2. CASE ~(PageExists(x)' /\ page'[x].published_at = t)
    <3>1. PICK e \in PageEditors: /\ editing'[e].of = "page" /\ editing'[e].page = x
                                  /\ editing'[e].copy.published_at = t
      BY <2>2 DEF HasTime
    <3> QED BY <3>1
  <2> QED BY <2>1, <2>2
<1>2. /\ \A x \in Pages, t \in Clock: HasTime(x, t)' => t <= now'
      /\ \A x, y \in Pages, t \in Clock: HasTime(x, t)' /\ HasTime(y, t)' => x = y
  BY <1>1 DEF HelpInv
<1> QED BY <1>2 DEF HelpInv

LEMMA EditsEnd ==
  ASSUME HelpInv, NEW e \in PageEditors, editing' = [editing EXCEPT ![e] = NoEdit]
  PROVE  /\ editing' \in [PageEditors -> Editing]
         /\ \A f \in PageEditors: editing'[f] \in {editing[f], NoEdit}
BY DEF HelpInv, Editing

LEMMA LivePage ==
  ASSUME HelpInv, NEW x \in Pages, PageExists(x)
  PROVE  /\ page[x] \in Page
         /\ page[x] = [status |-> page[x].status, published_at |-> page[x].published_at,
                       deleted |-> page[x].deleted]
         /\ page[x].published_at # 0 =>
              page[x].published_at \in Clock /\ HasTime(x, page[x].published_at)
<1>1. page[x] \in Page BY DEF HelpInv, PageExists
<1> QED BY <1>1, PageForms DEF HasTime, Page

LEMMA HelpStep == HelpInv /\ [HelpNext]_helpVars => HelpInv'
<1> SUFFICES ASSUME HelpInv, [HelpNext]_helpVars PROVE HelpInv'
  OBVIOUS
<1> USE HelpCenterAssumption DEF HelpCenterAssumption
<1>1. CASE UNCHANGED helpVars
  <2>1. \A x, t: HasTime(x, t)' <=> HasTime(x, t)
    BY <1>1 DEF HasTime, PageExists, helpVars
  <2> QED BY <1>1, <2>1 DEF HelpInv, helpVars
<1>2. now \in Clock \cup {0} BY DEF HelpInv
<1>3. ASSUME UNCHANGED editing
      PROVE  /\ editing' \in [PageEditors -> Editing]
             /\ \A e \in PageEditors: editing'[e] \in {editing[e], NoEdit}
  BY <1>3 DEF HelpInv
<1>4. ASSUME NEW x \in Pages, NEW r \in Page, NEW s \in PageStatus,
             Write(x, Published(r, s)), UNCHANGED category,
             editing' \in [PageEditors -> Editing],
             \A e \in PageEditors: editing'[e] \in {editing[e], NoEdit},
             r.published_at # 0 => HasTime(x, r.published_at)
      PROVE  HelpInv'
  <2> DEFINE q == Published(r, s)
  <2>1. r.published_at \in Clock \cup {0} /\ r.deleted \in BOOLEAN BY PageForms
  <2>2. /\ q.status = s /\ q.deleted = r.deleted
        /\ q = [status |-> q.status, published_at |-> q.published_at,
                deleted |-> q.deleted]
        /\ \/ q.published_at = r.published_at /\ (s = "published" => r.published_at # 0)
           \/ q.published_at = now + 1
    BY <1>2, PublishedForms
  <2> HIDE DEF q
  <2>3. /\ q.status = "published" => q.published_at # 0
        /\ \/ q.published_at = 0
           \/ q.published_at \in Clock /\ HasTime(x, q.published_at)
           \/ q.published_at = now + 1
    BY <1>2, <1>4, <2>1, <2>2
  <2>4. Write(x, q) BY <1>4 DEF q
  <2> QED BY <1>4, <2>1, <2>2, <2>3, <2>4, WriteOK
<1>5. ASSUME NEW x \in Pages, NEW s \in PageStatus, CreatePage(x, s)
      PROVE  HelpInv'
  <2> DEFINE r == [status |-> "draft", published_at |-> 0, deleted |-> FALSE]
  <2>1. r \in Page /\ r.published_at = 0 BY DEF Page, PageStatus
  <2>2. Write(x, Published(r, s)) /\ UNCHANGED <<category, editing>>
    BY <1>5 DEF CreatePage
  <2> HIDE DEF r
  <2> QED BY <1>3, <1>4, <2>1, <2>2
<1>6. ASSUME NEW x \in Pages, PublishPage(x)
      PROVE  HelpInv'
  <2>1. /\ page[x] \in Page
        /\ page[x].published_at # 0 => HasTime(x, page[x].published_at)
    BY <1>6, LivePage DEF PublishPage, PageLive
  <2>2. Write(x, Published(page[x], "published")) /\ UNCHANGED <<category, editing>>
    BY <1>6 DEF PublishPage, Republished
  <2>3. "published" \in PageStatus BY DEF PageStatus
  <2> QED BY <1>3, <1>4, <2>1, <2>2, <2>3
<1>7. ASSUME NEW x \in Pages, ArchivePage(x)
      PROVE  HelpInv'
  <2> DEFINE r == [page[x] EXCEPT !.status = "archived"]
  <2>1. /\ page[x] \in Page
        /\ page[x].published_at # 0 =>
             page[x].published_at \in Clock /\ HasTime(x, page[x].published_at)
    BY <1>7, LivePage DEF ArchivePage, PageLive
  <2>2. /\ r = [status |-> r.status, published_at |-> r.published_at, deleted |-> r.deleted]
        /\ r.status = "archived" /\ r.status \in PageStatus /\ r.deleted \in BOOLEAN
        /\ r.published_at = page[x].published_at
    BY <2>1 DEF Page, PageStatus
  <2>3. Write(x, r) /\ UNCHANGED <<category, editing>> BY <1>7 DEF ArchivePage
  <2> HIDE DEF r
  <2> QED BY <1>3, <2>1, <2>2, <2>3, WriteOK
<1>8. ASSUME NEW x \in Pages, DeletePage(x)
      PROVE  HelpInv'
  <2> DEFINE r == [page[x] EXCEPT !.deleted = TRUE]
  <2>1. /\ page[x] \in Page
        /\ page[x].published_at # 0 =>
             page[x].published_at \in Clock /\ HasTime(x, page[x].published_at)
        /\ page[x].status = "published" => page[x].published_at # 0
    BY <1>8, LivePage DEF DeletePage, HelpInv
  <2>2. /\ r = [status |-> r.status, published_at |-> r.published_at, deleted |-> r.deleted]
        /\ r.status = page[x].status /\ r.status \in PageStatus /\ r.deleted \in BOOLEAN
        /\ r.published_at = page[x].published_at
    <3>1. /\ page[x] = [status |-> page[x].status, published_at |-> page[x].published_at,
                        deleted |-> page[x].deleted]
          /\ page[x].status \in PageStatus
      BY <2>1 DEF Page
    <3>2. r = [status |-> page[x].status, published_at |-> page[x].published_at,
               deleted |-> TRUE]
      BY <2>1, DeletedForm
    <3> HIDE DEF r
    <3> QED BY <3>1, <3>2
  <2>3. Write(x, r) /\ UNCHANGED <<category, editing>> BY <1>8 DEF DeletePage
  <2> HIDE DEF r
  <2> QED BY <1>3, <2>1, <2>2, <2>3, WriteOK
<1>9. ASSUME NEW e \in PageEditors, NEW x \in Pages, NEW s \in PageStatus, PageRead(e, x, s)
      PROVE  HelpInv'
  <2> DEFINE c == [of |-> "page", page |-> x, copy |-> page[x], status |-> s]
  <2>1. /\ page[x] \in Page
        /\ page[x].published_at # 0 => HasTime(x, page[x].published_at)
    BY <1>9, LivePage DEF PageRead, PageLive
  <2>2. /\ editing' = [editing EXCEPT ![e] = c] /\ UNCHANGED <<category, page, now>>
    BY <1>9 DEF PageRead
  <2>3. c \in Editing /\ c.page = x /\ c.copy = page[x] BY <2>1 DEF Editing
  <2> HIDE DEF c
  <2>4. editing' \in [PageEditors -> Editing] BY <2>2, <2>3 DEF HelpInv
  <2>5. ASSUME NEW f \in PageEditors, NEW y \in Pages, NEW t \in Clock,
               editing'[f].of = "page", editing'[f].page = y,
               editing'[f].copy.published_at = t
        PROVE  HasTime(y, t)
    <3>1. CASE f = e
      <4>1. editing'[f] = c BY <2>2, <3>1 DEF HelpInv
      <4> QED BY <2>1, <2>3, <2>5, <4>1
    <3>2. CASE f # e
      <4>1. editing'[f] = editing[f] BY <2>2, <3>2 DEF HelpInv
      <4> QED BY <2>5, <4>1 DEF HasTime
    <3> QED BY <3>1, <3>2
  <2> QED BY <2>2, <2>4, <2>5, PagesStill DEF HelpInv
<1>10. ASSUME NEW e \in PageEditors, PageSave(e)
       PROVE  HelpInv'
  <2> DEFINE r == editing[e].copy
             x == editing[e].page
             s == editing[e].status
  <2>1. x \in Pages /\ r \in Page /\ s \in PageStatus
    BY <1>10, EditForms DEF PageSave, HelpInv
  <2>2. /\ Write(x, Published(r, s)) /\ UNCHANGED category
        /\ editing' = [editing EXCEPT ![e] = NoEdit]
    BY <1>10 DEF PageSave
  <2>3. r.published_at # 0 => HasTime(x, r.published_at) BY <1>10 DEF PageSave, HasTime
  <2>4. /\ editing' \in [PageEditors -> Editing]
        /\ \A f \in PageEditors: editing'[f] \in {editing[f], NoEdit}
    BY <2>2, EditsEnd
  <2> HIDE DEF r, x, s
  <2> QED BY <1>4, <2>1, <2>2, <2>3, <2>4
<1>11. ASSUME NEW e \in PageEditors,
              \/ EditFails(e) \/ CategorySave(e)
              \/ \E b \in BOOLEAN: CategoryRead(e, b)
       PROVE  HelpInv'
  <2>1. UNCHANGED <<page, now>>
    BY <1>11 DEF EditFails, CategorySave, CategoryRead
  <2>2. category' \in Category
    <3>1. CASE CategorySave(e)
      <4>1. editing[e].copy \in Category /\ editing[e].is_active \in BOOLEAN
        BY <3>1, EditForms DEF CategorySave, HelpInv
      <4> QED BY <3>1, <4>1 DEF CategorySave, Category
    <3>2. CASE ~CategorySave(e)
      BY <1>11, <3>2 DEF EditFails, CategoryRead, HelpInv
    <3> QED BY <3>1, <3>2
  <2>3. PICK c \in Editing: editing' = [editing EXCEPT ![e] = c] /\ c.of # "page"
    <3>1. CASE EditFails(e) \/ CategorySave(e)
      <4>1. NoEdit \in Editing /\ NoEdit.of # "page" BY DEF Editing, NoEdit
      <4> QED BY <3>1, <4>1 DEF EditFails, CategorySave
    <3>2. ASSUME NEW b \in BOOLEAN, CategoryRead(e, b)
          PROVE  \E c \in Editing: editing' = [editing EXCEPT ![e] = c] /\ c.of # "page"
      <4> DEFINE c == [of |-> "category", copy |-> category, is_active |-> b]
      <4>1. c \in Editing /\ c.of # "page" BY DEF Editing, HelpInv
      <4>2. editing' = [editing EXCEPT ![e] = c] BY <3>2 DEF CategoryRead
      <4> QED BY <4>1, <4>2
    <3> QED BY <1>11, <3>1, <3>2
  <2>4. editing' \in [PageEditors -> Editing] BY <2>3 DEF HelpInv
  <2>5. ASSUME NEW f \in PageEditors, NEW y \in Pages, NEW t \in Clock,
               editing'[f].of = "page", editing'[f].page = y,
               editing'[f].copy.published_at = t
        PROVE  HasTime(y, t)
    <3>1. editing'[f] = editing[f] BY <2>3, <2>5 DEF HelpInv
    <3> QED BY <2>5, <3>1 DEF HasTime
  <2> QED BY <2>1, <2>2, <2>4, <2>5, PagesStill
<1>12. CASE DeleteCategory
  <2>1. /\ UNCHANGED <<page, editing, now>>
        /\ category' = [category EXCEPT !.deleted = TRUE]
    BY <1>12 DEF DeleteCategory
  <2>2. category' \in Category BY <2>1 DEF HelpInv, Category
  <2>3. editing' \in [PageEditors -> Editing] BY <2>1 DEF HelpInv
  <2>4. ASSUME NEW f \in PageEditors, NEW y \in Pages, NEW t \in Clock,
               editing'[f].of = "page", editing'[f].page = y,
               editing'[f].copy.published_at = t
        PROVE  HasTime(y, t)
    BY <2>1, <2>4 DEF HasTime
  <2> QED BY <2>1, <2>2, <2>3, <2>4, PagesStill
<1> QED BY <1>1, <1>5, <1>6, <1>7, <1>8, <1>9, <1>10, <1>11, <1>12 DEF HelpNext

LEMMA HelpStart == HelpInit => HelpInv
<1> SUFFICES ASSUME HelpInit PROVE HelpInv
  OBVIOUS
<1>1. \A x \in Pages: page[x] = NoPage BY DEF HelpInit
<1>2. \A e \in PageEditors: editing[e] = NoEdit BY DEF HelpInit
<1>3. \A x \in Pages, t \in Clock: ~HasTime(x, t)
  BY <1>1, <1>2 DEF HasTime, PageExists, NoEdit
<1>4. NoEdit \in Editing BY DEF Editing
<1>5. /\ category \in Category /\ page \in [Pages -> Page \cup {NoPage}]
      /\ editing \in [PageEditors -> Editing] /\ now \in Clock \cup {0}
  BY <1>4 DEF HelpInit, Category
<1>6. \A x \in Pages: page[x].status # "published" BY <1>1 DEF NoPage
<1> QED BY <1>3, <1>5, <1>6 DEF HelpInv

LEMMA HelpKept == HelpSpec => []HelpInv
BY HelpStart, HelpStep, PTL DEF HelpSpec

(* Two public versions of a document have two times, one of which is newer.   *)
LEMMA OneLatest ==
  ASSUME HelpInv, NEW x \in Latest, NEW y \in Latest
  PROVE  x = y
<1> USE HelpCenterAssumption DEF HelpCenterAssumption
<1> DEFINE t(z) == page[z].published_at
<1>1. ASSUME NEW z \in Latest
      PROVE  z \in PublicDocuments /\ z \in Pages /\ t(z) \in Clock /\ HasTime(z, t(z))
  <2>1. z \in PublicDocuments BY DEF Latest
  <2>2. z \in Pages /\ PageExists(z) /\ page[z].status = "published"
    BY <2>1 DEF PublicDocuments, PageLive, Pages
  <2>3. t(z) # 0 BY <2>2 DEF HelpInv
  <2> QED BY <2>1, <2>2, <2>3, LivePage
<1>2. t(x) \in Nat /\ t(y) \in Nat /\ t(x) # 0 /\ t(y) # 0 BY <1>1
<1>3. ~Newer(x, y) /\ ~Newer(y, x) BY <1>1 DEF Latest
<1>4. t(x) = t(y) BY <1>2, <1>3 DEF Newer
<1> QED BY <1>1, <1>4 DEF HelpInv

(* What the public reads has a time of publication, and there is one latest     *)
(* version of a legal document, also when edits save what they read earlier.  *)
THEOREM PublicPagesPublished == HelpSpec => []PublicPages
<1>1. HelpInv => PublicPages
  <2> SUFFICES ASSUME HelpInv PROVE PublicPages
    OBVIOUS
  <2>1. \A x \in PublishedArticles \cup PublicDocuments: page[x].published_at # 0
    BY DEF PublishedArticles, PublicDocuments, Pages, HelpInv
  <2>2. Cardinality(Latest) <= 1
    <3>1. CASE Latest = {} BY <3>1, FS_EmptySet
    <3>2. ASSUME NEW x \in Latest PROVE Cardinality(Latest) <= 1
      <4>1. Latest = {x} BY OneLatest
      <4>2. Cardinality({x}) = 1 BY FS_Singleton
      <4> QED BY <4>1, <4>2
    <3> QED BY <3>1, <3>2
  <2> QED BY <2>1, <2>2 DEF PublicPages
<1> QED BY <1>1, HelpKept, PTL

LEMMA FirstTimeStep ==
  ASSUME HelpInv, [HelpNext]_helpVars, NEW x \in Pages, PageExists(x),
         page[x].published_at \notin {0, page'[x].published_at}
  PROVE  \E e \in PageEditors: /\ editing[e].of = "page" /\ editing[e].page = x
                               /\ editing[e].copy.published_at # page[x].published_at
<1> DEFINE t == page[x].published_at
<1>1. /\ page \in [Pages -> Page \cup {NoPage}] /\ page[x] \in Page
      /\ editing \in [PageEditors -> Editing] /\ now \in Clock \cup {0}
  BY DEF HelpInv, PageExists
<1>2. ASSUME NEW y \in Pages, NEW r, Write(y, r)
      PROVE  y = x /\ r.published_at # t
  <2>1. page' = [page EXCEPT ![y] = r] BY <1>2 DEF Write
  <2> QED BY <1>1, <2>1
<1>3. ASSUME NEW r \in Page, NEW s \in PageStatus, r.published_at = t
      PROVE  Published(r, s).published_at = t
  BY <1>1, <1>3, PublishedForms
<1>4. page' # page BY <1>1
<1>5. ~\E s \in PageStatus, y \in Pages: CreatePage(y, s) BY <1>2 DEF CreatePage
<1>6. ~\E y \in Pages: PublishPage(y)
  <2> SUFFICES ASSUME NEW y \in Pages, PublishPage(y) PROVE FALSE
    OBVIOUS
  <2>1. y = x /\ Published(page[x], "published").published_at # t
    BY <1>2 DEF PublishPage, Republished
  <2> QED BY <1>1, <1>3, <2>1 DEF PageStatus
<1>7. ~\E y \in Pages: ArchivePage(y)
  <2> SUFFICES ASSUME NEW y \in Pages, ArchivePage(y) PROVE FALSE
    OBVIOUS
  <2>1. y = x /\ [page[x] EXCEPT !.status = "archived"].published_at # t
    BY <1>2 DEF ArchivePage
  <2> QED BY <1>1, <2>1 DEF Page
<1>8. ~\E y \in Pages: DeletePage(y)
  <2> SUFFICES ASSUME NEW y \in Pages, DeletePage(y) PROVE FALSE
    OBVIOUS
  <2>1. y = x /\ [page[x] EXCEPT !.deleted = TRUE].published_at # t
    BY <1>2 DEF DeletePage
  <2> QED BY <1>1, <2>1, DeletedForm
<1>9. PICK e \in PageEditors: PageSave(e)
  BY <1>4, <1>5, <1>6, <1>7, <1>8
     DEF HelpNext, helpVars, PageRead, EditFails, CategoryRead, CategorySave, DeleteCategory
<1>10. /\ editing[e].of = "page" /\ editing[e].page \in Pages
       /\ editing[e].copy \in Page /\ editing[e].status \in PageStatus
  BY <1>1, <1>9, EditForms DEF PageSave
<1>11. /\ editing[e].page = x
       /\ Published(editing[e].copy, editing[e].status).published_at # t
  BY <1>2, <1>9, <1>10 DEF PageSave
<1> QED BY <1>3, <1>10, <1>11

(* Publishing a page again keeps the time of its first publication, so that an  *)
(* old version does not become the latest; an edit that read the page before   *)
(* that time alone can change it.                                            *)
THEOREM RepublishingKeepsTime == HelpSpec => FirstTimeKept
<1>1. HelpInv /\ [HelpNext]_helpVars =>
        \A x \in Pages:
          PageExists(x) /\ page[x].published_at \notin {0, page'[x].published_at} =>
            \E e \in PageEditors: /\ editing[e].of = "page" /\ editing[e].page = x
                                  /\ editing[e].copy.published_at # page[x].published_at
  BY FirstTimeStep
<1> QED BY <1>1, HelpKept, PTL DEF HelpSpec, FirstTimeKept
===============================================================================
