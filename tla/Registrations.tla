---------------------------- MODULE Registrations ----------------------------
(***************************************************************************)
(* Registration, ticket and check-in of ONE event, at the granularity of   *)
(* PostgreSQL row locks (READ COMMITTED).                                   *)
(*                                                                         *)
(* A worker is a web worker that serves one HTTP call at a time.  A call   *)
(* is cut where another transaction may slip in: after a read made outside *)
(* a transaction, and after each SELECT ... FOR UPDATE.  `at' says how far *)
(* the call got; which rows it has locked follows from it (HoldsEvent,     *)
(* HoldsReg, HoldsTicket).  The writes of a transaction become visible     *)
(* together, in the step that commits it and returns the worker to Idle.   *)
(* A call refused by one of its checks rolls back, so it only returns to   *)
(* Idle; a call refused by its first read never starts.                    *)
(*                                                                         *)
(* Left out: pending, cancel_pending and rejected registrations (no        *)
(* service writes them), form answers, notifications, and the check-in log *)
(* except for the number of SUCCESS rows.                                  *)
(***************************************************************************)
EXTENDS Integers, FiniteSets

CONSTANTS
  Users,        \* people who may register for the event
  Workers,      \* web workers serving calls concurrently
  NoUser,       \* the "user" of an idle worker
  Ops,          \* the operations this instance serves
  EventValues,  \* the event rows organizers and administrators may commit
  MaxTime,      \* bound on the clock
  MaxAdmits     \* the count of SUCCESS check-in rows saturates here

VARIABLES
  now,       \* timezone.now()
  event,     \* the committed row of the event
  status,    \* status[u]: registration of u, "none" when there is no row
  ticket,    \* ticket[u]: ticket of u's registration, or NoTicket
  admits,    \* admits[u]: CheckinLog rows of u's ticket with result SUCCESS
  call       \* call[w]: the call worker w is serving, or Idle

rows == <<status, ticket, admits>>
vars == <<now, event, status, ticket, admits, call>>
------------------------------------------------------------------------------
(* Operations that re-read, under row locks, everything they decide on ...  *)
LockedOps == {"create", "issue", "admin_cancel", "restore", "scan"}
(* ... and those that act on objects read before their transaction.         *)
UnlockedOps == {"cancel", "patch"}
AllOps == LockedOps \cup UnlockedOps

(* Operations that lock ticket, then registration, then event.              *)
TicketFirstOps == {"admin_cancel", "restore", "scan"}

RegStatus == {"none", "registered", "waitlisted", "cancelled", "checked_in"}
TicketState == {"none", "valid", "used", "expired", "cancelled"}
Time == 0..MaxTime

(* live: status is APPROVED or ACTIVE; cap = 0: max_capacity is NULL.       *)
EventRow == [live: BOOLEAN, deleted: BOOLEAN, cap: Nat, opensAt: Nat,
             closesAt: Nat, startsAt: Nat, endsAt: Nat]

(* used: used_at is set (it outlives a change of the ticket's status).      *)
TicketRow == [state: TicketState, used: BOOLEAN, expiresAt: Nat]
NoTicket == [state |-> "none", used |-> FALSE, expiresAt |-> 0]

(* What a call remembers besides its operation, step and user: what it read *)
(* before its transaction, or the status it decided to grant.               *)
Idle == [op |-> "none", at |-> "idle", user |-> NoUser]
PlainCall ==
  [op: {"create"}, user: Users, at: {"event_locked", "reg_locked"}]
  \cup [op: {"issue"}, user: Users, at: {"reg_locked", "all_locked"}]
  \cup [op: {"admin_cancel", "restore"}, user: Users,
        at: {"ticket_locked", "reg_locked", "all_locked"}]
GrantCall ==
  [op: {"create"}, user: Users, at: {"counted"},
   grant: {"registered", "waitlisted"}]
  \cup [op: {"restore"}, user: Users, at: {"counted"}, grant: {"registered"}]
CancelCall == [op: {"cancel"}, user: Users, at: {"read", "reg_locked"},
               killsTicket: BOOLEAN]
PatchCall == [op: {"patch"}, user: Users, at: {"read"}, seen: TicketRow]
ScanCall == [op: {"scan"}, user: Users, seen: EventValues, seenNow: Time,
             at: {"read", "ticket_locked", "reg_locked", "all_locked"}]
Call == {Idle} \cup PlainCall \cup GrantCall \cup CancelCall \cup PatchCall
        \cup ScanCall

ASSUME RegistrationsAssumption ==
  /\ IsFiniteSet(Users)
  /\ NoUser \notin Users
  /\ Ops \subseteq AllOps
  /\ EventValues \subseteq EventRow
  /\ MaxTime \in Nat
  /\ MaxAdmits \in Nat \ {0}
------------------------------------------------------------------------------
(* Row locks.  Each is held from the step that takes it to the commit.      *)
(* (The operators whose names start with Bug are variants of the definition *)
(* that follows them, each with one plausible mistake; no action uses them. *)
(* A run whose property survives its variant would show nothing.)           *)
HoldsEvent(w) ==
  \/ call[w].at \in {"event_locked", "all_locked", "counted"}
  \/ call[w].op = "create" /\ call[w].at = "reg_locked"

HoldsReg(w, u) ==
  call[w].user = u /\ call[w].at \in {"reg_locked", "all_locked", "counted"}

HoldsTicket(w, u) ==
  /\ call[w].user = u
  /\ call[w].op \in TicketFirstOps
  /\ call[w].at \in {"ticket_locked", "reg_locked", "all_locked", "counted"}

BugEventFree(w) == TRUE                     \* count without locking the event
EventFree(w) == \A o \in Workers \ {w}: ~HoldsEvent(o)
BugRegFree(w, u) == TRUE              \* registration read without a lock
RegFree(w, u) == \A o \in Workers \ {w}: ~HoldsReg(o, u)
TicketFree(w, u) == \A o \in Workers \ {w}: ~HoldsTicket(o, u)

(* The workers that hold the row lock w is waiting for.                     *)
BlockedBy(w) ==
  LET c == call[w]
      waitsForReg == c.at \in {"event_locked", "ticket_locked"}
      waitsForEvent == /\ c.op \in TicketFirstOps \cup {"issue"}
                       /\ c.at = "reg_locked"
      waitsForTicket ==
        \/ c.op = "create" /\ c.at = "counted" /\ c.grant = "registered"
        \/ c.op = "cancel" /\ c.at = "reg_locked" /\ c.killsTicket
  IN {o \in Workers \ {w} : \/ waitsForReg /\ HoldsReg(o, c.user)
                            \/ waitsForEvent /\ HoldsEvent(o)
                            \/ waitsForTicket /\ HoldsTicket(o, c.user)}

(* w lies on a cycle of workers each waiting for a lock the next one holds. *)
BugInCycle(w) == FALSE                          \* no deadlock detection
InCycle(w) ==
  \E S \in SUBSET Workers:
    /\ w \in S
    /\ \A x \in S: BlockedBy(x) # {}
    /\ S = UNION {BlockedBy(x) : x \in S}
------------------------------------------------------------------------------
(* Tests the operations share.                                              *)
WindowOpen ==
  /\ event.live /\ ~event.deleted
  /\ event.opensAt <= now /\ now <= event.closesAt
  /\ event.endsAt > now

SeatsTaken == {u \in Users : status[u] \in {"registered", "checked_in"}}
HasRoom == event.cap = 0 \/ Cardinality(SeatsTaken) < event.cap

BugReRegisterable == {"none", "cancelled", "waitlisted"}   \* jumps the queue
ReRegisterable == {"none", "cancelled"}

BugNextStatus == IF HasRoom THEN "registered" ELSE "pending"
NextStatus == IF HasRoom THEN "registered" ELSE "waitlisted"

HasTicket(u) == ticket[u].state # "none"

FreshTicket == [state |-> "valid", used |-> FALSE, expiresAt |-> event.endsAt]

(* _restore_ticket_for_registration: the old ticket made new, or a new one. *)
BugRestoredTickets(u) ==                     \* forgets to issue a new ticket
  IF HasTicket(u) THEN [ticket EXCEPT ![u] = FreshTicket] ELSE ticket
RestoredTickets(u) == [ticket EXCEPT ![u] = FreshTicket]

BugVoidedTickets(u) == ticket           \* cancels the registration only
VoidedTickets(u) == [ticket EXCEPT ![u].state = "cancelled"]

(* t with a new status and used_at set or cleared.                          *)
Marked(t, state, used) ==
  [state |-> state, used |-> used, expiresAt |-> t.expiresAt]

Init ==
  /\ now = 0
  /\ event \in EventValues
  /\ status = [u \in Users |-> "none"]
  /\ ticket = [u \in Users |-> NoTicket]
  /\ admits = [u \in Users |-> 0]
  /\ call = [w \in Workers |-> Idle]

Begin(w, o) == call[w] = Idle /\ o \in Ops
Finish(w) == call' = [call EXCEPT ![w] = Idle]
Advance(w, step) == call' = [call EXCEPT ![w].at = step]
------------------------------------------------------------------------------
(* create_event_registration: event, registration, count, write.            *)
CreateLockEvent(w, u) ==
  /\ Begin(w, "create")
  /\ EventFree(w)
  /\ WindowOpen
  /\ call' = [call EXCEPT ![w] =
                [op |-> "create", at |-> "event_locked", user |-> u]]
  /\ UNCHANGED <<now, event, rows>>

CreateLockReg(w) ==
  /\ call[w].op = "create" /\ call[w].at = "event_locked"
  /\ RegFree(w, call[w].user)
  /\ IF status[call[w].user] \in ReRegisterable
     THEN Advance(w, "reg_locked")
     ELSE Finish(w)
  /\ UNCHANGED <<now, event, rows>>

CreateCount(w) ==
  /\ call[w].op = "create" /\ call[w].at = "reg_locked"
  /\ call' = [call EXCEPT ![w] =
                [op |-> "create", at |-> "counted", user |-> call[w].user,
                 grant |-> NextStatus]]
  /\ UNCHANGED <<now, event, rows>>

CreateCommit(w) ==
  LET u == call[w].user IN
  /\ call[w].op = "create" /\ call[w].at = "counted"
  /\ call[w].grant = "registered" => TicketFree(w, u)
  /\ status' = [status EXCEPT ![u] = call[w].grant]
  /\ ticket' = IF call[w].grant = "registered"
               THEN RestoredTickets(u)
               ELSE ticket
  /\ Finish(w)
  /\ UNCHANGED <<now, event, admits>>
------------------------------------------------------------------------------
(* Locks shared by the operations that start from a ticket or registration. *)
LockReg(w) ==
  /\ call[w].at = "ticket_locked"
  /\ RegFree(w, call[w].user)
  /\ Advance(w, "reg_locked")
  /\ UNCHANGED <<now, event, rows>>

LockEvent(w) ==
  /\ call[w].op \in TicketFirstOps \cup {"issue"}
  /\ call[w].at = "reg_locked"
  /\ EventFree(w)
  /\ Advance(w, "all_locked")
  /\ UNCHANGED <<now, event, rows>>

(* create_ticket_for_registration: the organizer issues a missing ticket.   *)
IssueLockReg(w, u) ==
  /\ Begin(w, "issue")
  /\ status[u] # "none"
  /\ RegFree(w, u)
  /\ call' = [call EXCEPT ![w] =
                [op |-> "issue", at |-> "reg_locked", user |-> u]]
  /\ UNCHANGED <<now, event, rows>>

IssueCommit(w) ==
  LET u == call[w].user IN
  /\ call[w].op = "issue" /\ call[w].at = "all_locked"
  /\ ticket' = IF ~HasTicket(u) /\ status[u] = "registered"
               THEN [ticket EXCEPT ![u] = FreshTicket]
               ELSE ticket
  /\ Finish(w)
  /\ UNCHANGED <<now, event, status, admits>>

(* The administrator's cancel_ticket and restore_ticket.                    *)
AdminLockTicket(w, u, o) ==
  /\ Begin(w, o)
  /\ HasTicket(u)
  /\ TicketFree(w, u)
  /\ call' = [call EXCEPT ![w] =
                [op |-> o, at |-> "ticket_locked", user |-> u]]
  /\ UNCHANGED <<now, event, rows>>

BugAdminMayCancel(u) == ticket[u].state # "cancelled"     \* used ones too
AdminMayCancel(u) ==
  /\ ticket[u].state \notin {"used", "cancelled"}
  /\ status[u] \notin {"cancelled", "checked_in"}

AdminCancelCommit(w) ==
  LET u == call[w].user IN
  /\ call[w].op = "admin_cancel" /\ call[w].at = "all_locked"
  /\ \/ /\ AdminMayCancel(u)
        /\ status' = [status EXCEPT ![u] = "cancelled"]
        /\ ticket' = VoidedTickets(u)
     \/ /\ ~AdminMayCancel(u)
        /\ UNCHANGED <<status, ticket>>
  /\ Finish(w)
  /\ UNCHANGED <<now, event, admits>>

BugMayRestore(u) == status[u] = "cancelled"          \* capacity forgotten
MayRestore(u) ==
  /\ ticket[u].state = "cancelled"
  /\ status[u] = "cancelled"
  /\ ~ticket[u].used
  /\ ticket[u].expiresAt > now /\ event.endsAt > now
  /\ event.live
  /\ HasRoom

RestoreCount(w) ==
  LET u == call[w].user IN
  /\ call[w].op = "restore" /\ call[w].at = "all_locked"
  /\ IF MayRestore(u)
     THEN call' = [call EXCEPT ![w] = [op |-> "restore", at |-> "counted",
                                       user |-> u, grant |-> "registered"]]
     ELSE Finish(w)
  /\ UNCHANGED <<now, event, rows>>

RestoreCommit(w) ==
  LET u == call[w].user IN
  /\ call[w].op = "restore" /\ call[w].at = "counted"
  /\ status' = [status EXCEPT ![u] = "registered"]
  /\ ticket' = [ticket EXCEPT ![u] = Marked(ticket[u], "valid", FALSE)]
  /\ Finish(w)
  /\ UNCHANGED <<now, event, admits>>
------------------------------------------------------------------------------
(* process_checkin_scan: the event and the time are read before the locks.  *)
ScanRead(w, u) ==
  /\ Begin(w, "scan")
  /\ ~event.deleted
  /\ call' = [call EXCEPT ![w] = [op |-> "scan", at |-> "read", user |-> u,
                                  seen |-> event, seenNow |-> now]]
  /\ UNCHANGED <<now, event, rows>>

(* Bad signature, expired token, unknown code: only a log row is written.   *)
ScanUnresolved(w) ==
  /\ call[w].op = "scan" /\ call[w].at = "read"
  /\ Finish(w)
  /\ UNCHANGED <<now, event, rows>>

ScanLockTicket(w) ==
  /\ call[w].op = "scan" /\ call[w].at = "read"
  /\ HasTicket(call[w].user)
  /\ TicketFree(w, call[w].user)
  /\ Advance(w, "ticket_locked")
  /\ UNCHANGED <<now, event, rows>>

BugAlreadyIn(u) == FALSE                     \* lets a used ticket in again
AlreadyIn(u) == ticket[u].state = "used" \/ status[u] = "checked_in"

Void(u) ==
  \/ ticket[u].state \in {"cancelled", "expired"}
  \/ status[u] = "cancelled"

ScanResult(w) ==
  LET e == call[w].seen
      t == call[w].seenNow
      u == call[w].user
  IN IF ~e.live \/ e.startsAt > t \/ e.endsAt < t THEN "event_unavailable"
     ELSE IF AlreadyIn(u) THEN "already_checked_in"
     ELSE IF Void(u) THEN "invalid_ticket"
     ELSE IF ticket[u].expiresAt <= t THEN "just_expired"
     ELSE "success"

ScanCommit(w) ==
  LET u == call[w].user
      result == ScanResult(w)
  IN
  /\ call[w].op = "scan" /\ call[w].at = "all_locked"
  /\ \/ /\ result = "success"
        /\ status' = [status EXCEPT ![u] = "checked_in"]
        /\ ticket' = [ticket EXCEPT ![u] = Marked(ticket[u], "used", TRUE)]
        /\ admits' = [admits EXCEPT ![u] =
                        IF @ < MaxAdmits THEN @ + 1 ELSE MaxAdmits]
     \/ /\ result = "just_expired"
        /\ ticket' = [ticket EXCEPT ![u].state = "expired"]
        /\ UNCHANGED <<status, admits>>
     \/ /\ result \notin {"success", "just_expired"}
        /\ UNCHANGED <<status, ticket, admits>>
  /\ Finish(w)
  /\ UNCHANGED <<now, event>>
------------------------------------------------------------------------------
(* cancel_event_registration as the attendee and organizer views call it:   *)
(* both of its checks look at the objects the view read beforehand.         *)
CancelRead(w, u) ==
  /\ Begin(w, "cancel")
  /\ status[u] \notin {"none", "cancelled", "checked_in"}
  /\ call' = [call EXCEPT ![w] =
                [op |-> "cancel", at |-> "read", user |-> u,
                 killsTicket |-> ticket[u].state \notin {"none", "cancelled"}]]
  /\ UNCHANGED <<now, event, rows>>

CancelLockReg(w) ==
  /\ call[w].op = "cancel" /\ call[w].at = "read"
  /\ RegFree(w, call[w].user)
  /\ Advance(w, "reg_locked")
  /\ UNCHANGED <<now, event, rows>>

CancelCommit(w) ==
  LET u == call[w].user IN
  /\ call[w].op = "cancel" /\ call[w].at = "reg_locked"
  /\ call[w].killsTicket => TicketFree(w, u)
  /\ status' = [status EXCEPT ![u] = "cancelled"]
  /\ ticket' = IF call[w].killsTicket
               THEN VoidedTickets(u)
               ELSE ticket
  /\ Finish(w)
  /\ UNCHANGED <<now, event, admits>>

(* The organizer's PATCH of a ticket: get_object, then a save of EVERY      *)
(* column, so fields absent from the request come back as they were read.   *)
PatchRead(w, u) ==
  /\ Begin(w, "patch")
  /\ HasTicket(u)
  /\ call' = [call EXCEPT ![w] = [op |-> "patch", at |-> "read", user |-> u,
                                  seen |-> ticket[u]]]
  /\ UNCHANGED <<now, event, rows>>

PatchCommit(w) ==
  LET u == call[w].user IN
  /\ call[w].op = "patch" /\ call[w].at = "read"
  /\ TicketFree(w, u)
  /\ \E s \in TicketState \ {"none"}, x \in Time \cup {call[w].seen.expiresAt}:
       ticket' = [ticket EXCEPT ![u] =
                    [call[w].seen EXCEPT !.state = s, !.expiresAt = x]]
  /\ Finish(w)
  /\ UNCHANGED <<now, event, status, admits>>
------------------------------------------------------------------------------
(* update_event, update_event_status and delete_event, seen from here: an   *)
(* UPDATE of the event row, which waits while a transaction has it locked.  *)
EventWrite ==
  /\ \A w \in Workers: ~HoldsEvent(w)
  /\ event' \in EventValues \ {event}
  /\ UNCHANGED <<now, rows, call>>

Tick ==
  /\ now < MaxTime
  /\ now' = now + 1
  /\ UNCHANGED <<event, rows, call>>

(* PostgreSQL aborts a transaction that waits on a cycle; the call fails.   *)
DeadlockAbort(w) ==
  /\ InCycle(w)
  /\ Finish(w)
  /\ UNCHANGED <<now, event, rows>>

Start(w) ==
  \E u \in Users:
    \/ CreateLockEvent(w, u)
    \/ IssueLockReg(w, u)
    \/ \E o \in {"admin_cancel", "restore"}: AdminLockTicket(w, u, o)
    \/ ScanRead(w, u)
    \/ CancelRead(w, u)
    \/ PatchRead(w, u)

Continue(w) ==
  \/ CreateLockReg(w) \/ CreateCount(w) \/ CreateCommit(w)
  \/ LockReg(w) \/ LockEvent(w)
  \/ IssueCommit(w)
  \/ AdminCancelCommit(w) \/ RestoreCount(w) \/ RestoreCommit(w)
  \/ ScanUnresolved(w) \/ ScanLockTicket(w) \/ ScanCommit(w)
  \/ CancelLockReg(w) \/ CancelCommit(w)
  \/ PatchCommit(w)

Next ==
  \/ \E w \in Workers: Start(w) \/ Continue(w) \/ DeadlockAbort(w)
  \/ EventWrite
  \/ Tick

Spec == Init /\ [][Next]_vars

(* A worker keeps running its call, PostgreSQL grants a row lock in the     *)
(* order it was asked for (so a waiter is not overtaken for ever) and its   *)
(* detector ends every cycle of waiters.                                    *)
Fairness == \A w \in Workers: SF_vars(Continue(w)) /\ WF_vars(DeadlockAbort(w))

FairSpec == Spec /\ Fairness
------------------------------------------------------------------------------
(* The columns keep to their choices (no service writes pending, rejected   *)
(* or cancel_pending), and a call remembers what its kind of call reads.    *)
TypeOK ==
  /\ now \in Time
  /\ event \in EventValues
  /\ status \in [Users -> RegStatus]
  /\ ticket \in [Users -> TicketRow]
  /\ admits \in [Users -> 0..MaxAdmits]
  /\ call \in [Workers -> Call]

(* No row is locked FOR UPDATE by two transactions: what every             *)
(* select_for_update of the services relies on.                            *)
LockExclusive ==
  \A w1, w2 \in Workers:
    w1 # w2 => /\ ~(HoldsEvent(w1) /\ HoldsEvent(w2))
               /\ \A u \in Users: /\ ~(HoldsReg(w1, u) /\ HoldsReg(w2, u))
                                  /\ ~(HoldsTicket(w1, u) /\ HoldsTicket(w2, u))

(* A step that gives somebody a seat (create_event_registration,           *)
(* restore_ticket) never leaves more seats taken than max_capacity, however *)
(* the calls interleave: the count and the write are two statements, and    *)
(* only the lock on the event row keeps them together.                      *)
SeatGranted(u) ==
  /\ status[u] \notin {"registered", "checked_in"}
  /\ status'[u] = "registered"

SeatsGrantedWithinCapacity ==
  [][(\E u \in Users: SeatGranted(u))
       => event.cap = 0 \/ Cardinality(SeatsTaken') <= event.cap]_vars

(* Whoever has a seat has a ticket, whatever operations are served: so the *)
(* organizer's create_ticket_for_registration always answers Conflict.      *)
SeatedHasTicket ==
  \A u \in Users:
    status[u] \in {"registered", "checked_in"} => HasTicket(u)

(* With the operations that decide under locks only, a ticket is valid (or *)
(* has expired) for a seat not yet used, is used exactly by those checked   *)
(* in, and is void for everybody else.                                      *)
TicketMatchesRegistration ==
  \A u \in Users:
    /\ status[u] = "registered" => ticket[u].state \in {"valid", "expired"}
    /\ status[u] = "checked_in" => ticket[u].state = "used"
    /\ status[u] \in {"none", "waitlisted", "cancelled"}
         => ticket[u].state \in {"none", "cancelled"}

(* With those operations a person is let in once, however many scanners     *)
(* present the ticket at the same time: there is one SUCCESS row for those  *)
(* who are checked in and none for the others.                              *)
AdmittedOnce ==
  \A u \in Users: admits[u] = IF status[u] = "checked_in" THEN 1 ELSE 0

(* "Registration is already checked in.": a check-in is never undone.  It   *)
(* holds for the operations that decide under locks, and not for a cancel   *)
(* that tests the status of an object read beforehand.                      *)
CheckedInIsFinal ==
  [][\A u \in Users: status[u] = "checked_in" => status'[u] = "checked_in"]_vars

(* The seats taken never exceed max_capacity: those of a full event wait.   *)
NeverOverbooked ==
  event.cap # 0 => Cardinality(SeatsTaken) <= event.cap

(* Every call ends: it commits, is refused, or is the victim of a deadlock. *)
CallsEnd == \A w \in Workers: call[w] # Idle ~> call[w] = Idle
------------------------------------------------------------------------------
(* What each registration amounts to in the abstract specification.         *)
SeatOf(u) ==
  CASE status[u] = "registered" -> "held"
    [] status[u] = "checked_in" -> "in"
    [] status[u] = "waitlisted" -> "waiting"
    [] OTHER -> "out"

Adm == INSTANCE Admission
         WITH seat <- [u \in Users |-> SeatOf(u)], cap <- event.cap

(* With the operations that decide under locks only, every transaction     *)
(* looks like one atomic step of Admission: counting and writing, checking  *)
(* a ticket and using it, are not torn apart by concurrent calls.           *)
ImplementsAdmission == Adm!Spec

(* What the calls in progress rely on with the operations of LockedOps: the *)
(* rows they have locked still say what the call read in them.              *)
CallsStillRight ==
  \A w \in Workers:
    LET c == call[w] IN
    /\ c.op \in Ops \cup {"none"}
    /\ c.op = "create" /\ c.at \in {"reg_locked", "counted"}
         => status[c.user] \in ReRegisterable
    /\ c.op = "restore" /\ c.at = "counted" => status[c.user] = "cancelled"
    /\ c.op \in TicketFirstOps /\ c.at \notin {"idle", "read"}
         => HasTicket(c.user)
    /\ c.at = "counted" => (c.grant = "registered" <=> HasRoom)
==============================================================================
