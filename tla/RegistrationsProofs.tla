------------------------- MODULE RegistrationsProofs -------------------------
(***************************************************************************)
(* Theorems about Registrations, for every number of users and workers,    *)
(* every capacity and every set of operations served.                       *)
(***************************************************************************)
EXTENDS Registrations, FiniteSetTheorems, TLAPS

(* Expanded everywhere: the assumption and three abbreviations of the       *)
(* actions.                                                                 *)
USE DEF RegistrationsAssumption, NextStatus, RestoredTickets, VoidedTickets
------------------------------------------------------------------------------
(* Type correctness: every row and every call keeps its form.              *)
LEMMA TypeInit == Init => TypeOK
  BY RegistrationsAssumption
  DEF Init, TypeOK, RegStatus, TicketRow, TicketState, NoTicket, Call, Time

LEMMA TypeStart ==
  ASSUME TypeOK, NEW w \in Workers, Start(w)
  PROVE  TypeOK'
<1> USE DEF TypeOK, Begin, rows
<1>1. PICK u \in Users:
        \/ CreateLockEvent(w, u)
        \/ IssueLockReg(w, u)
        \/ \E o \in {"admin_cancel", "restore"}: AdminLockTicket(w, u, o)
        \/ ScanRead(w, u)
        \/ CancelRead(w, u)
        \/ PatchRead(w, u)
  BY DEF Start
<1>2. UNCHANGED <<now, event, status, ticket, admits>>
  BY <1>1 DEF CreateLockEvent, IssueLockReg, AdminLockTicket, ScanRead,
              CancelRead, PatchRead
<1>3. PICK c \in Call: call' = [call EXCEPT ![w] = c]
  <2>1. CASE CreateLockEvent(w, u) \/ IssueLockReg(w, u)
    BY <2>1 DEF CreateLockEvent, IssueLockReg, Call, PlainCall, AllOps,
                LockedOps
  <2>2. CASE \E o \in {"admin_cancel", "restore"}: AdminLockTicket(w, u, o)
    BY <2>2 DEF AdminLockTicket, Call, PlainCall, AllOps, LockedOps
  <2>3. CASE ScanRead(w, u)
    BY <2>3 DEF ScanRead, Call, ScanCall
  <2>4. CASE CancelRead(w, u)
    BY <2>4 DEF CancelRead, Call, CancelCall
  <2>5. CASE PatchRead(w, u)
    BY <2>5 DEF PatchRead, Call, PatchCall
  <2>6. QED
    BY <1>1, <2>1, <2>2, <2>3, <2>4, <2>5
<1>4. QED
  BY <1>2, <1>3

(* The form of a call follows from its operation and its step.             *)
LEMMA CallForms ==
  ASSUME TypeOK, NEW w \in Workers
  PROVE  /\ call[w] \in Call
         /\ call[w].op \in {"create", "restore"} /\ call[w].at # "counted"
              => call[w] \in PlainCall
         /\ call[w].op \in {"create", "restore"} /\ call[w].at = "counted"
              => call[w] \in GrantCall
         /\ call[w].op \in {"issue", "admin_cancel"} => call[w] \in PlainCall
         /\ call[w].op = "cancel" => call[w] \in CancelCall
         /\ call[w].op = "patch" => call[w] \in PatchCall
         /\ call[w].op = "scan" => call[w] \in ScanCall
         /\ call[w].at # "idle" => /\ call[w].user \in Users
                                  /\ call[w].op \in AllOps
  BY DEF TypeOK, Call, Idle, PlainCall, GrantCall, CancelCall, PatchCall,
         ScanCall, AllOps, LockedOps, UnlockedOps

LEMMA LockRegOps ==
  ASSUME TypeOK, NEW w \in Workers, call[w].at = "ticket_locked"
  PROVE  call[w].op \in TicketFirstOps
  BY CallForms DEF AllOps, LockedOps, UnlockedOps, PlainCall, CancelCall,
     PatchCall, GrantCall, TicketFirstOps

(* Moving a call on by one lock keeps its form.                            *)
LEMMA TypeAdvance ==
  ASSUME TypeOK, NEW w \in Workers, NEW step,
         \/ call[w].op = "create" /\ step = "reg_locked"
            /\ call[w].at = "event_locked"
         \/ call[w].op = "issue" /\ step = "all_locked"
         \/ /\ call[w].op \in TicketFirstOps
            /\ call[w].at # "counted"
            /\ step \in {"ticket_locked", "reg_locked", "all_locked"}
         \/ call[w].op = "cancel" /\ step = "reg_locked",
         Advance(w, step)
  PROVE  call' \in [Workers -> Call]
<1>1. [call[w] EXCEPT !.at = step] \in Call
  BY CallForms DEF Call, PlainCall, CancelCall, ScanCall, TicketFirstOps
<1>2. QED
  BY <1>1 DEF Advance, TypeOK

LEMMA TypeContinue ==
  ASSUME TypeOK, NEW w \in Workers, Continue(w)
  PROVE  TypeOK'
<1> DEFINE u == call[w].user
<1>0. Idle \in Call
  BY DEF Call
<1>1. CASE CreateLockReg(w)
  <2>1. call' \in [Workers -> Call]
    BY <1>0, <1>1, TypeAdvance DEF CreateLockReg, Finish, TypeOK
  <2>2. QED
    BY <1>1, <2>1 DEF CreateLockReg, rows, TypeOK
<1>2. CASE CreateCount(w)
  <2>1. [op |-> "create", at |-> "counted", user |-> call[w].user,
         grant |-> NextStatus] \in Call
    BY <1>2, CallForms DEF CreateCount, Call, GrantCall
  <2>2. QED
    BY <1>2, <2>1 DEF CreateCount, rows, TypeOK
<1>3. CASE CreateCommit(w)
  <2>1. u \in Users /\ call[w].grant \in RegStatus
    BY <1>3, CallForms DEF CreateCommit, GrantCall, RegStatus
  <2>2. FreshTicket \in TicketRow
    BY RegistrationsAssumption
    DEF FreshTicket, TicketRow, TicketState, TypeOK, EventRow
  <2>3. QED
    BY <1>0, <1>3, <2>1, <2>2 DEF CreateCommit, Finish, TypeOK
<1>4. CASE LockReg(w)
  <2>1. call' \in [Workers -> Call]
    BY <1>4, TypeAdvance, LockRegOps DEF LockReg
  <2>2. QED
    BY <1>4, <2>1 DEF LockReg, rows, TypeOK
<1>5. CASE LockEvent(w)
  <2>1. call' \in [Workers -> Call]
    BY <1>5, TypeAdvance DEF LockEvent, TicketFirstOps
  <2>2. QED
    BY <1>5, <2>1 DEF LockEvent, rows, TypeOK
<1>6. CASE IssueCommit(w)
  <2>1. FreshTicket \in TicketRow
    BY RegistrationsAssumption
    DEF FreshTicket, TicketRow, TicketState, TypeOK, EventRow
  <2>2. QED
    BY <1>0, <1>6, <2>1 DEF IssueCommit, Finish, TypeOK
<1>7. CASE AdminCancelCommit(w)
  <2>1. [ticket[u] EXCEPT !.state = "cancelled"] \in TicketRow
    BY <1>7, CallForms
    DEF AdminCancelCommit, TypeOK, TicketRow, TicketState
  <2>2. QED
    BY <1>0, <1>7, <2>1
    DEF AdminCancelCommit, Finish, TypeOK, RegStatus
<1>8. CASE RestoreCount(w)
  <2>1. [op |-> "restore", at |-> "counted", user |-> u,
         grant |-> "registered"] \in Call
    BY <1>8, CallForms DEF RestoreCount, Call, GrantCall
  <2>2. QED
    BY <1>0, <1>8, <2>1 DEF RestoreCount, Finish, rows, TypeOK
<1>9. CASE RestoreCommit(w)
  <2>1. Marked(ticket[u], "valid", FALSE) \in TicketRow
    BY <1>9, CallForms
    DEF RestoreCommit, TypeOK, TicketRow, TicketState, Marked
  <2>2. QED
    BY <1>0, <1>9, <2>1 DEF RestoreCommit, Finish, TypeOK, RegStatus
<1>10. CASE ScanUnresolved(w)
  BY <1>0, <1>10 DEF ScanUnresolved, Finish, rows, TypeOK
<1>11. CASE ScanLockTicket(w)
  <2>1. call' \in [Workers -> Call]
    BY <1>11, TypeAdvance DEF ScanLockTicket, TicketFirstOps
  <2>2. QED
    BY <1>11, <2>1 DEF ScanLockTicket, rows, TypeOK
<1>12. CASE ScanCommit(w)
  <2>1. Marked(ticket[u], "used", TRUE) \in TicketRow
    BY <1>12, CallForms
    DEF ScanCommit, TypeOK, TicketRow, TicketState, Marked
  <2>2. [ticket[u] EXCEPT !.state = "expired"] \in TicketRow
    BY <1>12, CallForms DEF ScanCommit, TypeOK, TicketRow, TicketState
  <2>3. admits[u] \in 0..MaxAdmits
    BY <1>12, CallForms DEF ScanCommit, TypeOK
  <2>4. (IF admits[u] < MaxAdmits THEN admits[u] + 1 ELSE MaxAdmits)
          \in 0..MaxAdmits
    BY <2>3, RegistrationsAssumption
  <2>5. status' \in [Users -> RegStatus]
    BY <1>12 DEF ScanCommit, TypeOK, RegStatus
  <2>6. ticket' \in [Users -> TicketRow]
    BY <1>12, <2>1, <2>2 DEF ScanCommit, TypeOK
  <2>7. admits' \in [Users -> 0..MaxAdmits]
    BY <1>12, <2>4 DEF ScanCommit, TypeOK
  <2>8. QED
    BY <1>0, <1>12, <2>5, <2>6, <2>7 DEF ScanCommit, Finish, TypeOK
<1>13. CASE CancelLockReg(w)
  <2>1. call' \in [Workers -> Call]
    BY <1>13, TypeAdvance DEF CancelLockReg
  <2>2. QED
    BY <1>13, <2>1 DEF CancelLockReg, rows, TypeOK
<1>14. CASE CancelCommit(w)
  <2>1. [ticket[u] EXCEPT !.state = "cancelled"] \in TicketRow
    BY <1>14, CallForms DEF CancelCommit, TypeOK, TicketRow, TicketState
  <2>2. QED
    BY <1>0, <1>14, <2>1 DEF CancelCommit, Finish, TypeOK, RegStatus
<1>15. CASE PatchCommit(w)
  <2>1. call[w].seen \in TicketRow
    BY <1>15, CallForms DEF PatchCommit, PatchCall
  <2>2. PICK s \in TicketState \ {"none"},
             x \in Time \cup {call[w].seen.expiresAt}:
          ticket' = [ticket EXCEPT ![u] =
                       [call[w].seen EXCEPT !.state = s, !.expiresAt = x]]
    BY <1>15 DEF PatchCommit
  <2>3. x \in Nat
    BY <2>1, <2>2 DEF Time, TicketRow
  <2>4. [call[w].seen EXCEPT !.state = s, !.expiresAt = x] \in TicketRow
    BY <2>1, <2>3 DEF TicketRow
  <2>5. QED
    BY <1>0, <1>15, <2>2, <2>4 DEF PatchCommit, Finish, TypeOK
<1>16. QED
  BY <1>1, <1>2, <1>3, <1>4, <1>5, <1>6, <1>7, <1>8, <1>9, <1>10, <1>11,
     <1>12, <1>13, <1>14, <1>15 DEF Continue

(* TypeOK holds in every reachable state.                                  *)
THEOREM TypeCorrect == Spec => []TypeOK
<1>1. TypeOK /\ [Next]_vars => TypeOK'
  <2> SUFFICES ASSUME TypeOK, [Next]_vars PROVE TypeOK'
    OBVIOUS
  <2>1. CASE UNCHANGED vars
    BY <2>1 DEF vars, TypeOK
  <2>2. CASE EventWrite
    BY <2>2 DEF EventWrite, rows, TypeOK
  <2>3. CASE Tick
    BY <2>3, RegistrationsAssumption DEF Tick, rows, TypeOK, Time
  <2>4. ASSUME NEW w \in Workers, DeadlockAbort(w) PROVE TypeOK'
    BY <2>4 DEF DeadlockAbort, Finish, rows, TypeOK, Call
  <2>5. QED
    BY <2>1, <2>2, <2>3, <2>4, TypeStart, TypeContinue DEF Next
<1>2. QED
  BY <1>1, TypeInit, PTL DEF Spec
------------------------------------------------------------------------------
(* Row locks.  A step of w changes the call of w only ...                  *)
LEMMA OnlyOwnCall ==
  ASSUME TypeOK, NEW w \in Workers,
         Start(w) \/ Continue(w) \/ DeadlockAbort(w)
  PROVE  \A o \in Workers \ {w}: call'[o] = call[o]
  BY DEF TypeOK, Start, Continue, DeadlockAbort, Finish, Advance,
         CreateLockEvent, IssueLockReg, AdminLockTicket, ScanRead, CancelRead,
         PatchRead, CreateLockReg, CreateCount, CreateCommit, LockReg,
         LockEvent, IssueCommit, AdminCancelCommit, RestoreCount,
         RestoreCommit, ScanUnresolved, ScanLockTicket, ScanCommit,
         CancelLockReg, CancelCommit, PatchCommit

(* ... and takes a lock only when nobody else holds it.                    *)
TakesFreeLocks(w) ==
  /\ HoldsEvent(w)' => HoldsEvent(w) \/ EventFree(w)
  /\ \A u \in Users: HoldsReg(w, u)' => HoldsReg(w, u) \/ RegFree(w, u)
  /\ \A u \in Users: HoldsTicket(w, u)' => HoldsTicket(w, u) \/ TicketFree(w, u)

LEMMA FinishReleases ==
  ASSUME TypeOK, NEW w \in Workers, Finish(w)
  PROVE  TakesFreeLocks(w)
  BY RegistrationsAssumption
  DEF TypeOK, Finish, Idle, TakesFreeLocks, HoldsEvent, HoldsReg, HoldsTicket,
      TicketFirstOps

LEMMA StartTakesFreeLocks ==
  ASSUME TypeOK, NEW w \in Workers, Start(w)
  PROVE  TakesFreeLocks(w)
<1> USE DEF TypeOK, Begin, Idle, TakesFreeLocks, HoldsEvent, HoldsReg,
            HoldsTicket, TicketFirstOps
<1>1. PICK v \in Users:
        \/ CreateLockEvent(w, v)
        \/ IssueLockReg(w, v)
        \/ \E o \in {"admin_cancel", "restore"}: AdminLockTicket(w, v, o)
        \/ ScanRead(w, v)
        \/ CancelRead(w, v)
        \/ PatchRead(w, v)
  BY DEF Start
<1>2. CASE CreateLockEvent(w, v)
  BY <1>2 DEF CreateLockEvent
<1>3. CASE IssueLockReg(w, v)
  BY <1>3 DEF IssueLockReg
<1>4. CASE \E o \in {"admin_cancel", "restore"}: AdminLockTicket(w, v, o)
  BY <1>4 DEF AdminLockTicket
<1>5. CASE ScanRead(w, v) \/ CancelRead(w, v) \/ PatchRead(w, v)
  BY <1>5 DEF ScanRead, CancelRead, PatchRead
<1>6. QED
  BY <1>1, <1>2, <1>3, <1>4, <1>5

LEMMA AdvanceTakes ==
  ASSUME TypeOK, NEW w \in Workers, NEW step, Advance(w, step)
  PROVE  /\ call'[w].op = call[w].op
         /\ call'[w].user = call[w].user
         /\ call'[w].at = step
  BY CallForms DEF TypeOK, Advance, Call, Idle, PlainCall, GrantCall,
     CancelCall, PatchCall, ScanCall

LEMMA ContinueTakesFreeLocks ==
  ASSUME TypeOK, NEW w \in Workers, Continue(w)
  PROVE  TakesFreeLocks(w)
<1> USE DEF TakesFreeLocks, HoldsEvent, HoldsReg, HoldsTicket, TicketFirstOps
<1>1. CASE CreateLockReg(w)
  BY <1>1, AdvanceTakes, FinishReleases DEF CreateLockReg
<1>2. CASE CreateCount(w)
  BY <1>2 DEF CreateCount, TypeOK
<1>3. CASE LockReg(w)
  BY <1>3, AdvanceTakes, LockRegOps DEF LockReg
<1>4. CASE LockEvent(w)
  BY <1>4, AdvanceTakes DEF LockEvent
<1>5. CASE RestoreCount(w)
  BY <1>5, FinishReleases DEF RestoreCount, TypeOK
<1>6. CASE ScanLockTicket(w)
  BY <1>6, AdvanceTakes DEF ScanLockTicket
<1>7. CASE CancelLockReg(w)
  BY <1>7, AdvanceTakes DEF CancelLockReg
<1>8. CASE \/ CreateCommit(w) \/ IssueCommit(w) \/ AdminCancelCommit(w)
           \/ RestoreCommit(w) \/ ScanUnresolved(w) \/ ScanCommit(w)
           \/ CancelCommit(w) \/ PatchCommit(w)
  <2>1. Finish(w)
    BY <1>8 DEF CreateCommit, IssueCommit, AdminCancelCommit, RestoreCommit,
       ScanUnresolved, ScanCommit, CancelCommit, PatchCommit
  <2>2. QED
    BY <2>1, FinishReleases
<1>9. QED
  BY <1>1, <1>2, <1>3, <1>4, <1>5, <1>6, <1>7, <1>8 DEF Continue

(* No row is ever locked by two calls.                                     *)
LEMMA LocksStep == TypeOK /\ LockExclusive /\ [Next]_vars => LockExclusive'
<1> SUFFICES ASSUME TypeOK, LockExclusive, [Next]_vars PROVE LockExclusive'
  OBVIOUS
<1>1. CASE UNCHANGED call
  BY <1>1 DEF LockExclusive, HoldsEvent, HoldsReg, HoldsTicket
<1>2. ASSUME NEW w \in Workers, Start(w) \/ Continue(w) \/ DeadlockAbort(w)
      PROVE  LockExclusive'
  <2>1. TakesFreeLocks(w)
    BY <1>2, StartTakesFreeLocks, ContinueTakesFreeLocks, FinishReleases
    DEF DeadlockAbort
  <2>2. \A o \in Workers \ {w}:
          /\ HoldsEvent(o)' = HoldsEvent(o)
          /\ \A u \in Users: /\ HoldsReg(o, u)' = HoldsReg(o, u)
                             /\ HoldsTicket(o, u)' = HoldsTicket(o, u)
    BY <1>2, OnlyOwnCall DEF HoldsEvent, HoldsReg, HoldsTicket
  <2>3. QED
    BY <2>1, <2>2
    DEF LockExclusive, TakesFreeLocks, EventFree, RegFree, TicketFree
<1>3. QED
  BY <1>1, <1>2 DEF Next, vars, EventWrite, Tick

THEOREM LocksExclusive == Spec => []LockExclusive
<1>1. Init => LockExclusive
  BY RegistrationsAssumption
  DEF Init, LockExclusive, HoldsEvent, HoldsReg, HoldsTicket, Idle
<1>2. QED
  BY <1>1, LocksStep, TypeCorrect, PTL DEF Spec
------------------------------------------------------------------------------
(* Capacity.  Between the count and the write of a call that found room,   *)
(* there is still room: nobody adds a seat without locking the event row.  *)
RoomWhileCounted ==
  \A w \in Workers:
    call[w].at = "counted" /\ call[w].grant = "registered" => HasRoom

LEMMA SeatsFinite ==
  /\ IsFiniteSet(SeatsTaken)
  /\ Cardinality(SeatsTaken) \in Nat
  BY RegistrationsAssumption, FS_Subset, FS_CardinalityType DEF SeatsTaken

LEMMA NoSeatWithoutEventLock ==
  ASSUME TypeOK, NEW w \in Workers, ~HoldsEvent(w),
         Start(w) \/ Continue(w) \/ DeadlockAbort(w)
  PROVE  event' = event /\ SeatsTaken' \subseteq SeatsTaken
<1>1. CASE Start(w) \/ DeadlockAbort(w)
  BY <1>1 DEF Start, DeadlockAbort, SeatsTaken, CreateLockEvent, IssueLockReg,
     AdminLockTicket, ScanRead, CancelRead, PatchRead, rows
<1>2. CASE CancelCommit(w)
  BY <1>2 DEF CancelCommit, SeatsTaken, TypeOK
<1>3. CASE Continue(w) /\ ~CancelCommit(w)
  BY <1>3 DEF Continue, HoldsEvent, SeatsTaken, CreateLockReg, CreateCount,
     CreateCommit, LockReg, LockEvent, IssueCommit, AdminCancelCommit,
     RestoreCount, RestoreCommit, ScanUnresolved, ScanLockTicket, ScanCommit,
     CancelLockReg, PatchCommit, rows
<1>4. QED
  BY <1>1, <1>2, <1>3

LEMMA FewerSeatsLeaveRoom ==
  ASSUME TypeOK, HasRoom, event' = event, SeatsTaken' \subseteq SeatsTaken
  PROVE  HasRoom'
<1>1. Cardinality(SeatsTaken') <= Cardinality(SeatsTaken)
      /\ Cardinality(SeatsTaken') \in Nat
  BY SeatsFinite, FS_Subset, FS_CardinalityType
<1>2. event.cap \in Nat
  BY RegistrationsAssumption DEF TypeOK, EventRow
<1>3. QED
  BY <1>1, <1>2, SeatsFinite DEF HasRoom

(* A call is at "counted" after a count that found room, or unchanged.     *)
LEMMA CountedMeansRoom ==
  ASSUME TypeOK, NEW w \in Workers,
         Start(w) \/ Continue(w) \/ DeadlockAbort(w),
         call'[w].at = "counted", call'[w].grant = "registered"
  PROVE  HasRoom'
<1>1. CASE CreateCount(w)
  <2>1. HasRoom
    BY <1>1 DEF CreateCount, TypeOK
  <2>2. QED
    BY <1>1, <2>1 DEF CreateCount, HasRoom, SeatsTaken, rows
<1>2. CASE RestoreCount(w)
  <2>1. HasRoom
    BY <1>2 DEF RestoreCount, MayRestore, TypeOK, Finish, Idle
  <2>2. QED
    BY <1>2, <2>1 DEF RestoreCount, HasRoom, SeatsTaken, rows
<1>3. CASE ~CreateCount(w) /\ ~RestoreCount(w)
  <2>1. CASE Start(w)
    BY <2>1 DEF Start, TypeOK, CreateLockEvent, IssueLockReg,
       AdminLockTicket, ScanRead, CancelRead, PatchRead
  <2>2. CASE Finish(w)
    BY <2>2 DEF Finish, TypeOK, Idle
  <2>3. CASE Continue(w) /\ ~Finish(w)
    <3>1. PICK step \in {"ticket_locked", "reg_locked", "all_locked"}:
            Advance(w, step)
      BY <1>3, <2>3 DEF Continue, CreateLockReg, CreateCommit, LockReg,
         LockEvent, IssueCommit, AdminCancelCommit, RestoreCommit,
         ScanUnresolved, ScanLockTicket, ScanCommit, CancelLockReg,
         CancelCommit, PatchCommit
    <3>2. QED
      BY <3>1, AdvanceTakes
  <2>4. QED
    BY <2>1, <2>2, <2>3 DEF DeadlockAbort
<1>4. QED
  BY <1>1, <1>2, <1>3

LEMMA RoomStep ==
  TypeOK /\ LockExclusive /\ RoomWhileCounted /\ [Next]_vars
    => RoomWhileCounted'
<1> SUFFICES ASSUME TypeOK, LockExclusive, RoomWhileCounted, [Next]_vars
             PROVE  RoomWhileCounted'
  OBVIOUS
<1>1. CASE UNCHANGED vars
  BY <1>1 DEF vars, RoomWhileCounted, HasRoom, SeatsTaken
<1>2. CASE EventWrite
  BY <1>2 DEF EventWrite, RoomWhileCounted, HoldsEvent
<1>3. CASE Tick
  BY <1>3 DEF Tick, rows, RoomWhileCounted, HasRoom, SeatsTaken
<1>4. ASSUME NEW w \in Workers, Start(w) \/ Continue(w) \/ DeadlockAbort(w)
      PROVE  RoomWhileCounted'
  <2>1. SUFFICES ASSUME NEW o \in Workers, call'[o].at = "counted",
                        call'[o].grant = "registered"
                 PROVE  HasRoom'
    BY DEF RoomWhileCounted
  <2>2. CASE o = w
    BY <1>4, <2>1, <2>2, CountedMeansRoom
  <2>3. CASE o # w
    <3>1. call[o].at = "counted" /\ call[o].grant = "registered"
      BY <1>4, <2>1, <2>3, OnlyOwnCall
    <3>2. ~HoldsEvent(w)
      BY <2>3, <3>1 DEF LockExclusive, HoldsEvent
    <3>3. QED
      BY <1>4, <3>1, <3>2, NoSeatWithoutEventLock, FewerSeatsLeaveRoom
      DEF RoomWhileCounted
  <2>4. QED
    BY <2>2, <2>3
<1>5. QED
  BY <1>1, <1>2, <1>3, <1>4 DEF Next

(* The step that gives a seat had found room, so at most one more is taken. *)
LEMMA GrantStep ==
  ASSUME TypeOK, RoomWhileCounted, [Next]_vars,
         NEW u \in Users, SeatGranted(u)
  PROVE  event.cap = 0 \/ Cardinality(SeatsTaken') <= event.cap
<1>1. PICK w \in Workers: Continue(w)
  BY DEF Next, vars, SeatGranted, EventWrite, Tick, rows, Start,
     CreateLockEvent, IssueLockReg, AdminLockTicket, ScanRead, CancelRead,
     PatchRead, DeadlockAbort
<1>2. CreateCommit(w) \/ RestoreCommit(w)
  BY <1>1 DEF Continue, SeatGranted, TypeOK, CreateLockReg, CreateCount,
     LockReg, LockEvent, IssueCommit, AdminCancelCommit, RestoreCount,
     ScanUnresolved, ScanLockTicket, ScanCommit, CancelLockReg, CancelCommit,
     PatchCommit, rows
<1>3. /\ call[w].at = "counted" /\ call[w].grant = "registered"
      /\ status' = [status EXCEPT ![u] = "registered"]
  <2>1. CASE CreateCommit(w)
    BY <2>1, CallForms DEF CreateCommit, SeatGranted, TypeOK
  <2>2. CASE RestoreCommit(w)
    BY <2>2, CallForms DEF RestoreCommit, SeatGranted, TypeOK, GrantCall
  <2>3. QED
    BY <1>2, <2>1, <2>2
<1>4. HasRoom
  BY <1>3 DEF RoomWhileCounted
<1>5. SeatsTaken' = SeatsTaken \cup {u} /\ u \notin SeatsTaken
  BY <1>3 DEF SeatsTaken, SeatGranted, TypeOK
<1>6. Cardinality(SeatsTaken') = Cardinality(SeatsTaken) + 1
  BY <1>5, SeatsFinite, FS_AddElement
<1>7. event.cap \in Nat
  BY RegistrationsAssumption DEF TypeOK, EventRow
<1>8. QED
  BY <1>4, <1>6, <1>7, SeatsFinite DEF HasRoom

(* However calls interleave, giving a seat never overfills the event: the  *)
(* lock of the event row covers the count and the write.                    *)
THEOREM CapacityRespected == Spec => SeatsGrantedWithinCapacity
<1>1. Init => RoomWhileCounted
  BY DEF Init, RoomWhileCounted, Idle
<1>2. Spec => []RoomWhileCounted
  BY <1>1, RoomStep, TypeCorrect, LocksExclusive, PTL DEF Spec
<1>3. TypeOK /\ RoomWhileCounted /\ [Next]_vars
        => [(\E u \in Users: SeatGranted(u))
              => event.cap = 0 \/ Cardinality(SeatsTaken') <= event.cap]_vars
  BY GrantStep
<1>4. QED
  BY <1>2, <1>3, TypeCorrect, PTL DEF Spec, SeatsGrantedWithinCapacity
------------------------------------------------------------------------------
(* Tickets.  No step takes a ticket away.                                  *)
LEMMA TicketsStay ==
  ASSUME TypeOK, [Next]_vars, NEW u \in Users, HasTicket(u)
  PROVE  HasTicket(u)'
<1>1. CASE UNCHANGED ticket
  BY <1>1 DEF HasTicket
<1>2. ASSUME NEW w \in Workers, Continue(w) PROVE HasTicket(u)'
  <2>1. CASE CreateCommit(w) \/ IssueCommit(w)
    BY <2>1 DEF CreateCommit, IssueCommit, HasTicket, TypeOK, FreshTicket
  <2>2. CASE RestoreCommit(w) \/ ScanCommit(w)
    BY <2>2 DEF RestoreCommit, ScanCommit, HasTicket, TypeOK, Marked,
       TicketRow
  <2>3. CASE AdminCancelCommit(w) \/ CancelCommit(w)
    BY <2>3 DEF AdminCancelCommit, CancelCommit, HasTicket, TypeOK, TicketRow
  <2>4. CASE PatchCommit(w)
    <3>1. call[w].seen \in TicketRow /\ call[w].user \in Users
      BY <2>4, CallForms DEF PatchCommit, PatchCall
    <3>2. PICK s \in TicketState \ {"none"},
               x \in Time \cup {call[w].seen.expiresAt}:
            ticket' = [ticket EXCEPT ![call[w].user] =
                         [call[w].seen EXCEPT !.state = s, !.expiresAt = x]]
      BY <2>4 DEF PatchCommit
    <3>3. [call[w].seen EXCEPT !.state = s, !.expiresAt = x].state = s
      BY <3>1 DEF TicketRow
    <3>4. QED
      BY <3>1, <3>2, <3>3 DEF HasTicket, TypeOK
  <2>5. QED
    BY <1>1, <1>2, <2>1, <2>2, <2>3, <2>4 DEF Continue, CreateLockReg,
       CreateCount, LockReg, LockEvent, RestoreCount, ScanUnresolved,
       ScanLockTicket, CancelLockReg, rows
<1>3. QED
  BY <1>1, <1>2 DEF Next, vars, EventWrite, Tick, rows, Start,
     CreateLockEvent, IssueLockReg, AdminLockTicket, ScanRead, CancelRead,
     PatchRead, DeadlockAbort

(* Whoever has a seat has a ticket, whatever operations are served.        *)
THEOREM SeatsHaveTickets == Spec => []SeatedHasTicket
<1>1. Init => SeatedHasTicket
  BY DEF Init, SeatedHasTicket
<1>2. TypeOK /\ SeatedHasTicket /\ [Next]_vars => SeatedHasTicket'
  <2> SUFFICES ASSUME TypeOK, SeatedHasTicket, [Next]_vars, NEW u \in Users,
                      status'[u] \in {"registered", "checked_in"}
               PROVE  HasTicket(u)'
    BY DEF SeatedHasTicket
  <2>1. CASE status[u] \in {"registered", "checked_in"}
    BY <2>1, TicketsStay DEF SeatedHasTicket
  <2>2. CASE status[u] \notin {"registered", "checked_in"}
    <3>1. PICK w \in Workers: Continue(w)
      BY <2>2 DEF Next, vars, EventWrite, Tick, rows, Start,
         CreateLockEvent, IssueLockReg, AdminLockTicket, ScanRead,
         CancelRead, PatchRead, DeadlockAbort
    <3>2. CreateCommit(w) \/ RestoreCommit(w) \/ ScanCommit(w)
      BY <2>2, <3>1 DEF Continue, TypeOK, CreateLockReg, CreateCount,
         LockReg, LockEvent, IssueCommit, AdminCancelCommit, RestoreCount,
         ScanUnresolved, ScanLockTicket, CancelLockReg, CancelCommit,
         PatchCommit, rows
    <3>3. CASE CreateCommit(w)
      BY <2>2, <3>3, CallForms
      DEF CreateCommit, TypeOK, HasTicket, FreshTicket, GrantCall
    <3>4. CASE RestoreCommit(w)
      BY <2>2, <3>4 DEF RestoreCommit, TypeOK, HasTicket, Marked
    <3>5. CASE ScanCommit(w)
      BY <2>2, <3>5 DEF ScanCommit, TypeOK, HasTicket, Marked
    <3>6. QED
      BY <3>2, <3>3, <3>4, <3>5
  <2>3. QED
    BY <2>1, <2>2
<1>3. QED
  BY <1>1, <1>2, TypeCorrect, PTL DEF Spec
------------------------------------------------------------------------------
(* From here on Registrations is restricted to the operations that decide   *)
(* under row locks: registrations and tickets agree, nobody is let in       *)
(* twice, and every behaviour is one of the abstract specification          *)
(* Admission.                                                               *)

(* How one of those operations changes the rows of user u.                 *)
OthersKept(u) ==
  \A v \in Users \ {u}: /\ status'[v] = status[v]
                        /\ ticket'[v].state = ticket[v].state
                        /\ admits'[v] = admits[v]

Granted(u) ==
  /\ status[u] \in ReRegisterable /\ HasRoom
  /\ status' = [status EXCEPT ![u] = "registered"]
  /\ ticket'[u].state = "valid"
  /\ admits' = admits

Queued(u) ==
  /\ status[u] \in ReRegisterable /\ ~HasRoom
  /\ status' = [status EXCEPT ![u] = "waitlisted"]
  /\ ticket' = ticket
  /\ admits' = admits

Left(u) ==
  /\ status[u] = "registered"
  /\ status' = [status EXCEPT ![u] = "cancelled"]
  /\ ticket'[u].state = "cancelled"
  /\ admits' = admits

LetIn(u) ==
  /\ status[u] = "registered"
  /\ status' = [status EXCEPT ![u] = "checked_in"]
  /\ ticket'[u].state = "used"
  /\ admits'[u] = 1

Expired(u) ==
  /\ status[u] = "registered"
  /\ status' = status
  /\ ticket'[u].state = "expired"
  /\ admits' = admits

Changes(w, u) ==
  /\ HoldsEvent(w) /\ HoldsReg(w, u)
  /\ OthersKept(u)
  /\ Granted(u) \/ Queued(u) \/ Left(u) \/ LetIn(u) \/ Expired(u)

LockedInv ==
  /\ TypeOK
  /\ LockExclusive
  /\ TicketMatchesRegistration
  /\ AdmittedOnce
  /\ CallsStillRight
------------------------------------------------------------------------------
(* Each commit is one of those five changes, or changes nothing.           *)
LEMMA CommitChanges ==
  ASSUME Ops \subseteq LockedOps, LockedInv, NEW w \in Workers, Continue(w)
  PROVE  /\ event' = event
         /\ UNCHANGED rows \/ \E u \in Users: Changes(w, u)
<1> DEFINE u == call[w].user
<1> USE DEF LockedInv
<1>0. call[w].op \in LockedOps \cup {"none"}
  BY DEF CallsStillRight
<1>1. CASE CreateCommit(w)
  <2>1. /\ u \in Users /\ call[w] \in GrantCall
        /\ status[u] \in ReRegisterable
        /\ call[w].grant = "registered" <=> HasRoom
    BY <1>1, CallForms DEF CreateCommit, CallsStillRight
  <2>2. HoldsEvent(w) /\ HoldsReg(w, u) /\ OthersKept(u)
    BY <1>1, <2>1 DEF CreateCommit, HoldsEvent, HoldsReg, OthersKept, TypeOK
  <2>3. CASE call[w].grant = "registered"
    <3>1. Granted(u)
      BY <1>1, <2>1, <2>3 DEF CreateCommit, Granted, FreshTicket, TypeOK
    <3>2. QED
      BY <1>1, <2>1, <2>2, <3>1 DEF Changes, CreateCommit
  <2>4. CASE call[w].grant = "waitlisted"
    <3>1. Queued(u)
      BY <1>1, <2>1, <2>4 DEF CreateCommit, Queued, TypeOK
    <3>2. QED
      BY <1>1, <2>1, <2>2, <3>1 DEF Changes, CreateCommit
  <2>5. QED
    BY <2>1, <2>3, <2>4 DEF GrantCall
<1>2. CASE IssueCommit(w)
  <2>1. u \in Users
    BY <1>2, CallForms DEF IssueCommit
  <2>2. ~(~HasTicket(u) /\ status[u] = "registered")
    BY <2>1 DEF TicketMatchesRegistration, HasTicket
  <2>3. QED
    BY <1>2, <2>2 DEF IssueCommit, rows
<1>3. CASE AdminCancelCommit(w)
  <2>1. u \in Users /\ HasTicket(u)
    BY <1>3, CallForms DEF AdminCancelCommit, CallsStillRight, TicketFirstOps
  <2>2. CASE ticket[u].state \in {"used", "cancelled"}
             \/ status[u] \in {"cancelled", "checked_in"}
    BY <1>3, <2>2 DEF AdminCancelCommit, AdminMayCancel, rows
  <2>3. CASE ~(ticket[u].state \in {"used", "cancelled"}
               \/ status[u] \in {"cancelled", "checked_in"})
    <3>1. status[u] = "registered"
      BY <2>1, <2>3
      DEF TicketMatchesRegistration, HasTicket, TypeOK, RegStatus
    <3>2. HoldsEvent(w) /\ HoldsReg(w, u)
      BY <1>3 DEF AdminCancelCommit, HoldsEvent, HoldsReg
    <3>3. /\ status' = [status EXCEPT ![u] = "cancelled"]
          /\ ticket' = [ticket EXCEPT ![u].state = "cancelled"]
          /\ admits' = admits /\ event' = event
      BY <1>3, <2>3 DEF AdminCancelCommit, AdminMayCancel
    <3>4. OthersKept(u) /\ Left(u)
      BY <2>1, <3>1, <3>3 DEF OthersKept, Left, TypeOK, TicketRow
    <3>5. QED
      BY <2>1, <3>2, <3>3, <3>4 DEF Changes
  <2>4. QED
    BY <2>2, <2>3
<1>4. CASE RestoreCommit(w)
  <2>1. /\ u \in Users /\ call[w] \in GrantCall
        /\ call[w].grant = "registered"
        /\ status[u] = "cancelled" /\ HasRoom
    BY <1>4, CallForms DEF RestoreCommit, CallsStillRight, GrantCall
  <2>2. HoldsEvent(w) /\ HoldsReg(w, u) /\ OthersKept(u)
    BY <1>4, <2>1 DEF RestoreCommit, HoldsEvent, HoldsReg, OthersKept, TypeOK
  <2>3. Granted(u)
    BY <1>4, <2>1
    DEF RestoreCommit, Granted, Marked, TypeOK, ReRegisterable
  <2>4. QED
    BY <1>4, <2>1, <2>2, <2>3 DEF Changes, RestoreCommit
<1>5. CASE ScanCommit(w)
  <2>1. u \in Users /\ HasTicket(u)
    BY <1>5, CallForms DEF ScanCommit, CallsStillRight, TicketFirstOps
  <2>2. HoldsEvent(w) /\ HoldsReg(w, u) /\ event' = event
    BY <1>5 DEF ScanCommit, HoldsEvent, HoldsReg
  <2>3. CASE ScanResult(w) \in {"success", "just_expired"}
    <3>1. ticket[u].state = "valid" /\ status[u] = "registered"
      BY <2>1, <2>3
      DEF ScanResult, AlreadyIn, Void, HasTicket, TicketMatchesRegistration, TypeOK,
          TicketRow, TicketState, RegStatus
    <3>2. admits[u] = 0
      BY <2>1, <3>1 DEF AdmittedOnce
    <3>3. CASE ScanResult(w) = "success"
      <4>1. /\ status' = [status EXCEPT ![u] = "checked_in"]
            /\ ticket' = [ticket EXCEPT ![u] = Marked(ticket[u], "used", TRUE)]
            /\ admits' = [admits EXCEPT ![u] = 1]
        <5>1. (IF admits[u] < MaxAdmits THEN admits[u] + 1 ELSE MaxAdmits) = 1
          BY <3>2, RegistrationsAssumption
        <5>2. QED
          BY <1>5, <2>1, <3>3, <5>1 DEF ScanCommit, TypeOK
      <4>2. OthersKept(u) /\ LetIn(u)
        BY <2>1, <3>1, <4>1 DEF OthersKept, LetIn, Marked, TypeOK
      <4>3. QED
        BY <2>1, <2>2, <4>2 DEF Changes
    <3>4. CASE ScanResult(w) = "just_expired"
      <4>1. /\ status' = status /\ admits' = admits
            /\ ticket' = [ticket EXCEPT ![u].state = "expired"]
        BY <1>5, <3>4 DEF ScanCommit
      <4>2. OthersKept(u) /\ Expired(u)
        BY <2>1, <3>1, <4>1 DEF OthersKept, Expired, TypeOK, TicketRow
      <4>3. QED
        BY <2>1, <2>2, <4>2 DEF Changes
    <3>5. QED
      BY <2>3, <3>3, <3>4
  <2>4. CASE ScanResult(w) \notin {"success", "just_expired"}
    BY <1>5, <2>2, <2>4 DEF ScanCommit, rows
  <2>5. QED
    BY <2>3, <2>4
<1>6. CASE CancelLockReg(w) \/ CancelCommit(w) \/ PatchCommit(w)
  BY <1>0, <1>6 DEF CancelLockReg, CancelCommit, PatchCommit, LockedOps
<1>7. CASE \/ CreateLockReg(w) \/ CreateCount(w) \/ LockReg(w) \/ LockEvent(w)
           \/ RestoreCount(w) \/ ScanUnresolved(w) \/ ScanLockTicket(w)
  BY <1>7 DEF CreateLockReg, CreateCount, LockReg, LockEvent, RestoreCount,
     ScanUnresolved, ScanLockTicket, rows
<1>8. QED
  BY <1>1, <1>2, <1>3, <1>4, <1>5, <1>6, <1>7 DEF Continue
------------------------------------------------------------------------------
(* Such a change keeps registrations, tickets and admissions in agreement. *)
LEMMA ChangesAgree ==
  ASSUME LockedInv, TypeOK', NEW w \in Workers, NEW u \in Users, Changes(w, u)
  PROVE  TicketMatchesRegistration' /\ AdmittedOnce'
<1> SUFFICES ASSUME NEW v \in Users
             PROVE  /\ status'[v] = "registered"
                         => ticket'[v].state \in {"valid", "expired"}
                    /\ status'[v] = "checked_in" => ticket'[v].state = "used"
                    /\ status'[v] \in {"none", "waitlisted", "cancelled"}
                         => ticket'[v].state \in {"none", "cancelled"}
                    /\ admits'[v] = IF status'[v] = "checked_in" THEN 1 ELSE 0
  BY DEF TicketMatchesRegistration, AdmittedOnce
<1> USE DEF LockedInv, Changes, OthersKept, TicketMatchesRegistration,
            AdmittedOnce, TypeOK
<1>1. CASE v # u
  BY <1>1
<1>2. CASE v = u /\ (Granted(u) \/ Queued(u))
  BY <1>2 DEF Granted, Queued, ReRegisterable
<1>3. CASE v = u /\ (Left(u) \/ LetIn(u) \/ Expired(u))
  BY <1>3 DEF Left, LetIn, Expired
<1>4. QED
  BY <1>1, <1>2, <1>3

(* It keeps what the other calls in progress rely on.                      *)
LEMMA OtherCallsStillRight ==
  ASSUME LockedInv, [Next]_vars, NEW w \in Workers, NEW o \in Workers, o # w,
         call'[o] = call[o], event' = event,
         UNCHANGED rows \/ \E u \in Users: Changes(w, u)
  PROVE  LET c == call[o] IN
         /\ c.op \in Ops \cup {"none"}
         /\ c.op = "create" /\ c.at \in {"reg_locked", "counted"}
              => status'[c.user] \in ReRegisterable
         /\ c.op = "restore" /\ c.at = "counted" => status'[c.user] = "cancelled"
         /\ c.op \in TicketFirstOps /\ c.at \notin {"idle", "read"}
              => ticket'[c.user].state # "none"
         /\ c.at = "counted" => (c.grant = "registered" <=> HasRoom')
<1> DEFINE c == call[o]
<1> USE DEF LockedInv
<1>1. c.at # "idle" => c.user \in Users
  BY CallForms
<1>2. c.at \in {"reg_locked", "counted"} => status'[c.user] = status[c.user]
  <2> SUFFICES ASSUME c.at \in {"reg_locked", "counted"}
               PROVE  status'[c.user] = status[c.user]
    OBVIOUS
  <2>1. CASE UNCHANGED rows
    BY <2>1 DEF rows
  <2>2. ASSUME NEW u \in Users, Changes(w, u)
        PROVE  status'[c.user] = status[c.user]
    <3>1. HoldsReg(o, c.user) /\ c.user \in Users
      BY <1>1 DEF HoldsReg
    <3>2. u # c.user
      BY <2>2, <3>1 DEF Changes, LockExclusive
    <3>3. QED
      BY <2>2, <3>1, <3>2 DEF Changes, OthersKept
  <2>3. QED
    BY <2>1, <2>2
<1>3. c.op \in TicketFirstOps /\ c.at \notin {"idle", "read"}
        => ticket'[c.user].state # "none"
  BY <1>1, TicketsStay DEF CallsStillRight, HasTicket
<1>4. c.at = "counted" => HasRoom' = HasRoom
  <2>1. SUFFICES ASSUME c.at = "counted" PROVE HasRoom' = HasRoom
    OBVIOUS
  <2>2. HoldsEvent(o)
    BY <2>1 DEF HoldsEvent
  <2>3. \A u \in Users: ~Changes(w, u)
    BY <2>2 DEF Changes, LockExclusive
  <2>4. QED
    BY <2>3 DEF rows, HasRoom, SeatsTaken
<1>5. QED
  BY <1>2, <1>3, <1>4 DEF CallsStillRight

(* A call that starts has relied on nothing yet, one that goes on has just *)
(* read the row it locked, and one that ends needs nothing any more.       *)
LEMMA OwnCallStillRight ==
  ASSUME LockedInv, NEW w \in Workers,
         Start(w) \/ Continue(w) \/ DeadlockAbort(w)
  PROVE  LET c == call'[w] IN
         /\ c.op \in Ops \cup {"none"}
         /\ c.op = "create" /\ c.at \in {"reg_locked", "counted"}
              => status'[c.user] \in ReRegisterable
         /\ c.op = "restore" /\ c.at = "counted" => status'[c.user] = "cancelled"
         /\ c.op \in TicketFirstOps /\ c.at \notin {"idle", "read"}
              => ticket'[c.user].state # "none"
         /\ c.at = "counted" => (c.grant = "registered" <=> HasRoom')
<1> USE DEF LockedInv, TicketFirstOps
<1>1. CASE Finish(w)
  BY <1>1 DEF Finish, Idle, TypeOK
<1>2. CASE Start(w)
  BY <1>2 DEF Start, Begin, TypeOK, CreateLockEvent, IssueLockReg,
     AdminLockTicket, ScanRead, CancelRead, PatchRead, HasTicket, rows
<1>3. CASE CreateLockReg(w) /\ ~Finish(w)
  BY <1>3, AdvanceTakes DEF CreateLockReg, CallsStillRight, rows
<1>4. CASE CreateCount(w)
  <2>1. HasRoom' = HasRoom
    BY <1>4 DEF CreateCount, HasRoom, SeatsTaken, rows
  <2>2. status[call[w].user] \in ReRegisterable /\ "create" \in Ops
    BY <1>4 DEF CreateCount, CallsStillRight
  <2>3. call'[w] = [op |-> "create", at |-> "counted", user |-> call[w].user,
                    grant |-> NextStatus]
    BY <1>4 DEF CreateCount, TypeOK
  <2>4. QED
    BY <1>4, <2>1, <2>2, <2>3 DEF CreateCount, rows
<1>5. CASE RestoreCount(w) /\ ~Finish(w)
  <2>1. HasRoom' = HasRoom
    BY <1>5 DEF RestoreCount, HasRoom, SeatsTaken, rows
  <2>2. /\ HasRoom /\ "restore" \in Ops
        /\ status[call[w].user] = "cancelled"
        /\ ticket[call[w].user].state = "cancelled"
    BY <1>5 DEF RestoreCount, MayRestore, CallsStillRight
  <2>3. call'[w] = [op |-> "restore", at |-> "counted", user |-> call[w].user,
                    grant |-> "registered"]
    BY <1>5 DEF RestoreCount, TypeOK
  <2>4. QED
    BY <1>5, <2>1, <2>2, <2>3 DEF RestoreCount, rows
<1>6. CASE LockReg(w) \/ LockEvent(w) \/ ScanLockTicket(w) \/ CancelLockReg(w)
  <2>1. PICK step \in {"ticket_locked", "reg_locked", "all_locked"}:
          Advance(w, step)
    BY <1>6 DEF LockReg, LockEvent, ScanLockTicket, CancelLockReg
  <2>2. /\ call'[w].op = call[w].op /\ call'[w].user = call[w].user
        /\ call'[w].at # "counted"
    BY <2>1, AdvanceTakes
  <2>3. call[w].op # "create"
    BY <1>6, LockRegOps DEF LockReg, LockEvent, ScanLockTicket, CancelLockReg
  <2>4. call[w].op \in TicketFirstOps => ticket'[call[w].user].state # "none"
    BY <1>6 DEF LockReg, LockEvent, ScanLockTicket, CancelLockReg,
       CallsStillRight, HasTicket, rows
  <2>5. QED
    BY <2>2, <2>3, <2>4 DEF CallsStillRight
<1>7. QED
  BY <1>1, <1>2, <1>3, <1>4, <1>5, <1>6 DEF Continue, DeadlockAbort,
     CreateCommit, IssueCommit, AdminCancelCommit, RestoreCommit,
     ScanUnresolved, ScanCommit, CancelCommit, PatchCommit

LEMMA LockedStep ==
  ASSUME Ops \subseteq LockedOps, LockedInv, [Next]_vars, TypeOK',
         LockExclusive'
  PROVE  LockedInv'
<1>1. CASE UNCHANGED <<status, ticket, admits, call>> /\ UNCHANGED event
  <2>1. HasRoom' = HasRoom
    BY <1>1 DEF HasRoom, SeatsTaken
  <2>2. CallsStillRight'
    BY <1>1, <2>1 DEF LockedInv, CallsStillRight, HasTicket
  <2>3. QED
    BY <1>1, <2>2 DEF LockedInv, TicketMatchesRegistration, AdmittedOnce
<1>2. CASE EventWrite
  <2>1. \A w \in Workers: call[w].at # "counted"
    BY <1>2 DEF EventWrite, HoldsEvent
  <2>2. QED
    BY <1>2, <2>1 DEF EventWrite, rows, LockedInv, AdmittedOnce,
       TicketMatchesRegistration, CallsStillRight, HasTicket
<1>3. ASSUME NEW w \in Workers, Start(w) \/ Continue(w) \/ DeadlockAbort(w)
      PROVE  LockedInv'
  <2>1. /\ event' = event
        /\ UNCHANGED rows \/ \E u \in Users: Changes(w, u)
    <3>1. CASE Start(w) \/ DeadlockAbort(w)
      BY <3>1 DEF Start, DeadlockAbort, CreateLockEvent, IssueLockReg,
         AdminLockTicket, ScanRead, CancelRead, PatchRead, rows
    <3>2. QED
      BY <1>3, <3>1, CommitChanges
  <2>2. TicketMatchesRegistration' /\ AdmittedOnce'
    <3>1. CASE UNCHANGED rows
      BY <3>1
      DEF rows, LockedInv, TicketMatchesRegistration, AdmittedOnce
    <3>2. QED
      BY <2>1, <3>1, ChangesAgree
  <2>3. ASSUME NEW o \in Workers
        PROVE  LET c == call'[o] IN
               /\ c.op \in Ops \cup {"none"}
               /\ c.op = "create" /\ c.at \in {"reg_locked", "counted"}
                    => status'[c.user] \in ReRegisterable
               /\ c.op = "restore" /\ c.at = "counted"
                    => status'[c.user] = "cancelled"
               /\ c.op \in TicketFirstOps /\ c.at \notin {"idle", "read"}
                    => ticket'[c.user].state # "none"
               /\ c.at = "counted" => (c.grant = "registered" <=> HasRoom')
    <3>1. CASE o = w
      BY <1>3, <3>1, OwnCallStillRight
    <3>2. CASE o # w
      <4>1. call'[o] = call[o]
        BY <1>3, <3>2, OnlyOwnCall DEF LockedInv
      <4>2. QED
        BY <2>1, <3>2, <4>1, OtherCallsStillRight
    <3>3. QED
      BY <3>1, <3>2
  <2>4. CallsStillRight'
    BY <2>3 DEF CallsStillRight, HasTicket
  <2>5. QED
    BY <2>2, <2>4 DEF LockedInv
<1>4. QED
  BY <1>1, <1>2, <1>3 DEF Next, vars, Tick, rows

THEOREM LockedInvariant == Ops \subseteq LockedOps => (Spec => []LockedInv)
<1> SUFFICES ASSUME Ops \subseteq LockedOps PROVE Spec => []LockedInv
  OBVIOUS
<1>1. Init /\ TypeOK /\ LockExclusive => LockedInv
  BY DEF Init, LockedInv, TicketMatchesRegistration, AdmittedOnce,
     CallsStillRight, Idle, NoTicket, TicketFirstOps
<1>2. LockedInv /\ TypeOK' /\ LockExclusive' /\ [Next]_vars => LockedInv'
  BY LockedStep
<1>3. QED
  BY <1>1, <1>2, TypeCorrect, LocksExclusive, PTL DEF Spec

(* Served with those operations only, a ticket always tells what the       *)
(* registration says.                                                       *)
THEOREM TicketsMatch ==
  Ops \subseteq LockedOps => (Spec => []TicketMatchesRegistration)
<1>1. LockedInv => TicketMatchesRegistration
  BY DEF LockedInv
<1>2. QED
  BY <1>1, LockedInvariant, PTL

(* ... everybody checked in has been let in exactly once, nobody else has. *)
THEOREM NobodyEntersTwice == Ops \subseteq LockedOps => (Spec => []AdmittedOnce)
<1>1. LockedInv => AdmittedOnce
  BY DEF LockedInv
<1>2. QED
  BY <1>1, LockedInvariant, PTL

(* ... and a check-in is never undone.                                     *)
THEOREM CheckInsStay == Ops \subseteq LockedOps => (Spec => CheckedInIsFinal)
<1> SUFFICES ASSUME Ops \subseteq LockedOps PROVE Spec => CheckedInIsFinal
  OBVIOUS
<1>1. LockedInv /\ [Next]_vars
        => [\A u \in Users: status[u] = "checked_in"
                            => status'[u] = "checked_in"]_vars
  <2> SUFFICES ASSUME LockedInv, [Next]_vars, NEW v \in Users,
                      status[v] = "checked_in"
               PROVE  status'[v] = "checked_in"
    OBVIOUS
  <2>1. CASE UNCHANGED status
    BY <2>1
  <2>2. ASSUME NEW w \in Workers, NEW u \in Users, Changes(w, u)
        PROVE  status'[v] = "checked_in"
    BY <2>2 DEF Changes, OthersKept, Granted, Queued, Left, LetIn, Expired,
       ReRegisterable
  <2>3. ASSUME NEW w \in Workers, Continue(w)
        PROVE  status'[v] = "checked_in"
    BY <2>1, <2>2, <2>3, CommitChanges DEF rows
  <2>4. QED
    BY <2>1, <2>3 DEF Next, vars, EventWrite, Tick, rows, Start,
       DeadlockAbort, CreateLockEvent, IssueLockReg, AdminLockTicket,
       ScanRead, CancelRead, PatchRead
<1>2. QED
  BY <1>1, LockedInvariant, PTL DEF Spec, CheckedInIsFinal
(* ... and, while nobody changes the capacity, the seats taken never exceed   *)
(* it: every grant found room, and no other step takes a seat.               *)
SteadyCapacity == \A d, e \in EventValues: d.cap = e.cap

THEOREM NeverTooManySeats ==
  Ops \subseteq LockedOps /\ SteadyCapacity => (Spec => []NeverOverbooked)
<1> SUFFICES ASSUME Ops \subseteq LockedOps, SteadyCapacity
             PROVE  Spec => []NeverOverbooked
  OBVIOUS
<1> DEFINE Grants == (\E u \in Users: SeatGranted(u))
                       => event.cap = 0 \/ Cardinality(SeatsTaken') <= event.cap
<1>1. Init => NeverOverbooked
  <2> SUFFICES ASSUME Init PROVE Cardinality(SeatsTaken) <= event.cap
    BY DEF NeverOverbooked
  <2>1. SeatsTaken = {}
    BY DEF Init, SeatsTaken
  <2>2. event.cap \in Nat
    BY RegistrationsAssumption DEF Init, EventRow
  <2>3. QED
    BY <2>1, <2>2, FS_EmptySet
<1>2. LockedInv /\ LockedInv' /\ NeverOverbooked /\ [Next]_vars /\ [Grants]_vars
        => NeverOverbooked'
  <2> SUFFICES ASSUME LockedInv, LockedInv', NeverOverbooked, [Next]_vars,
                      [Grants]_vars
               PROVE  NeverOverbooked'
    OBVIOUS
  <2>1. event'.cap = event.cap /\ event.cap \in Nat
    BY RegistrationsAssumption DEF LockedInv, TypeOK, EventRow, SteadyCapacity
  <2>2. CASE \E u \in Users: SeatGranted(u)
    <3>1. Grants
      BY <2>2 DEF SeatGranted, vars
    <3>2. QED
      BY <2>1, <2>2, <3>1 DEF NeverOverbooked
  <2>3. CASE ~\E u \in Users: SeatGranted(u)
    <3>1. SeatsTaken' \subseteq SeatsTaken
      <4>1. CASE UNCHANGED status
        BY <4>1 DEF SeatsTaken
      <4>2. ASSUME NEW w \in Workers, NEW u \in Users, Changes(w, u)
            PROVE  SeatsTaken' \subseteq SeatsTaken
        BY <2>3, <4>2 DEF Changes, Granted, Queued, Left, LetIn, Expired,
           SeatGranted, SeatsTaken, LockedInv, TypeOK, ReRegisterable
      <4>3. ASSUME NEW w \in Workers, Continue(w)
            PROVE  SeatsTaken' \subseteq SeatsTaken
        BY <4>1, <4>2, <4>3, CommitChanges DEF rows
      <4>4. QED
        BY <4>1, <4>3 DEF Next, vars, EventWrite, Tick, rows, Start,
           DeadlockAbort, CreateLockEvent, IssueLockReg, AdminLockTicket,
           ScanRead, CancelRead, PatchRead
    <3>2. /\ Cardinality(SeatsTaken') <= Cardinality(SeatsTaken)
          /\ Cardinality(SeatsTaken') \in Nat /\ Cardinality(SeatsTaken) \in Nat
      BY <3>1, SeatsFinite, FS_Subset, FS_CardinalityType
    <3>3. QED
      BY <2>1, <3>2 DEF NeverOverbooked
  <2>4. QED
    BY <2>2, <2>3
<1>3. QED
  BY <1>1, <1>2, LockedInvariant, CapacityRespected, PTL
  DEF Spec, SeatsGrantedWithinCapacity
------------------------------------------------------------------------------
(* Refinement.  The abstract state after a change of one registration.     *)
LEMMA SeatsTakenIsTaken == SeatsTaken = Adm!Taken
  BY DEF SeatsTaken, Adm!Taken, SeatOf

LEMMA RoomIsRoom == HasRoom <=> Adm!Room
<1>1. Cardinality(SeatsTaken) = Cardinality(Adm!Taken)
  BY SeatsTakenIsTaken
<1>2. QED
  BY <1>1 DEF HasRoom, Adm!Room, Cardinality, Adm!Cardinality

LEMMA ChangeIsAdmissionStep ==
  ASSUME LockedInv, NEW w \in Workers, NEW u \in Users, Changes(w, u),
         event' = event
  PROVE  [Adm!Next]_(Adm!vars)
<1> DEFINE seat == [v \in Users |-> SeatOf(v)]
<1> USE DEF LockedInv, TypeOK, Changes
<1>1. ASSUME NEW s \in RegStatus, status' = [status EXCEPT ![u] = s]
      PROVE  seat' = [seat EXCEPT ![u] =
                        CASE s = "registered" -> "held"
                          [] s = "checked_in" -> "in"
                          [] s = "waitlisted" -> "waiting"
                          [] OTHER -> "out"]
  BY <1>1 DEF SeatOf
<1>2. CASE Granted(u)
  <2>1. seat[u] = "out" /\ seat' = [seat EXCEPT ![u] = "held"]
    BY <1>1, <1>2 DEF Granted, ReRegisterable, SeatOf, RegStatus
  <2>2. Adm!Grant(u)
    BY <1>2, <2>1, RoomIsRoom DEF Granted, Adm!Grant, Adm!Move
  <2>3. QED
    BY <2>2 DEF Adm!Next
<1>3. CASE Queued(u)
  <2>1. seat[u] = "out" /\ seat' = [seat EXCEPT ![u] = "waiting"]
    BY <1>1, <1>3 DEF Queued, ReRegisterable, SeatOf, RegStatus
  <2>2. Adm!Queue(u)
    BY <1>3, <2>1, RoomIsRoom DEF Queued, Adm!Queue, Adm!Move
  <2>3. QED
    BY <2>2 DEF Adm!Next
<1>4. CASE Left(u)
  <2>1. seat[u] = "held" /\ seat' = [seat EXCEPT ![u] = "out"]
    BY <1>1, <1>4 DEF Left, SeatOf, RegStatus
  <2>2. Adm!Leave(u)
    BY <2>1 DEF Adm!Leave, Adm!Move
  <2>3. QED
    BY <2>2 DEF Adm!Next
<1>5. CASE LetIn(u)
  <2>1. seat[u] = "held" /\ seat' = [seat EXCEPT ![u] = "in"]
    BY <1>1, <1>5 DEF LetIn, SeatOf, RegStatus
  <2>2. Adm!Admit(u)
    BY <2>1 DEF Adm!Admit, Adm!Move
  <2>3. QED
    BY <2>2 DEF Adm!Next
<1>6. CASE Expired(u)
  BY <1>6 DEF Expired, Adm!vars, SeatOf
<1>7. QED
  BY <1>2, <1>3, <1>4, <1>5, <1>6

(* Every behaviour with the lock-protected operations is a behaviour of    *)
(* Admission: each transaction looks like one atomic step.                  *)
THEOREM LockedOpsImplementAdmission ==
  Ops \subseteq LockedOps => (Spec => ImplementsAdmission)
<1> SUFFICES ASSUME Ops \subseteq LockedOps PROVE Spec => ImplementsAdmission
  OBVIOUS
<1>1. Init => Adm!Init
  BY RegistrationsAssumption DEF Init, Adm!Init, SeatOf, EventRow
<1>2. LockedInv /\ LockedInv' /\ [Next]_vars => [Adm!Next]_(Adm!vars)
  <2> SUFFICES ASSUME LockedInv, LockedInv', [Next]_vars
               PROVE  [Adm!Next]_(Adm!vars)
    OBVIOUS
  <2>1. CASE UNCHANGED <<status, event>>
    BY <2>1 DEF Adm!vars, SeatOf
  <2>2. CASE EventWrite
    <3>1. event'.cap \in Nat
      BY RegistrationsAssumption DEF LockedInv, TypeOK, EventRow
    <3>2. Adm!SetCapacity
      BY <2>2, <3>1 DEF EventWrite, rows, Adm!SetCapacity, SeatOf
    <3>3. QED
      BY <3>2 DEF Adm!Next
  <2>3. ASSUME NEW w \in Workers, Continue(w)
        PROVE  [Adm!Next]_(Adm!vars)
    BY <2>1, <2>3, CommitChanges, ChangeIsAdmissionStep DEF rows
  <2>4. QED
    BY <2>1, <2>2, <2>3 DEF Next, vars, Tick, rows, Start, DeadlockAbort,
       CreateLockEvent, IssueLockReg, AdminLockTicket, ScanRead, CancelRead,
       PatchRead
<1>3. QED
  BY <1>1, <1>2, LockedInvariant, PTL DEF Spec, ImplementsAdmission, Adm!Spec
==============================================================================
