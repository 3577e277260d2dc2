---------------------------- MODULE SupportTickets ----------------------------
(***************************************************************************)
(* One support ticket: its user opens it and adds messages, administrators  *)
(* reply, resolve, escalate and update it, and the statistics count it.      *)
(*                                                                         *)
(* The administrators' services lock the ticket and then take the time they   *)
(* write: one step.  The user's message is checked against a ticket read      *)
(* without a lock, and takes its time before an UPDATE that may wait for such *)
(* a lock, over midnight too: it is cut at the check, the time and the COMMIT. *)
(*                                                                         *)
(* Left out: texts, category, and who the assignee is.                      *)
(***************************************************************************)
EXTENDS Integers, FiniteSets

CONSTANTS
  Days,       \* bound: the days of the clock, 1..n
  Posters     \* requests of the user that add a message

VARIABLES
  ticket,     \* the row, NoTicket before it is created
  post,       \* post[p]: how far the request p to add a message is
  today,
  resolvedOn, \* the day of the last change to resolved, 0 without one
  late,       \* the last write is a message that took its time before that day
  answered,   \* staff has written a message
  reopened    \* an update has set the status to open

ticketVars == <<ticket, post, today, resolvedOn, late, answered, reopened>>

TicketStatus == {"open", "in_progress", "resolved", "closed"}
PriorityOrder == <<"low", "medium", "high", "urgent">>
Priority == {PriorityOrder[i] : i \in 1..4}
NoTicket == [status |-> "none"]
NoMessage == [at |-> "idle"]
Message == {NoMessage} \cup [at: {"checked"}] \cup [at: {"writing"}, day: Days]
Ticket == [status: TicketStatus, priority: Priority, assigned: BOOLEAN, updated: Days]

ASSUME SupportTicketsAssumption == Days \subseteq Nat \ {0} /\ 1 \in Days

TicketInit ==
  /\ ticket = NoTicket /\ post = [p \in Posters |-> NoMessage]
  /\ today = 1 /\ resolvedOn = 0 /\ late = FALSE
  /\ answered = FALSE /\ reopened = FALSE
------------------------------------------------------------------------------
TicketExists == ticket # NoTicket

(* Every save of a ticket lists updated_at among its update_fields.          *)
BugStamped(t) == t
Stamped(t) == [t EXCEPT !.updated = today]

Touched(t) ==
  /\ ticket' = Stamped(t)
  /\ resolvedOn' = IF t.status = "resolved" /\ ticket.status # "resolved"
                   THEN today ELSE resolvedOn
  /\ late' = FALSE

NextDay ==
  /\ today + 1 \in Days
  /\ today' = today + 1
  /\ UNCHANGED <<ticket, post, resolvedOn, late, answered, reopened>>

(* UserSupportTicketService.create_ticket and add_message.                  *)
CreateTicket ==
  /\ ~TicketExists
  /\ ticket' = [status |-> "open", priority |-> "medium", assigned |-> FALSE,
                updated |-> today]
  /\ UNCHANGED <<post, today, resolvedOn, late, answered, reopened>>

TakesMessages == ticket.status \notin {"resolved", "closed"}

MessageRead(p) ==
  /\ TicketExists /\ post[p] = NoMessage
  /\ TakesMessages
  /\ post' = [post EXCEPT ![p] = [at |-> "checked"]]
  /\ UNCHANGED <<ticket, today, resolvedOn, late, answered, reopened>>

(* auto_now takes the time, then the UPDATE waits for the row.               *)
MessageStamp(p) ==
  /\ post[p].at = "checked"
  /\ post' = [post EXCEPT ![p] = [at |-> "writing", day |-> today]]
  /\ UNCHANGED <<ticket, today, resolvedOn, late, answered, reopened>>

BugPosted == [ticket EXCEPT !.status = "open"]    \* save() of a row read when open
Posted == ticket

MessageCommit(p) ==
  /\ post[p].at = "writing"
  /\ ticket' = [Posted EXCEPT !.updated = post[p].day]
  /\ late' = (post[p].day < resolvedOn)
  /\ post' = [post EXCEPT ![p] = NoMessage]
  /\ UNCHANGED <<today, resolvedOn, answered, reopened>>

MessageFails(p) ==
  /\ post[p] # NoMessage
  /\ post' = [post EXCEPT ![p] = NoMessage]
  /\ UNCHANGED <<ticket, today, resolvedOn, late, answered, reopened>>
------------------------------------------------------------------------------
(* AdminSupportService.  An update that leaves a field out keeps its value.   *)
UpdateTicket(status, priority, assigned) ==
  /\ TicketExists
  /\ Touched([ticket EXCEPT !.status = status, !.priority = priority,
                          !.assigned = assigned])
  /\ reopened' = (reopened \/ (status = "open" /\ ticket.status # "open"))
  /\ UNCHANGED <<post, today, answered>>

InProgress(status) == IF status = "open" THEN "in_progress" ELSE status

Reply ==
  /\ TicketExists
  /\ Touched([ticket EXCEPT !.status = InProgress(@)])
  /\ answered' = TRUE
  /\ UNCHANGED <<post, today, reopened>>

Resolve(note) ==
  /\ TicketExists
  /\ Touched([ticket EXCEPT !.status = "resolved"])
  /\ answered' = (answered \/ note)
  /\ UNCHANGED <<post, today, reopened>>

Index(priority) == CHOOSE i \in 1..4: PriorityOrder[i] = priority
Escalated(priority) == PriorityOrder[IF Index(priority) = 4 THEN 4 ELSE Index(priority) + 1]
Escalate ==
  /\ TicketExists
  /\ Touched([ticket EXCEPT !.priority = Escalated(@), !.status = InProgress(@)])
  /\ UNCHANGED <<post, today, answered, reopened>>

TicketNext ==
  \/ NextDay \/ CreateTicket
  \/ \E p \in Posters: \/ MessageRead(p) \/ MessageStamp(p)
                      \/ MessageCommit(p) \/ MessageFails(p)
  \/ \E s \in TicketStatus, p \in Priority, a \in BOOLEAN: UpdateTicket(s, p, a)
  \/ Reply
  \/ \E note \in BOOLEAN: Resolve(note)
  \/ Escalate

TicketSpec == TicketInit /\ [][TicketNext]_ticketVars
------------------------------------------------------------------------------
(* A ticket that staff has answered is not open, unless an administrator set  *)
(* it back: no message of the user and no escalation loses that.             *)
AnsweredNotOpen == answered /\ ticket.status = "open" => reopened

(* What get_statistics counts as resolved today.                            *)
CountedToday == TicketExists /\ ticket.status = "resolved" /\ ticket.updated = today

(* A ticket resolved today is counted, whoever else writes it that day, as     *)
(* long as its last write is not a message that took its time on an earlier   *)
(* day and waited for the row over midnight.                                *)
ResolvedTodayCounted ==
  TicketExists /\ ticket.status = "resolved" /\ resolvedOn = today /\ ~late
    => CountedToday
==============================================================================
