------------------------------ MODULE Notices ------------------------------
(***************************************************************************)
(* Who is told what about ONE event: the notifications and e-mails of a     *)
(* registration, of a cancellation, of new times, of a decided organizer    *)
(* request, and the broadcasts of an organizer, whose rate is limited in    *)
(* the cache.                                                              *)
(*                                                                         *)
(* A web worker writes in a transaction, and after COMMIT runs the hooks it *)
(* gave to transaction.on_commit, in order; a hook that raises skips the    *)
(* later ones.  A Celery worker has no transaction: its "hooks" run as it   *)
(* comes to them, and an exception makes Celery retry the task.             *)
(*                                                                         *)
(* Left out: texts and templates, how a push is delivered (PushDelivery),   *)
(* whether a seat is free (Registrations), lost updates of the event's row   *)
(* (Events), check-ins, and people without an address.                      *)
(***************************************************************************)
EXTENDS Integers, Sequences, FiniteSets

CONSTANTS
  People,          \* participants
  Crew,            \* web and Celery workers
  MaxPlan,         \* bound: how often the times or the place change
  AnnounceRetries, \* max_retries of notify_event_updated_task
  Limit,           \* settings.ORGANIZER_NOTIFICATION_RATE_LIMIT, at least 1
  MaxAsked         \* bound: broadcasts that are asked for

ASSUME NoticesAssumption ==
  /\ MaxPlan \in Nat /\ AnnounceRetries \in Nat
  /\ Limit \in Nat \ {0} /\ MaxAsked \in Nat

VARIABLES
  plan,     \* version of the event's times and place
  reg,      \* reg[u]: "none", "in" (registered), "waiting" or "out" (cancelled)
  ticketed, \* people who were given a ticket
  restored, \* restored[u]: the plan at which an administrator gave u his seat
            \* back, and nothing unless that is how he has it
  willing,  \* people whose preferences allow a push now
  decided,  \* people whose organizer request was approved or rejected
  work,     \* work[w]: what the worker w is doing
  queue,    \* tasks the broker holds
  inbox,    \* notifications that are committed, with their recipients
  mailed,   \* mailed[u]: the plans that mails told u
  owed,     \* committed changes whose mail has not been sent, by worker
  excused,  \* people whom a fault kept from a mail
  rate,     \* the cached counter, and what it let through since it was made
  asked     \* broadcasts asked for

seats == <<reg, ticketed, restored>>
told == <<queue, inbox, mailed, owed, excused>>
broadcasts == <<rate, asked>>
noticeVars == <<plan, seats, willing, decided, work, told, broadcasts>>

Statuses == {"in", "waiting", "out"}
Free == [at |-> "free"]
NoWindow == [count |-> 0, sent |-> 0, uncounted |-> 0]  \* the key is absent

NoticeInit ==
  /\ plan = 0
  /\ reg = [u \in People |-> "none"]
  /\ ticketed = {} /\ restored = [u \in People |-> {}]
  /\ willing = People /\ decided = {}
  /\ work = [w \in Crew |-> Free]
  /\ queue = {} /\ inbox = {}
  /\ mailed = [u \in People |-> {}]
  /\ owed = {} /\ excused = {}
  /\ rate = NoWindow /\ asked = 0
------------------------------------------------------------------------------
(* What a hook does: it enqueues a task or it sends a mail, whose failure is  *)
(* caught; the hook of a decided request writes its notification only now.   *)
NoTask == [task |-> "none"]
Notice(about, p, R) == [about |-> about, plan |-> p, to |-> R]
Deliver(n) == [task |-> "deliver", notice |-> n]
Announce(p, n) == [task |-> "announce", plan |-> p, tries |-> n]
Mails(R, p) == [task |-> "mails", to |-> R, plan |-> p]

Enqueue(t) == [do |-> "enqueue", task |-> t]
Mail(u, s, p) == [do |-> "mail", user |-> u, status |-> s, plans |-> p]
Tell(u) == [do |-> "tell", user |-> u]

(* _create_and_dispatch enqueues the delivery if a recipient allows pushes.  *)
PushIf(allowed, n) == IF allowed THEN <<Enqueue(Deliver(n))>> ELSE <<>>

Hooked(hooks, t) ==
  IF hooks = <<>> THEN Free ELSE [at |-> "hooks", hooks |-> hooks, of |-> t]

Running(w, do) == work[w].at = "hooks" /\ Head(work[w].hooks).do = do
NextHook(w) == work' = [work EXCEPT ![w] = Hooked(Tail(@.hooks), @.of)]

(* Whom the failure of a hook keeps from a mail: with the push to one person *)
(* the mail to him is skipped, which comes after it.                        *)
Silenced(h) ==
  IF h.do # "enqueue" THEN {h.user}
  ELSE IF h.task.task = "announce" THEN People
  ELSE IF h.task.task = "mails" THEN h.task.to
  ELSE IF h.task.notice.about \in {"registration", "decision"}
       THEN h.task.notice.to ELSE {}

Reached(R, plans) ==
  [u \in People |-> IF u \in R THEN mailed[u] \cup plans ELSE mailed[u]]

Owed(w, u, s) == [by |-> w, user |-> u, status |-> s]
------------------------------------------------------------------------------
(* Requests.  create_event_registration holds the event's row from before it *)
(* reads the times until COMMIT, and the save of new times waits for it.     *)
BugEventFree == TRUE                    \* registers without SELECT FOR UPDATE
EventFree == \A w \in Crew: work[w].at # "deciding"

Deciding(u, s) == [at |-> "deciding", user |-> u, status |-> s, plan |-> plan]

BugRegister(w, u) ==                    \* the delivery enqueued before COMMIT
  \E s \in {"in", "waiting"}:
    /\ work[w] = Free /\ EventFree
    /\ reg[u] \in {"none", "out"}
    /\ work' = [work EXCEPT ![w] = Deciding(u, s)]
    /\ queue' = queue \cup {Deliver(Notice("registration", 0, {u}))}
    /\ UNCHANGED <<plan, seats, willing, decided, inbox, mailed, owed, excused, broadcasts>>
Register(w, u) ==
  \E s \in {"in", "waiting"}:
    /\ work[w] = Free /\ EventFree
    /\ reg[u] \in {"none", "out"}
    /\ work' = [work EXCEPT ![w] = Deciding(u, s)]
    /\ UNCHANGED <<plan, seats, willing, decided, told, broadcasts>>

BugRegistrationHooks(u, s, p, organizersToo) ==       \* the mail comes last
  PushIf(u \in willing, Notice("registration", 0, {u}))
  \o PushIf(organizersToo, Notice("organizers", 0, {}))
  \o <<Mail(u, s, {p})>>
RegistrationHooks(u, s, p, organizersToo) ==
  PushIf(u \in willing, Notice("registration", 0, {u}))
  \o <<Mail(u, s, {p})>>
  \o PushIf(organizersToo, Notice("organizers", 0, {}))

(* notify_registration_created, inside the transaction, and its COMMIT.      *)
RegisterCommit(w) ==
  \E organizersToo \in BOOLEAN:
    LET c == work[w] IN
    /\ c.at = "deciding"
    /\ reg' = [reg EXCEPT ![c.user] = c.status]
    /\ ticketed' = IF c.status = "in" THEN ticketed \cup {c.user} ELSE ticketed
    /\ restored' = [restored EXCEPT ![c.user] = {}]
    /\ owed' = owed \cup {Owed(w, c.user, c.status)}
    /\ inbox' = inbox \cup {Notice("registration", 0, {c.user}),
                            Notice("organizers", 0, {})}
    /\ work' = [work EXCEPT ![w] = Hooked(
         RegistrationHooks(c.user, c.status, c.plan, organizersToo), NoTask)]
    /\ UNCHANGED <<plan, willing, decided, queue, mailed, excused, broadcasts>>

(* cancel_event_registration: a mail and no notification; the times in the   *)
(* mail are of no registration any more.                                    *)
Cancel(w, u) ==
  /\ work[w] = Free
  /\ reg[u] \in {"in", "waiting"}
  /\ reg' = [reg EXCEPT ![u] = "out"]
  /\ restored' = [restored EXCEPT ![u] = {}]
  /\ owed' = owed \cup {Owed(w, u, "out")}
  /\ work' = [work EXCEPT ![w] = Hooked(<<Mail(u, "out", {})>>, NoTask)]
  /\ UNCHANGED <<plan, ticketed, willing, decided, queue, inbox, mailed, excused,
                 broadcasts>>

(* restore_ticket holds the rows of the ticket, the registration and the      *)
(* event; it gives the seat back and tells nobody.                           *)
Restore(w, u) ==
  /\ work[w] = Free /\ EventFree
  /\ reg[u] = "out" /\ u \in ticketed
  /\ reg' = [reg EXCEPT ![u] = "in"]
  /\ restored' = [restored EXCEPT ![u] = {plan}]
  /\ UNCHANGED <<plan, ticketed, willing, decided, work, told, broadcasts>>

(* update_event, of the times or the place.                                  *)
ChangePlan(w) ==
  /\ work[w] = Free /\ EventFree
  /\ plan < MaxPlan
  /\ plan' = plan + 1
  /\ work' = [work EXCEPT ![w] = Hooked(<<Enqueue(Announce(plan', 0))>>, NoTask)]
  /\ UNCHANGED <<seats, willing, decided, told, broadcasts>>

(* approve_request and reject_request: nothing is notified before COMMIT.    *)
Decide(w, u) ==
  /\ work[w] = Free
  /\ u \notin decided
  /\ decided' = decided \cup {u}
  /\ owed' = owed \cup {Owed(w, u, "decided")}
  /\ work' = [work EXCEPT ![w] = Hooked(<<Tell(u)>>, NoTask)]
  /\ UNCHANGED <<plan, seats, willing, queue, inbox, mailed, excused, broadcasts>>

(* update_for_user; quiet hours begin or end.                                *)
ChangePreferences(u) ==
  /\ willing' = (willing \ {u}) \cup ({u} \ willing)
  /\ UNCHANGED <<plan, seats, decided, work, told, broadcasts>>
------------------------------------------------------------------------------
(* Hooks, and their failures.                                                *)
RunEnqueue(w) ==
  /\ Running(w, "enqueue")
  /\ queue' = queue \cup {Head(work[w].hooks).task}
  /\ NextHook(w)
  /\ UNCHANGED <<plan, seats, willing, decided, inbox, mailed, owed, excused, broadcasts>>

RunMail(w) ==
  LET h == Head(work[w].hooks) IN
  /\ Running(w, "mail")
  /\ mailed' = Reached({h.user}, h.plans)
  /\ owed' = owed \ {Owed(w, h.user, h.status)}
  /\ NextHook(w)
  /\ UNCHANGED <<plan, seats, willing, decided, queue, inbox, excused, broadcasts>>

MailFails(w) ==
  /\ Running(w, "mail")
  /\ excused' = excused \cup {Head(work[w].hooks).user}
  /\ NextHook(w)
  /\ UNCHANGED <<plan, seats, willing, decided, queue, inbox, mailed, owed, broadcasts>>

(* notify_organizer_request_approved and _rejected, after COMMIT.            *)
RunTell(w) ==
  LET u == Head(work[w].hooks).user
      n == Notice("decision", 0, {u}) IN
  /\ Running(w, "tell")
  /\ inbox' = inbox \cup {n}
  /\ work' = [work EXCEPT ![w] =
       Hooked(PushIf(u \in willing, n) \o <<Mail(u, "decided", {})>>, NoTask)]
  /\ UNCHANGED <<plan, seats, willing, decided, queue, mailed, owed, excused, broadcasts>>

(* autoretry_for=(Exception,): the whole task again, or never again.         *)
RetryTask(w) ==
  LET t == work[w].of IN
  IF t.tries < AnnounceRetries
  THEN queue' = queue \cup {Announce(t.plan, t.tries + 1)} /\ UNCHANGED excused
  ELSE excused' = People /\ UNCHANGED queue

(* The broker or the database cannot be reached: the hook raises.            *)
HookRaises(w) ==
  /\ Running(w, "enqueue") \/ Running(w, "tell")
  /\ IF work[w].of # NoTask THEN RetryTask(w)
     ELSE /\ excused' = excused \cup Silenced(Head(work[w].hooks))
          /\ UNCHANGED queue
  /\ work' = [work EXCEPT ![w] = Free]
  /\ UNCHANGED <<plan, seats, willing, decided, inbox, mailed, owed, broadcasts>>

(* A worker dies: an open transaction is rolled back, hooks are forgotten,   *)
(* and a task was acknowledged when it started.                              *)
Dies(w) ==
  LET c == work[w] IN
  /\ c # Free
  /\ excused' = excused \cup
       IF c.at = "announcing" THEN People
       ELSE IF c.at = "hooks"
            THEN UNION {Silenced(c.hooks[i]) : i \in DOMAIN c.hooks} ELSE {}
  /\ work' = [work EXCEPT ![w] = Free]
  /\ UNCHANGED <<plan, seats, willing, decided, queue, inbox, mailed, owed, broadcasts>>
------------------------------------------------------------------------------
(* Tasks.                                                                    *)
Attending == {u \in People: reg[u] = "in"}

StartAnnounce(w, t) ==
  /\ work[w] = Free
  /\ t \in queue /\ t.task = "announce"
  /\ queue' = queue \ {t}
  /\ work' = [work EXCEPT ![w] =
       IF Attending = {} THEN Free
       ELSE [at |-> "announcing", of |-> t, to |-> Attending]]
  /\ UNCHANGED <<plan, seats, willing, decided, inbox, mailed, owed, excused, broadcasts>>

(* notify_event_updated: the rows, then the delivery, then the mails.        *)
AnnounceRows(w) ==
  LET c == work[w]
      n == Notice("times", c.of.plan, c.to) IN
  /\ c.at = "announcing"
  /\ inbox' = inbox \cup {n}
  /\ work' = [work EXCEPT ![w] =
       Hooked(PushIf(c.to \cap willing # {}, n)
              \o <<Enqueue(Mails(c.to, c.of.plan))>>, c.of)]
  /\ UNCHANGED <<plan, seats, willing, decided, queue, mailed, owed, excused, broadcasts>>

AnnounceRaises(w) ==
  /\ work[w].at = "announcing"
  /\ RetryTask(w)
  /\ work' = [work EXCEPT ![w] = Free]
  /\ UNCHANGED <<plan, seats, willing, decided, inbox, mailed, owed, broadcasts>>

(* send_event_updated_emails_task: the mails tell the times of the change    *)
(* that was announced; those that fail are passed over in silence.           *)
SendMails(t, R) ==
  /\ t \in queue /\ t.task = "mails" /\ R \subseteq t.to
  /\ queue' = queue \ {t}
  /\ mailed' = Reached(R, {t.plan})
  /\ excused' = excused \cup (t.to \ R)
  /\ UNCHANGED <<plan, seats, willing, decided, work, inbox, owed, broadcasts>>

(* deliver_notification, which is PushDelivery's.                            *)
RunDelivery(t) ==
  /\ t \in queue /\ t.task = "deliver"
  /\ queue' = queue \ {t}
  /\ UNCHANGED <<plan, seats, willing, decided, work, inbox, mailed, owed, excused, broadcasts>>
------------------------------------------------------------------------------
(* send_organizer_broadcast.  The counter is read, added or incremented in   *)
(* three calls of the cache, and its key may expire between any two.         *)
Ask(w) ==
  /\ work[w] = Free /\ asked < MaxAsked
  /\ asked' = asked + 1
  /\ work' = [work EXCEPT ![w] =
       IF rate.count >= Limit THEN Free ELSE [at |-> "passed"]]
  /\ UNCHANGED <<plan, seats, willing, decided, told, rate>>

FirstOfWindow == [count |-> 1, sent |-> 1, uncounted |-> 0]
Goto(w, at) == work' = [work EXCEPT ![w] = [at |-> at]]

AddKey(w) ==
  /\ work[w].at = "passed"
  /\ IF rate = NoWindow THEN rate' = FirstOfWindow /\ Goto(w, "accepted")
     ELSE UNCHANGED rate /\ Goto(w, "counting")
  /\ UNCHANGED <<plan, seats, willing, decided, told, asked>>

BugWithinLimit(n) == n <= Limit + 1            \* one more than the limit
WithinLimit(n) == n <= Limit

IncrKey(w) ==
  /\ work[w].at = "counting"
  /\ \/ rate = NoWindow /\ UNCHANGED rate /\ Goto(w, "expired")
     \/ /\ rate # NoWindow /\ WithinLimit(rate.count + 1)
        /\ rate' = [rate EXCEPT !.count = @ + 1, !.sent = @ + 1]
        /\ Goto(w, "accepted")
     \/ /\ rate # NoWindow /\ ~WithinLimit(rate.count + 1)
        /\ rate' = [rate EXCEPT !.count = @ + 1]
        /\ Goto(w, "free")
  /\ UNCHANGED <<plan, seats, willing, decided, told, asked>>

(* The second add may lose to another request's: let through, not counted.   *)
AddAgain(w) ==
  /\ work[w].at = "expired"
  /\ rate' = IF rate = NoWindow THEN FirstOfWindow
             ELSE [rate EXCEPT !.sent = @ + 1, !.uncounted = @ + 1]
  /\ Goto(w, "accepted")
  /\ UNCHANGED <<plan, seats, willing, decided, told, asked>>

Expire ==
  /\ rate # NoWindow
  /\ rate' = NoWindow
  /\ UNCHANGED <<plan, seats, willing, decided, work, told, asked>>

Audiences == {{"in"}, {"waiting"}, {"in", "waiting"}}

Broadcast(w, audience, sendPush) ==
  LET to == {u \in People: reg[u] \in audience}
      n == Notice("broadcast", 0, to) IN
  /\ work[w].at = "accepted"
  /\ IF to = {} THEN Goto(w, "free") /\ UNCHANGED inbox
     ELSE /\ inbox' = inbox \cup {n}
          /\ work' = [work EXCEPT ![w] =
               Hooked(PushIf(sendPush /\ to \cap willing # {}, n), NoTask)]
  /\ UNCHANGED <<plan, seats, willing, decided, queue, mailed, owed, excused, broadcasts>>
------------------------------------------------------------------------------
Requested ==
  \E w \in Crew:
    \/ RegisterCommit(w) \/ ChangePlan(w)
    \/ \E u \in People: \/ Register(w, u) \/ Cancel(w, u)
                        \/ Restore(w, u) \/ Decide(w, u)

HookStep ==
  \E w \in Crew: \/ RunEnqueue(w) \/ RunMail(w) \/ RunTell(w)
                 \/ MailFails(w) \/ HookRaises(w) \/ Dies(w)

TaskStep ==
  \/ \E w \in Crew: AnnounceRows(w) \/ AnnounceRaises(w)
  \/ \E t \in queue: \/ RunDelivery(t)
                     \/ \E w \in Crew: StartAnnounce(w, t)
                     \/ \E R \in SUBSET People: SendMails(t, R)

BroadcastStep ==
  \/ Expire
  \/ \E w \in Crew: \/ Ask(w) \/ AddKey(w) \/ IncrKey(w) \/ AddAgain(w)
                    \/ \E a \in Audiences, p \in BOOLEAN: Broadcast(w, a, p)

NoticeNext ==
  \/ Requested \/ HookStep \/ TaskStep \/ BroadcastStep
  \/ \E u \in People: ChangePreferences(u)

NoticeSpec == NoticeInit /\ [][NoticeNext]_noticeVars
------------------------------------------------------------------------------
(* Workers, tasks and rows are well formed, and plans are not made up.       *)
Plans == 0..MaxPlan
Notification ==
  [about: {"registration", "organizers", "decision", "times", "broadcast"},
   plan: Plans, to: SUBSET People]
Task ==
  [task: {"deliver"}, notice: Notification]
  \cup [task: {"announce"}, plan: Plans, tries: 0..AnnounceRetries]
  \cup [task: {"mails"}, to: SUBSET People, plan: Plans]
Hook ==
  [do: {"enqueue"}, task: Task] \cup [do: {"tell"}, user: People]
  \cup [do: {"mail"}, user: People, status: Statuses \cup {"decided"},
        plans: SUBSET Plans]
Work ==
  [at: {"free", "passed", "counting", "expired", "accepted"}]
  \cup [at: {"deciding"}, user: People, status: {"in", "waiting"}, plan: Plans]
  \cup [at: {"hooks"}, hooks: Seq(Hook), of: Task \cup {NoTask}]
  \cup [at: {"announcing"}, of: Task, to: SUBSET People]

NoticeTypeOK ==
  /\ plan \in Plans /\ reg \in [People -> Statuses \cup {"none"}]
  /\ willing \subseteq People /\ decided \subseteq People /\ excused \subseteq People
  /\ work \in [Crew -> Work]
  /\ queue \subseteq Task /\ inbox \subseteq Notification
  /\ ticketed \subseteq People /\ restored \in [People -> SUBSET Plans]
  /\ mailed \in [People -> SUBSET Plans]
  /\ owed \subseteq [by: Crew, user: People, status: Statuses \cup {"decided"}]
  /\ rate \in [count: Nat, sent: Nat, uncounted: Nat] /\ asked \in 0..MaxAsked

Settled == queue = {} /\ \A w \in Crew: work[w] = Free

(* When nothing is under way, whoever is registered has had a mail with the  *)
(* event's present times, whether he registered before or during the change, *)
(* unless a failure of the broker, of a worker or of the mail kept it back,   *)
(* or an administrator gave him his seat back at these very times: that is    *)
(* not mailed, but what changes after it is.                                *)
TimesMailed ==
  Settled => \A u \in People \ excused:
               reg[u] = "in" => plan \in mailed[u] \cup restored[u]

(* Every registration, every cancellation and every decision of a request is  *)
(* mailed to its person; a push that fails for others keeps none back.        *)
StatusMailed == Settled => \A x \in owed: x.user \in excused

(* A delivery that a worker may start finds its notification and recipients: *)
(* it is enqueued when they are committed.                                   *)
DeliveryFindsRows ==
  \A t \in queue: t.task = "deliver" => t.notice \in inbox

(* An organizer's broadcasts stay within the limit of the window, whatever   *)
(* requests overlap, but for those that found the key gone between two calls *)
(* and lost the race to make it again.                                       *)
BroadcastsLimited == rate.sent <= Limit + rate.uncounted
==============================================================================
