---------------------------- MODULE PushDelivery ----------------------------
(***************************************************************************)
(* The life of ONE notification: its publication by an administrator, by    *)
(* the scheduler or by the system, and its delivery to the devices of its   *)
(* recipients by a Celery task that asks Firebase Cloud Messaging (FCM) and  *)
(* is retried.  Users read their inbox and register devices meanwhile.      *)
(*                                                                         *)
(* Publication, inbox and device calls are transactions that lock the row   *)
(* they test, so each is one action.  The delivery task takes no lock and   *)
(* no transaction around its reads: it is cut before every statement.       *)
(*                                                                         *)
(* Left out: texts, templates, e-mails, payloads, opened_at, statistics.   *)
(***************************************************************************)
EXTENDS Integers, FiniteSets

CONSTANTS
  Users,
  Tokens,      \* FCM tokens of devices
  Tasks,       \* bound: delivery tasks that may be enqueued
  BatchSize,   \* settings.FCM_BATCH_SIZE, at most 500
  MaxRetries,  \* settings.FCM_MAX_RETRIES
  Outcomes,    \* what FCM may answer for a token
  Faulty       \* whether broker, database, FCM and workers may fail

ASSUME PushAssumption ==
  /\ BatchSize \in Nat \ {0} /\ MaxRetries \in Nat
  /\ Tasks # {}
  /\ Outcomes \subseteq {"success", "retryable", "invalid", "failed"}
  /\ Faulty \in BOOLEAN

VARIABLES
  notice,     \* status of the notification
  recipient,  \* recipient[u]: delivery_status of u's row, "none" without one
  session,    \* pairs of a user and the token of a live session of his
  commits,    \* committed publications whose on_commit hook has not run
  task,       \* task[k]: the delivery task k
  accepted,   \* accepted[u][t]: pushes for u that FCM accepted for token t
  reached,    \* pairs of a user and a token that accepted a push of their send
  muted,      \* recipients created as sent, without a push
  hasRead     \* recipients whose row has a read_at

task_vars == <<task, accepted, reached>>
inbox == <<muted, hasRead>>
vars == <<notice, recipient, session, commits, task_vars, inbox>>

Unborn == [at |-> "unborn", tries |-> 0]
Task ==
  [at: {"unborn", "waiting", "done"}, tries: 0..MaxRetries]
  \cup [at: {"read", "marked"}, tries: 0..MaxRetries, batch: SUBSET Users,
        pairs: SUBSET (Users \X Tokens)]
  \cup [at: {"sent"}, tries: 0..MaxRetries, batch: SUBSET Users,
        pairs: SUBSET (Users \X Tokens), outcome: [Tokens -> Outcomes]]

Init ==
  /\ notice = "none"
  /\ recipient = [u \in Users |-> "none"]
  /\ session = {}
  /\ commits = 0
  /\ task = [k \in Tasks |-> Unborn]
  /\ accepted = [u \in Users |-> [t \in Tokens |-> 0]]
  /\ reached = {} /\ muted = {} /\ hasRead = {}
------------------------------------------------------------------------------
(* Publication.  bulk_create(ignore_conflicts) leaves existing rows alone.  *)
Recipients(R, quiet) ==
  [u \in Users |-> IF recipient[u] # "none" \/ u \notin R THEN recipient[u]
                   ELSE IF u \in quiet THEN "sent" ELSE "queued"]

Editable == notice \in {"draft", "scheduled"}

Create(s) ==
  /\ notice = "none" /\ s \in {"draft", "scheduled"}
  /\ notice' = s
  /\ UNCHANGED <<recipient, session, commits, task_vars, inbox>>

Update(s) ==
  /\ Editable /\ s \in {"draft", "scheduled"}
  /\ notice' = s
  /\ UNCHANGED <<recipient, session, commits, task_vars, inbox>>

Delete ==
  /\ Editable
  /\ notice' = "deleted"
  /\ UNCHANGED <<recipient, session, commits, task_vars, inbox>>

(* publish_notification and publish_due_scheduled_notifications: R are the  *)
(* active users of the audience.                                            *)
BugPublishable == notice \notin {"none", "deleted"}  \* published twice
Publishable == notice \in {"draft", "scheduled"}

Publish(R) ==
  /\ Publishable
  /\ notice' = "sent"
  /\ recipient' = Recipients(R, {})
  /\ commits' = commits + 1
  /\ UNCHANGED <<session, task_vars, inbox>>

(* _create_and_dispatch: born as sent; users whose preferences forbid the   *)
(* push get a row that is sent already.                                     *)
Dispatch(R, quiet) ==
  /\ notice = "none" /\ quiet \subseteq R
  /\ notice' = "sent"
  /\ recipient' = Recipients(R, quiet)
  /\ commits' = IF R = quiet THEN commits ELSE commits + 1
  /\ muted' = quiet
  /\ UNCHANGED <<session, task_vars, hasRead>>

(* _enqueue_delivery, after the commit; the broker may be unreachable and   *)
(* the process may die in between.                                          *)
Enqueue(k) ==
  /\ commits > 0 /\ task[k] = Unborn
  /\ commits' = commits - 1
  /\ task' = [task EXCEPT ![k].at = "waiting"]
  /\ UNCHANGED <<notice, recipient, session, accepted, reached, inbox>>

EnqueueLost ==
  /\ Faulty /\ commits > 0
  /\ commits' = commits - 1
  /\ UNCHANGED <<notice, recipient, session, task_vars, inbox>>
------------------------------------------------------------------------------
(* The delivery task.                                                       *)
BugQueued == {u \in Users: recipient[u] \in {"queued", "failed"}}  \* failed ones again
Queued == {u \in Users: recipient[u] = "queued"}

End(k) == [at |-> "done", tries |-> task[k].tries]
BugRetry(k) ==                                   \* one retry too many
  IF task[k].tries <= MaxRetries
  THEN [at |-> "waiting", tries |-> task[k].tries + 1]
  ELSE End(k)
Retry(k) ==
  IF task[k].tries < MaxRetries
  THEN [at |-> "waiting", tries |-> task[k].tries + 1]
  ELSE End(k)

(* At most BatchSize queued recipients and the live tokens of each.         *)
ReadBatch(k) ==
  \E batch \in SUBSET Queued:
    /\ task[k].at = "waiting"
    /\ Cardinality(batch) =
         IF Cardinality(Queued) < BatchSize THEN Cardinality(Queued) ELSE BatchSize
    /\ task' = [task EXCEPT ![k] =
         IF batch = {} THEN End(k)
         ELSE [at |-> "read", tries |-> task[k].tries, batch |-> batch,
               pairs |-> {p \in session: p[1] \in batch}]]
    /\ UNCHANGED <<notice, recipient, session, commits, accepted, reached, inbox>>

Addressed(k) == {p[1] : p \in task[k].pairs}

MarkTokenless(k) ==
  /\ task[k].at = "read"
  /\ recipient' = [u \in Users |->
       IF u \in task[k].batch \ Addressed(k) THEN "failed" ELSE recipient[u]]
  /\ task' = [task EXCEPT ![k].at = "marked"]
  /\ UNCHANGED <<notice, session, commits, accepted, reached, inbox>>

(* send_each, one message per pair: FCM accepts it, may be asked again,      *)
(* rejects its token, or fails; every message succeeds where FCM is disabled.*)
Answers(k) == [task[k].pairs -> Outcomes]

(* The recipients are ordered by created_at, which bulk_create may give to   *)
(* several: any order.                                                      *)
Orders == {o \in [Users -> 1..Cardinality(Users)] :
             \A u, v \in Users: o[u] = o[v] => u = v}

(* result_by_token keeps the answer to the last message of each token.       *)
ByToken(k, answer, order) ==
  {o \in [Tokens -> Outcomes] :
     \A t \in Tokens:
       LET asked == {p \in task[k].pairs : p[2] = t} IN
       IF asked = {} THEN o[t] = CHOOSE x \in Outcomes: TRUE
       ELSE \E p \in asked: /\ o[t] = answer[p]
                            /\ \A q \in asked: order[q[1]] <= order[p[1]]}

Send(k) ==
  /\ task[k].at = "marked"
  /\ \E answer \in Answers(k), order \in Orders:
       /\ \E o \in ByToken(k, answer, order):
            task' = [task EXCEPT ![k] =
              [at |-> "sent", tries |-> task[k].tries, batch |-> task[k].batch,
               pairs |-> task[k].pairs, outcome |-> o]]
       /\ accepted' = [u \in Users |-> [t \in Tokens |->
            IF <<u, t>> \in task[k].pairs /\ answer[<<u, t>>] = "success"
            THEN accepted[u][t] + 1 ELSE accepted[u][t]]]
       /\ reached' = reached \cup
            {p \in task[k].pairs :
               \E q \in task[k].pairs: q[2] = p[2] /\ answer[q] = "success"}
  /\ UNCHANGED <<notice, recipient, session, commits, inbox>>

With(k, outcomes) ==
  {p[1] : p \in {q \in task[k].pairs: task[k].outcome[q[2]] \in outcomes}}
BugSentIds(k) == With(k, {"success", "invalid"})  \* any answer counts
SentIds(k) == With(k, {"success"})
RetryIds(k) == With(k, {"retryable"}) \ SentIds(k)
FailedIds(k) == With(k, {"invalid", "failed"}) \ (SentIds(k) \cup RetryIds(k))
InvalidTokens(k) ==
  {p[2] : p \in {q \in task[k].pairs: task[k].outcome[q[2]] = "invalid"}}

(* _persist_delivery_results, by id and whatever the rows are by now; then  *)
(* RetryableFcmDeliveryError, if any, makes Celery retry the task.          *)
Persist(k) ==
  /\ task[k].at = "sent"
  /\ recipient' = [u \in Users |-> IF u \in SentIds(k) THEN "sent"
                                   ELSE IF u \in FailedIds(k) THEN "failed"
                                   ELSE recipient[u]]
  /\ session' = {p \in session: p[2] \notin InvalidTokens(k)}
  /\ task' = [task EXCEPT ![k] = IF RetryIds(k) # {} THEN Retry(k) ELSE End(k)]
  /\ UNCHANGED <<notice, commits, accepted, reached, inbox>>

(* autoretry_for=(Exception,): a failing query or FCM call.                 *)
Running(k) == task[k].at \in {"waiting", "read", "marked", "sent"}

Raise(k) ==
  /\ Faulty /\ Running(k)
  /\ task' = [task EXCEPT ![k] = Retry(k)]
  /\ UNCHANGED <<notice, recipient, session, commits, accepted, reached, inbox>>

(* The worker dies or hits CELERY_TASK_TIME_LIMIT: the message was          *)
(* acknowledged when the task started and is not delivered again.           *)
Kill(k) ==
  /\ Faulty /\ Running(k) /\ task[k].at # "waiting"
  /\ task' = [task EXCEPT ![k] = End(k)]
  /\ UNCHANGED <<notice, recipient, session, commits, accepted, reached, inbox>>
------------------------------------------------------------------------------
(* Users.  mark_read and mark_opened write the status once per row.         *)
MarkRead(u) ==
  /\ recipient[u] # "none" /\ u \notin hasRead
  /\ recipient' = [recipient EXCEPT ![u] = "read"]
  /\ hasRead' = hasRead \cup {u}
  /\ UNCHANGED <<notice, session, commits, task_vars, muted>>

(* register_device takes the token from other users.                        *)
Register(u, t) ==
  /\ session' = {p \in session: p[2] # t} \cup {<<u, t>>}
  /\ UNCHANGED <<notice, recipient, commits, task_vars, inbox>>

(* Two registrations of one token at once: neither sees the other's row.    *)
RegisterTogether(u, v, t) ==
  /\ u # v
  /\ session' = {p \in session: p[2] # t} \cup {<<u, t>>, <<v, t>>}
  /\ UNCHANGED <<notice, recipient, commits, task_vars, inbox>>

Unregister(u, t) ==
  /\ session' = session \ {<<u, t>>}
  /\ UNCHANGED <<notice, recipient, commits, task_vars, inbox>>
------------------------------------------------------------------------------
TaskStep(k) == Enqueue(k) \/ ReadBatch(k) \/ MarkTokenless(k) \/ Send(k) \/ Persist(k)

Next ==
  \/ \E s \in {"draft", "scheduled"}: Create(s) \/ Update(s)
  \/ Delete
  \/ \E R \in SUBSET Users: \/ Publish(R)
                            \/ \E quiet \in SUBSET R: Dispatch(R, quiet)
  \/ EnqueueLost
  \/ \E k \in Tasks: TaskStep(k) \/ Raise(k) \/ Kill(k)
  \/ \E u \in Users: \/ MarkRead(u)
                     \/ \E t \in Tokens: Register(u, t) \/ Unregister(u, t)
                     \/ \E v \in Users, t \in Tokens: RegisterTogether(u, v, t)

Spec == Init /\ [][Next]_vars

(* A worker takes the waiting tasks and runs them to their end.             *)
FairSpec == Spec /\ \A k \in Tasks: WF_vars(TaskStep(k))
------------------------------------------------------------------------------
(* A task's record is of its kind, and rows exist once published only.      *)
TypeOK ==
  /\ notice \in {"none", "draft", "scheduled", "sent", "deleted"}
  /\ recipient \in [Users -> {"none", "queued", "sent", "failed", "read"}]
  /\ session \subseteq Users \X Tokens
  /\ commits \in Nat
  /\ task \in [Tasks -> Task]
  /\ accepted \in [Users -> [Tokens -> Nat]]
  /\ reached \subseteq Users \X Tokens
  /\ muted \subseteq Users /\ hasRead \subseteq Users

(* A device gets at most one accepted push for each attempt of one task:    *)
(* the notification is published, and its delivery enqueued, once.          *)
PushedByOneTask ==
  \A u \in Users, t \in Tokens: \E k \in Tasks: accepted[u][t] <= task[k].tries + 1

(* delivery_status "sent" is true: a device the recipient was pushed to       *)
(* accepted the notification in that send, unless his preferences asked for   *)
(* no push.  Where two users have one token, the push may be the other's.     *)
SentMeansAccepted ==
  \A u \in Users: recipient[u] = "sent" /\ u \notin muted
                     => \E t \in Tokens: <<u, t>> \in reached

(* What became of a recipient's push is decided once: "sent" and "failed"   *)
(* change to nothing but "read", whatever is retried or published again.    *)
OutcomeFinal ==
  [][\A u \in Users: recipient[u] \in {"sent", "failed"}
       => recipient'[u] \in {recipient[u], "read"}]_vars

(* Who has read the notification stays counted as a reader.                 *)
ReadKept ==
  [][\A u \in Users: recipient[u] = "read" => recipient'[u] = "read"]_vars

(* "queued -> sent ... failed": nobody stays queued for ever.               *)
LeavesQueue == \A u \in Users: recipient[u] = "queued" ~> recipient[u] # "queued"
==============================================================================
