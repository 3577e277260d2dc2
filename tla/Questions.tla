------------------------------- MODULE Questions -------------------------------
(***************************************************************************)
(* The life of ONE question about an event: a person asks it, its author    *)
(* and the event's organizers edit, answer, hide and delete it, and a       *)
(* Celery task asks Dify for an answer that is posted as a reply.           *)
(*                                                                         *)
(* The views that answer, hide and delete read the row and write single     *)
(* columns, in no transaction.  Nothing they read goes into what they write, *)
(* and any number of them may have read the row before it was deleted, so   *)
(* each is one step whose only guard is that the row exists.  An edit saves *)
(* the whole row as it read it: it is cut between the read and the save.     *)
(* The request that asks, and the task, are cut before every statement that *)
(* another process can see.                                                *)
(*                                                                         *)
(* Left out: texts, pins (written as the moderation status is), replies by   *)
(* people, the prompt, moving a question to another event, and feedback,     *)
(* whose views are commented out.                                           *)
(***************************************************************************)
EXTENDS Integers, FiniteSets

CONSTANTS
  People,       \* who may edit: the author of the question, organizers
  Patches,      \* what a question or an edit may send
  Editors,      \* requests that edit
  Deliveries,   \* bound: deliveries of the task's message
  Settings,     \* how Dify may be configured
  Faulty        \* whether broker, database and processes may fail

VARIABLES
  question,   \* the row of the question, NoRow before it is inserted
  edit,       \* edit[e]: what the request e has read and was sent
  asking,     \* how far the request that asks has come
  job,        \* the row of the AI job, NoRow before it is inserted
  enabled,    \* the AI setting of the event exists, lives and is enabled
  task,       \* task[d]: how far the delivery d has come
  aiReplies,  \* replies posted by the AI assistant
  overlapped, \* two tasks were at work at once
  givenUp     \* the request, the message, a worker or the question was lost

board == <<question, edit>>
ai == <<job, task, aiReplies, overlapped>>
vars == <<board, asking, ai, enabled, givenUp>>

NoRow == [none |-> TRUE]
Moderation == {"visible", "hidden", "flagged"}
Texts == {"text", "other text"}
Answers == Texts \cup {"null", "empty"}
Question == [deleted: BOOLEAN, moderation: Moderation, answer: Answers,
             answered_by: People \cup {"nobody"}]
JobStatus == {"pending", "completed", "skipped", "failed"}
Job == [status: JobStatus, error: {"", "enqueue", "dify", "unexpected"},
        reply: BOOLEAN]

QuestionField == {"moderation", "answer"}
ASSUME QuestionsAssumption ==
  /\ "nobody" \notin People
  /\ Patches \subseteq UNION {[D -> Moderation \cup Answers] : D \in SUBSET QuestionField}
  /\ \A p \in Patches:
       /\ "moderation" \in DOMAIN p => p["moderation"] \in Moderation
       /\ "answer" \in DOMAIN p => p["answer"] \in Answers
  /\ Settings \subseteq {"enabled", "disabled", "keyless"}
  /\ Faulty \in BOOLEAN

Idle == [op |-> "none"]
Edit == {Idle} \cup [op: {"edit"}, copy: Question, patch: Patches, by: People]

Init ==
  /\ question = NoRow
  /\ edit = [e \in Editors |-> Idle]
  /\ asking = "no"
  /\ job = NoRow /\ enabled \in BOOLEAN
  /\ task = [d \in Deliveries |-> "unborn"]
  /\ aiReplies = 0 /\ overlapped = FALSE
  /\ givenUp = FALSE
------------------------------------------------------------------------------
(* EventQuestionListCreateView.perform_create.                              *)
Exists == question # NoRow
Alive == Exists /\ ~question.deleted

Field(p, f, default) == IF f \in DOMAIN p THEN p[f] ELSE default

Ask(p) ==
  /\ asking = "no"
  /\ question' = [deleted |-> FALSE, answered_by |-> "nobody",
                  moderation |-> Field(p, "moderation", "visible"),
                  answer |-> Field(p, "answer", "null")]
  /\ asking' = "asked"
  /\ UNCHANGED <<edit, ai, enabled, givenUp>>

MakeJob ==
  /\ asking = "asked"
  /\ job' = [status |-> "pending", error |-> "", reply |-> FALSE]
  /\ asking' = "job made"
  /\ UNCHANGED <<board, task, aiReplies, overlapped, enabled, givenUp>>

Unborn(d) == task[d] = "unborn"
Deliver(d) == task' = [task EXCEPT ![d] = "queued"]

BugReadyToSend == asking \in {"asked", "job made"}        \* before the job's row
ReadyToSend == asking = "job made"

(* The message is sent; or it is not, and the view sees an error; or it is  *)
(* and the view sees one all the same.                                     *)
Enqueue ==
  /\ ReadyToSend
  /\ \/ \E d \in Deliveries: Unborn(d) /\ Deliver(d) /\ asking' = "sent"
     \/ Faulty /\ asking' = "refused" /\ UNCHANGED task
     \/ /\ Faulty /\ asking' = "refused"
        /\ \E d \in Deliveries: Unborn(d) /\ Deliver(d)
  /\ UNCHANGED <<board, job, aiReplies, overlapped, enabled, givenUp>>

(* broker_timestamp is saved, or that fails too and counts as refused.       *)
Stamp ==
  /\ asking = "sent"
  /\ asking' \in (IF Faulty THEN {"done", "refused"} ELSE {"done"})
  /\ UNCHANGED <<board, ai, enabled, givenUp>>

(* The except branch looks at nothing the task may have done meanwhile.      *)
MarkRefused ==
  /\ asking = "refused"
  /\ job' = [job EXCEPT !.status = "failed", !.error = "enqueue"]
  /\ asking' = "done"
  /\ UNCHANGED <<board, task, aiReplies, overlapped, enabled, givenUp>>

AskerDies ==
  /\ Faulty /\ asking \in {"asked", "job made", "sent", "refused"}
  /\ asking' = "done"
  /\ givenUp' = TRUE
  /\ UNCHANGED <<board, ai, enabled>>
------------------------------------------------------------------------------
(* The views of one question.                                               *)
EditRead(e, p, u) ==
  /\ edit[e] = Idle /\ Alive
  /\ edit' = [edit EXCEPT ![e] = [op |-> "edit", copy |-> question,
                                  patch |-> p, by |-> u]]
  /\ UNCHANGED <<question, asking, ai, enabled, givenUp>>

(* EventQuestionSerializer.update.                                          *)
Edited(old, p, u) ==
  LET answer == Field(p, "answer", old.answer)
      emptied == "answer" \in DOMAIN p /\ answer = "empty"
  IN
  [old EXCEPT
     !.moderation = Field(p, "moderation", @),
     !.answer = answer,
     !.answered_by = IF emptied THEN "nobody"
                     ELSE IF answer \in Texts \ {old.answer} THEN u ELSE @]

EditSave(e) ==
  /\ edit[e] # Idle
  /\ question' = Edited(edit[e].copy, edit[e].patch, edit[e].by)
  /\ edit' = [edit EXCEPT ![e] = Idle]
  /\ UNCHANGED <<asking, ai, enabled, givenUp>>

Answer(u) ==
  /\ Exists
  /\ \E t \in Texts: question' = [question EXCEPT !.answer = t, !.answered_by = u]
  /\ UNCHANGED <<edit, asking, ai, enabled, givenUp>>

BugHidden(q) == [q EXCEPT !.moderation = "hidden", !.deleted = FALSE]  \* save() of every column
Hidden(q) == [q EXCEPT !.moderation = "hidden"]
Hide ==
  /\ Exists
  /\ question' = Hidden(question)
  /\ UNCHANGED <<edit, asking, ai, enabled, givenUp>>

Delete ==
  /\ Alive
  /\ question' = [question EXCEPT !.deleted = TRUE]
  /\ UNCHANGED <<edit, asking, ai, enabled, givenUp>>

(* EventAIAssistantView.patch.                                              *)
Toggle ==
  /\ enabled' = ~enabled
  /\ UNCHANGED <<board, asking, ai, givenUp>>
------------------------------------------------------------------------------
(* generate_ai_answer_for_question.                                         *)
Working == {"job read", "calling"}
Ends(d) == task' = [task EXCEPT ![d] = "done"]

BugMayStart == Alive /\ job # NoRow                             \* any status
MayStart == Alive /\ job # NoRow /\ job.status = "pending"

TaskRead(d) ==
  /\ task[d] = "queued" /\ MayStart
  /\ task' = [task EXCEPT ![d] = "job read"]
  /\ overlapped' = (overlapped \/ \E other \in Deliveries: task[other] \in Working)
  /\ UNCHANGED <<board, asking, job, aiReplies, enabled, givenUp>>

TaskReturns(d) ==
  /\ task[d] = "queued" /\ ~MayStart
  /\ Ends(d)
  /\ givenUp' = (givenUp \/ ~Alive)
  /\ UNCHANGED <<board, asking, job, aiReplies, overlapped, enabled>>

Marked(status, error) == [job EXCEPT !.status = status, !.error = error]

(* The event's setting, then call_dify_workflow up to the HTTP request.      *)
TaskSkips(d) ==
  /\ task[d] = "job read"
  /\ ~enabled \/ "disabled" \in Settings
  /\ job' = Marked("skipped", job.error)
  /\ Ends(d)
  /\ UNCHANGED <<board, asking, aiReplies, overlapped, enabled, givenUp>>

TaskKeyless(d) ==
  /\ task[d] = "job read" /\ enabled /\ "keyless" \in Settings
  /\ job' = Marked("failed", "dify")
  /\ Ends(d)
  /\ UNCHANGED <<board, asking, aiReplies, overlapped, enabled, givenUp>>

TaskCalls(d) ==
  /\ task[d] = "job read" /\ enabled /\ "enabled" \in Settings
  /\ task' = [task EXCEPT ![d] = "calling"]
  /\ UNCHANGED <<board, asking, job, aiReplies, overlapped, enabled, givenUp>>

(* _store_response: the reply and the job are one transaction.  A job read   *)
(* as pending never has a reply yet, so that a new one is always made.       *)
Publish(d) ==
  /\ task[d] = "calling"
  /\ aiReplies' = aiReplies + 1
  /\ job' = [status |-> "completed", error |-> "", reply |-> TRUE]
  /\ Ends(d)
  /\ UNCHANGED <<board, asking, overlapped, enabled, givenUp>>

Decline(d) ==
  /\ task[d] = "calling"
  /\ job' = [status |-> "skipped", error |-> "", reply |-> FALSE]
  /\ Ends(d)
  /\ UNCHANGED <<board, asking, aiReplies, overlapped, enabled, givenUp>>

(* A timeout, an HTTP error, an unusable answer (dify), or anything else.    *)
BugKept == {aiReplies, aiReplies + 1}              \* the reply is not rolled back
Kept == {aiReplies}
BugMarkedFailed(error) == IF error = "dify" THEN Marked("failed", error) ELSE job
MarkedFailed(error) == Marked("failed", error)
TaskFails(d) ==
  /\ \/ task[d] = "calling" /\ job' = MarkedFailed("dify")
     \/ task[d] \in Working /\ Faulty /\ job' = MarkedFailed("unexpected")
  /\ aiReplies' \in Kept
  /\ Ends(d)
  /\ UNCHANGED <<board, asking, overlapped, enabled, givenUp>>

(* The message is lost, or the worker dies: nothing sends it again.          *)
TaskDies(d) ==
  /\ Faulty /\ task[d] \in Working \cup {"queued"}
  /\ Ends(d)
  /\ givenUp' = TRUE
  /\ UNCHANGED <<board, asking, job, aiReplies, overlapped, enabled>>

(* Redis gives a message that waits unacknowledged for longer than the      *)
(* visibility timeout to another worker as well.                           *)
Redeliver ==
  /\ Faulty
  /\ \E d, other \in Deliveries:
       /\ task[d] = "queued" /\ Unborn(other)
       /\ Deliver(other)
  /\ UNCHANGED <<board, asking, job, aiReplies, overlapped, enabled, givenUp>>

TaskStep(d) ==
  \/ TaskRead(d) \/ TaskReturns(d)
  \/ TaskSkips(d) \/ TaskKeyless(d) \/ TaskCalls(d)
  \/ Publish(d) \/ Decline(d) \/ TaskFails(d)
AskStep == MakeJob \/ Enqueue \/ Stamp \/ MarkRefused

Next ==
  \/ \E p \in Patches: Ask(p)
  \/ AskStep \/ AskerDies
  \/ \E e \in Editors:
       \/ \E p \in Patches, u \in People: EditRead(e, p, u)
       \/ EditSave(e)
  \/ \E u \in People: Answer(u)
  \/ Hide \/ Delete \/ Toggle
  \/ \E d \in Deliveries: TaskStep(d) \/ TaskDies(d)
  \/ Redeliver

(* gunicorn finishes the request and Celery runs what was sent to it.        *)
Fairness == WF_vars(AskStep) /\ \A d \in Deliveries: WF_vars(TaskStep(d))
Spec == Init /\ [][Next]_vars /\ Fairness
------------------------------------------------------------------------------
(* Rows, requests and deliveries are well formed; a job has a question and    *)
(* what is delivered has a job.                                             *)
TypeOK ==
  /\ question \in Question \cup {NoRow} /\ edit \in [Editors -> Edit]
  /\ asking \in {"no", "asked", "job made", "sent", "refused", "done"}
  /\ enabled \in BOOLEAN /\ overlapped \in BOOLEAN
  /\ job \in Job \cup {NoRow} /\ (job # NoRow => Exists)
  /\ task \in [Deliveries -> Working \cup {"unborn", "queued", "done"}]
  /\ (\E d \in Deliveries: task[d] # "unborn") => job # NoRow
  /\ aiReplies \in 0..Cardinality(Deliveries)
  /\ givenUp \in BOOLEAN

(* What is deleted lives again only with an edit that had read it before, and *)
(* what is hidden is seen again only with such an edit or one that shows it.  *)
UndoneByStaleEdit ==
  [][/\ Exists /\ question.deleted /\ ~question'.deleted =>
          \E e \in Editors: edit[e] # Idle /\ ~edit[e].copy.deleted
     /\ Exists /\ question.moderation = "hidden" /\ question'.moderation = "visible" =>
          \E e \in Editors:
            /\ edit[e] # Idle
            /\ edit[e].copy.moderation = "visible" \/ "moderation" \in DOMAIN edit[e].patch
    ]_vars

(* The assistant replies once, unless two deliveries were at work at once.   *)
OneAiReply == aiReplies > 1 => overlapped

(* A job is completed exactly if the assistant replied, unless the request   *)
(* that asked called it failed afterwards or two deliveries overlapped.      *)
ReplyMeansCompleted ==
  job # NoRow =>
    /\ job.status = "completed" => job.reply /\ aiReplies > 0
    /\ aiReplies > 0 => job.status = "completed" \/ job.error = "enqueue" \/ overlapped

(* JobDecided: a job does not stay pending, unless the request, the message or the       *)
(* worker was lost or the question was deleted: nothing else enqueues it.    *)
Pending == job # NoRow /\ job.status = "pending"
JobDecided == Pending ~> ~Pending \/ givenUp
================================================================================
