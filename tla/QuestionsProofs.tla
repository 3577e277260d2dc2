--------------------------- MODULE QuestionsProofs ---------------------------
(***************************************************************************)
(* Theorems about Questions, for any number of editors and deliveries.       *)
(*                                                                         *)
(* A job is read as pending at most once by tasks that do not overlap: while *)
(* one is at work the assistant has not replied, and when it ends the job    *)
(* is not pending any more.  Everything about the replies follows from that. *)
(***************************************************************************)
EXTENDS Questions, TLAPS

TaskStates == Working \cup {"unborn", "queued", "done"}

RowsOK ==
  /\ question \in Question \cup {NoRow} /\ edit \in [Editors -> Edit]
  /\ asking = "no" => question = NoRow /\ \A e \in Editors: edit[e] = Idle

(* Before the job is made nothing is delivered.                             *)
JobOK ==
  /\ job \in Job \cup {NoRow} /\ overlapped \in BOOLEAN /\ aiReplies \in Nat
  /\ task \in [Deliveries -> TaskStates]
  /\ asking \in {"no", "asked"} => job = NoRow
  /\ asking \in {"job made", "sent", "refused"} => job # NoRow
  /\ job = NoRow => aiReplies = 0 /\ \A d \in Deliveries: task[d] \notin Working

AtWorkAlone ==
  \A d, e \in Deliveries: task[d] \in Working /\ task[e] \in Working => d = e \/ overlapped

NotYetReplied ==
  overlapped \/ /\ aiReplies <= 1
                /\ job # NoRow /\ job.status = "pending" => aiReplies = 0
                /\ (\E d \in Deliveries: task[d] \in Working) => aiReplies = 0

QInv == RowsOK /\ JobOK /\ AtWorkAlone /\ NotYetReplied /\ ReplyMeansCompleted
------------------------------------------------------------------------------
LEMMA NoRowIsNone == NoRow \notin Question /\ NoRow \notin Job
BY DEF NoRow, Question, Job

(* An edit writes the row as it was read, but for what it was sent.          *)
LEMMA EditedRow ==
  ASSUME NEW old \in Question, NEW p \in Patches, NEW u \in People
  PROVE  /\ Edited(old, p, u) \in Question
         /\ Edited(old, p, u).deleted = old.deleted
         /\ Edited(old, p, u).moderation =
              IF "moderation" \in DOMAIN p THEN p["moderation"] ELSE old.moderation
<1> DEFINE m == Field(p, "moderation", old.moderation)
           a == Field(p, "answer", old.answer)
           emptied == "answer" \in DOMAIN p /\ a = "empty"
           b == IF emptied THEN "nobody"
                ELSE IF a \in Texts \ {old.answer} THEN u ELSE old.answered_by
<1>1. /\ old.deleted \in BOOLEAN /\ old.moderation \in Moderation
      /\ old.answer \in Answers /\ old.answered_by \in People \cup {"nobody"}
  BY DEF Question
<1>2. m \in Moderation /\ a \in Answers
  BY <1>1, QuestionsAssumption DEF Field, QuestionsAssumption
<1>3. b \in People \cup {"nobody"} BY <1>1
<1>4. Edited(old, p, u) = [old EXCEPT !.moderation = m, !.answer = a, !.answered_by = b]
  BY DEF Edited, Field
<1>5. Edited(old, p, u) = [deleted |-> old.deleted, moderation |-> m, answer |-> a,
                           answered_by |-> b]
  <2> HIDE DEF m, a, b
  <2> QED BY <1>4 DEF Question
<1>6. m = IF "moderation" \in DOMAIN p THEN p["moderation"] ELSE old.moderation
  BY DEF Field
<1> HIDE DEF m, a, b
<1> QED BY <1>1, <1>2, <1>3, <1>5, <1>6 DEF Question

LEMMA EditForms ==
  ASSUME NEW x \in Edit, x # Idle
  PROVE  x.copy \in Question /\ x.patch \in Patches /\ x.by \in People
BY DEF Edit, Idle

(* Which steps write the question, and how.                                  *)
LEMMA QuestionWritten ==
  ASSUME RowsOK, [Next]_vars, Exists
  PROVE  \/ question' = question
         \/ \E e \in Editors:
              edit[e] # Idle /\ question' = Edited(edit[e].copy, edit[e].patch, edit[e].by)
         \/ \E u \in People, t \in Texts:
              question' = [question EXCEPT !.answer = t, !.answered_by = u]
         \/ question' = Hidden(question)
         \/ question' = [question EXCEPT !.deleted = TRUE]
<1>1. asking # "no" BY DEF RowsOK, Exists
<1> QED
  BY <1>1
  DEF Next, vars, board, Ask, AskStep, MakeJob, Enqueue, Stamp, MarkRefused, AskerDies,
      EditRead, EditSave, Answer, Hide, Delete, Toggle, TaskStep, TaskRead, TaskReturns,
      TaskSkips, TaskKeyless, TaskCalls, Publish, Decline, TaskFails, TaskDies, Redeliver

LEMMA RowsKept ==
  ASSUME RowsOK, [Next]_vars
  PROVE  RowsOK'
<1>1. question' \in Question \cup {NoRow}
  <2>1. CASE Exists
    <3>1. question \in Question BY <2>1 DEF RowsOK, Exists
    <3>2. ASSUME NEW e \in Editors, edit[e] # Idle,
                 question' = Edited(edit[e].copy, edit[e].patch, edit[e].by)
          PROVE  question' \in Question
      BY <3>2, EditForms, EditedRow DEF RowsOK
    <3>3. ASSUME NEW u \in People, NEW t \in Texts,
                 question' = [question EXCEPT !.answer = t, !.answered_by = u]
          PROVE  question' \in Question
      BY <3>1, <3>3 DEF Question, Answers
    <3>4. Hidden(question) \in Question BY <3>1 DEF Hidden, Question, Moderation
    <3>5. [question EXCEPT !.deleted = TRUE] \in Question BY <3>1 DEF Question
    <3> QED BY <2>1, <3>1, <3>2, <3>3, <3>4, <3>5, QuestionWritten
  <2>2. CASE ~Exists
    <3>1. question = NoRow BY <2>2 DEF Exists
    <3>2. CASE \E p \in Patches: Ask(p)
      <4>1. PICK p \in Patches:
              question' = [deleted |-> FALSE, answered_by |-> "nobody",
                           moderation |-> Field(p, "moderation", "visible"),
                           answer |-> Field(p, "answer", "null")]
        BY <3>2 DEF Ask
      <4>2. /\ Field(p, "moderation", "visible") \in Moderation
            /\ Field(p, "answer", "null") \in Answers
        BY QuestionsAssumption DEF QuestionsAssumption, Field, Moderation, Answers
      <4> QED BY <4>1, <4>2 DEF Question
    <3>3. CASE \E e \in Editors: EditSave(e)
      <4>1. PICK e \in Editors: edit[e] # Idle
               /\ question' = Edited(edit[e].copy, edit[e].patch, edit[e].by)
        BY <3>3 DEF EditSave
      <4> QED BY <4>1, EditForms, EditedRow DEF RowsOK
    <3>4. CASE UNCHANGED question BY <3>1, <3>4
    <3> QED
      BY <2>2, <3>2, <3>3, <3>4
      DEF Next, vars, board, Alive, AskStep, MakeJob, Enqueue, Stamp, MarkRefused, AskerDies,
          EditRead, Answer, Hide, Delete, Toggle, TaskStep, TaskRead, TaskReturns,
          TaskSkips, TaskKeyless, TaskCalls, Publish, Decline, TaskFails, TaskDies, Redeliver
  <2> QED BY <2>1, <2>2
<1>2. edit' \in [Editors -> Edit]
  <2>1. edit \in [Editors -> Edit] BY DEF RowsOK
  <2>2. ASSUME NEW e \in Editors, NEW p \in Patches, NEW u \in People, EditRead(e, p, u)
        PROVE  edit' \in [Editors -> Edit]
    <3> DEFINE x == [op |-> "edit", copy |-> question, patch |-> p, by |-> u]
    <3>1. edit' = [edit EXCEPT ![e] = x] /\ question # NoRow
      BY <2>2 DEF EditRead, Alive, Exists
    <3>2. x \in Edit BY <3>1 DEF RowsOK, Edit
    <3> HIDE DEF x
    <3> QED BY <2>1, <3>1, <3>2
  <2>3. ASSUME NEW e \in Editors, EditSave(e)
        PROVE  edit' \in [Editors -> Edit]
    BY <2>1, <2>3 DEF EditSave, Edit
  <2>4. CASE UNCHANGED edit BY <2>1, <2>4
  <2> QED
    BY <2>2, <2>3, <2>4
    DEF Next, vars, board, Ask, AskStep, MakeJob, Enqueue, Stamp, MarkRefused, AskerDies,
        Answer, Hide, Delete, Toggle, TaskStep, TaskRead, TaskReturns,
        TaskSkips, TaskKeyless, TaskCalls, Publish, Decline, TaskFails, TaskDies, Redeliver
<1>3. asking' = "no" => question' = NoRow /\ \A e \in Editors: edit'[e] = Idle
  <2>1. CASE asking # "no"
    <3>1. asking' # "no"
      BY <2>1
      DEF Next, vars, board, Ask, AskStep, MakeJob, Enqueue, Stamp, MarkRefused, AskerDies,
          EditRead, EditSave, Answer, Hide, Delete, Toggle, TaskStep, TaskRead, TaskReturns,
          TaskSkips, TaskKeyless, TaskCalls, Publish, Decline, TaskFails, TaskDies, Redeliver
    <3> QED BY <3>1
  <2>2. CASE asking = "no"
    <3>1. question = NoRow /\ \A e \in Editors: edit[e] = Idle
      BY <2>2 DEF RowsOK
    <3>2. asking' # "no" \/ UNCHANGED <<question, edit>>
      BY <2>2, <3>1
      DEF Next, vars, board, Alive, Exists, Ask, AskStep, MakeJob, Enqueue, Stamp,
          MarkRefused, AskerDies, EditRead, EditSave, Answer, Hide, Delete, Toggle,
          TaskStep, TaskRead, TaskReturns, TaskSkips, TaskKeyless, TaskCalls, Publish,
          Decline, TaskFails, TaskDies, Redeliver
    <3> QED BY <3>1, <3>2
  <2> QED BY <2>1, <2>2
<1> QED BY <1>1, <1>2, <1>3 DEF RowsOK
------------------------------------------------------------------------------
(* The job and its tasks.  What a step does to the task of one delivery.     *)
LEMMA OneTask ==
  ASSUME JobOK, NEW d \in Deliveries, NEW s \in TaskStates, task' = [task EXCEPT ![d] = s]
  PROVE  /\ task' \in [Deliveries -> TaskStates] /\ task'[d] = s
         /\ \A e \in Deliveries \ {d}: task'[e] = task[e]
BY DEF JobOK

LEMMA MarkedJob ==
  ASSUME NEW status \in JobStatus, NEW error \in {"", "enqueue", "dify", "unexpected"},
         job \in Job
  PROVE  /\ Marked(status, error) \in Job
         /\ Marked(status, error).status = status
         /\ Marked(status, error).error = error
BY DEF Marked, Job

(* A step of the request that asks, of the views or of a task that does not    *)
(* take up its work and does not write the job.                              *)
LEMMA JobLeftAlone ==
  ASSUME QInv, UNCHANGED <<job, aiReplies, overlapped>>,
         asking' \in {"no", "asked"} => job = NoRow,
         asking' \in {"job made", "sent", "refused"} => job # NoRow,
         task' \in [Deliveries -> TaskStates],
         \A d \in Deliveries: task'[d] \in Working => task[d] \in Working
  PROVE  JobOK' /\ AtWorkAlone' /\ NotYetReplied' /\ ReplyMeansCompleted'
<1>1. JobOK' BY DEF QInv, JobOK
<1>2. AtWorkAlone' BY DEF QInv, AtWorkAlone
<1>3. NotYetReplied' BY DEF QInv, NotYetReplied
<1>4. ReplyMeansCompleted' BY DEF QInv, ReplyMeansCompleted
<1> QED BY <1>1, <1>2, <1>3, <1>4

(* A task that was at work ends and writes the job, which it had read as      *)
(* pending.                                                                 *)
LEMMA JobEnds ==
  ASSUME QInv, NEW d \in Deliveries, task[d] \in Working, Ends(d),
         UNCHANGED <<asking, overlapped>>, job' \in Job, job'.status # "pending",
         \/ aiReplies' = aiReplies /\ job'.status # "completed"
         \/ aiReplies' = aiReplies + 1 /\ job'.status = "completed" /\ job'.reply
  PROVE  JobOK' /\ AtWorkAlone' /\ NotYetReplied' /\ ReplyMeansCompleted'
<1>1. /\ task' \in [Deliveries -> TaskStates] /\ task'[d] = "done"
      /\ \A e \in Deliveries \ {d}: task'[e] = task[e]
  BY OneTask DEF Ends, QInv, TaskStates
<1>2. "done" \notin Working BY DEF Working
<1>3. job # NoRow /\ aiReplies \in Nat /\ job' # NoRow /\ aiReplies' \in Nat
  <2>1. job # NoRow BY DEF QInv, JobOK
  <2>2. aiReplies \in Nat BY DEF QInv, JobOK
  <2>3. job' # NoRow BY NoRowIsNone
  <2>4. aiReplies' \in Nat BY <2>2
  <2> QED BY <2>1, <2>2, <2>3, <2>4
<1>4. JobOK' BY <1>1, <1>3 DEF QInv, JobOK
<1>5. AtWorkAlone' BY <1>1, <1>2 DEF QInv, AtWorkAlone
<1>6. overlapped \/ (aiReplies = 0 /\ \A e \in Deliveries: task'[e] \notin Working)
  BY <1>1, <1>2 DEF QInv, NotYetReplied, AtWorkAlone
<1>7. NotYetReplied' BY <1>3, <1>6 DEF NotYetReplied
<1>8. ReplyMeansCompleted' BY <1>3, <1>6 DEF ReplyMeansCompleted
<1> QED BY <1>4, <1>5, <1>7, <1>8

LEMMA JobKept ==
  ASSUME QInv, [Next]_vars
  PROVE  JobOK' /\ AtWorkAlone' /\ NotYetReplied' /\ ReplyMeansCompleted'
<1> DEFINE Goal == JobOK' /\ AtWorkAlone' /\ NotYetReplied' /\ ReplyMeansCompleted'
<1> USE DEF QInv
<1>1. task \in [Deliveries -> TaskStates] BY DEF JobOK
<1>2. CASE UNCHANGED vars
  BY <1>1, <1>2, JobLeftAlone DEF vars, ai, JobOK
<1>3. CASE \E p \in Patches: Ask(p)
  BY <1>1, <1>3, JobLeftAlone DEF Ask, ai, JobOK
<1>4. CASE MakeJob
  <2>1. /\ job' = [status |-> "pending", error |-> "", reply |-> FALSE]
        /\ asking' = "job made" /\ UNCHANGED <<task, aiReplies, overlapped>>
        /\ job = NoRow
    BY <1>4 DEF MakeJob, JobOK
  <2>2. job' \in Job BY <2>1 DEF Job, JobStatus
  <2>3. aiReplies = 0 /\ \A d \in Deliveries: task[d] \notin Working
    BY <2>1 DEF JobOK
  <2>4. job' # NoRow BY <2>2, NoRowIsNone
  <2>5. JobOK' BY <2>1, <2>2, <2>3, <2>4 DEF JobOK
  <2>6. AtWorkAlone' /\ NotYetReplied' BY <2>1, <2>3 DEF AtWorkAlone, NotYetReplied
  <2>7. ReplyMeansCompleted'
    <3>1. job'.status = "pending" BY <2>1
    <3>2. aiReplies' = 0 BY <2>1, <2>3
    <3> QED BY <3>1, <3>2 DEF ReplyMeansCompleted
  <2> QED BY <2>5, <2>6, <2>7
<1>5. ASSUME NEW d \in Deliveries, Deliver(d), UNCHANGED <<job, aiReplies, overlapped>>,
             \/ asking' \in {"sent", "refused"} /\ job # NoRow
             \/ asking' = asking
      PROVE  Goal
  <2>1. /\ task' \in [Deliveries -> TaskStates] /\ task'[d] = "queued"
        /\ \A e \in Deliveries \ {d}: task'[e] = task[e]
    BY <1>5, OneTask DEF Deliver, TaskStates
  <2>2. "queued" \notin Working BY DEF Working
  <2> QED BY <1>5, <2>1, <2>2, JobLeftAlone DEF JobOK
<1>6. CASE Enqueue
  <2>1. UNCHANGED <<job, aiReplies, overlapped>> /\ job # NoRow
        /\ asking' \in {"sent", "refused"}
    BY <1>6 DEF Enqueue, ReadyToSend, JobOK
  <2>2. CASE UNCHANGED task BY <1>1, <2>1, <2>2, JobLeftAlone DEF JobOK
  <2>3. CASE \E d \in Deliveries: Deliver(d) BY <1>5, <2>1, <2>3
  <2> QED BY <1>6, <2>2, <2>3 DEF Enqueue
<1>7. CASE Redeliver
  <2>1. UNCHANGED <<asking, job, aiReplies, overlapped>> BY <1>7 DEF Redeliver
  <2>2. PICK d \in Deliveries: Deliver(d) BY <1>7 DEF Redeliver
  <2> QED BY <1>5, <2>1, <2>2
<1>8. CASE Stamp \/ AskerDies
  BY <1>1, <1>8, JobLeftAlone DEF Stamp, AskerDies, ai, JobOK
<1>9. CASE MarkRefused
  <2>1. /\ job' = Marked("failed", "enqueue") /\ asking' = "done"
        /\ UNCHANGED <<task, aiReplies, overlapped>> /\ job \in Job
    BY <1>9 DEF MarkRefused, Marked, JobOK
  <2>2. job' \in Job /\ job'.status = "failed" /\ job'.error = "enqueue"
    BY <2>1, MarkedJob DEF JobStatus
  <2>3. job # NoRow /\ job' # NoRow BY <2>1, <2>2, NoRowIsNone
  <2>4. JobOK' BY <2>1, <2>2, <2>3 DEF JobOK
  <2>5. AtWorkAlone' /\ NotYetReplied'
    BY <2>1, <2>2 DEF AtWorkAlone, NotYetReplied
  <2>6. ReplyMeansCompleted' BY <2>2 DEF ReplyMeansCompleted
  <2> QED BY <2>4, <2>5, <2>6
<1>10. CASE \/ \E e \in Editors:
                 (\E p \in Patches, u \in People: EditRead(e, p, u)) \/ EditSave(e)
            \/ (\E u \in People: Answer(u)) \/ Hide \/ Delete \/ Toggle
  BY <1>1, <1>10, JobLeftAlone
  DEF EditRead, EditSave, Answer, Hide, Delete, Toggle, ai, JobOK
<1>11. ASSUME NEW d \in Deliveries, TaskRead(d) PROVE Goal
  <2>1. /\ task' = [task EXCEPT ![d] = "job read"] /\ UNCHANGED <<asking, job, aiReplies>>
        /\ job # NoRow /\ job.status = "pending"
        /\ overlapped' = (overlapped \/ \E e \in Deliveries: task[e] \in Working)
    BY <1>11 DEF TaskRead, MayStart
  <2>2. /\ task' \in [Deliveries -> TaskStates] /\ task'[d] = "job read"
        /\ \A e \in Deliveries \ {d}: task'[e] = task[e]
    BY <2>1, OneTask DEF TaskStates, Working
  <2>3. JobOK' BY <2>1, <2>2 DEF JobOK
  <2>4. AtWorkAlone' BY <2>1, <2>2 DEF AtWorkAlone
  <2>5. NotYetReplied' BY <2>1 DEF NotYetReplied, JobOK
  <2>6. ReplyMeansCompleted'
    <3>1. job.status # "completed" BY <2>1
    <3>2. aiReplies = 0 \/ overlapped BY <2>1 DEF NotYetReplied
    <3> QED BY <2>1, <3>1, <3>2 DEF ReplyMeansCompleted
  <2> QED BY <2>3, <2>4, <2>5, <2>6
<1>12. ASSUME NEW d \in Deliveries, TaskReturns(d) \/ TaskDies(d) \/ TaskCalls(d) PROVE Goal
  <2>1. /\ UNCHANGED <<asking, job, aiReplies, overlapped>>
        /\ \/ task' = [task EXCEPT ![d] = "done"]
           \/ task' = [task EXCEPT ![d] = "calling"] /\ task[d] \in Working
    BY <1>12 DEF TaskReturns, TaskDies, TaskCalls, Ends, Working
  <2>2. /\ task' \in [Deliveries -> TaskStates]
        /\ \A e \in Deliveries \ {d}: task'[e] = task[e]
        /\ task'[d] \in Working => task[d] \in Working
    BY <2>1, OneTask DEF TaskStates, Working
  <2> QED BY <2>1, <2>2, JobLeftAlone DEF JobOK
<1>13. ASSUME NEW d \in Deliveries,
              TaskSkips(d) \/ TaskKeyless(d) \/ Publish(d) \/ Decline(d) \/ TaskFails(d)
       PROVE  Goal
  <2>1. /\ task[d] \in Working /\ Ends(d) /\ UNCHANGED <<asking, overlapped>>
    BY <1>13 DEF TaskSkips, TaskKeyless, Publish, Decline, TaskFails, Working
  <2>2. job \in Job BY <2>1 DEF JobOK
  <2>3. job.error \in {"", "enqueue", "dify", "unexpected"} BY <2>2 DEF Job
  <2>4. /\ job' \in Job /\ job'.status # "pending"
        /\ \/ aiReplies' = aiReplies /\ job'.status # "completed"
           \/ aiReplies' = aiReplies + 1 /\ job'.status = "completed" /\ job'.reply
    <3>1. CASE TaskSkips(d)
      <4>1. job' = Marked("skipped", job.error) /\ aiReplies' = aiReplies
        BY <3>1 DEF TaskSkips
      <4>2. "skipped" \in JobStatus BY DEF JobStatus
      <4>3. job' \in Job /\ job'.status = "skipped"
        BY <2>2, <2>3, <4>1, <4>2, MarkedJob
      <4> QED BY <4>1, <4>3
    <3>2. CASE TaskKeyless(d)
      BY <2>2, <3>2, MarkedJob DEF TaskKeyless, JobStatus
    <3>3. CASE Publish(d) BY <3>3 DEF Publish, Job, JobStatus
    <3>4. CASE Decline(d) BY <3>4 DEF Decline, Job, JobStatus
    <3>5. CASE TaskFails(d)
      BY <2>2, <3>5, MarkedJob DEF TaskFails, MarkedFailed, Kept, JobStatus
    <3> QED BY <1>13, <3>1, <3>2, <3>3, <3>4, <3>5
  <2> QED BY <2>1, <2>4, JobEnds
<1> QED
  BY <1>2, <1>3, <1>4, <1>6, <1>7, <1>8, <1>9, <1>10, <1>11, <1>12, <1>13
  DEF Next, AskStep, TaskStep
------------------------------------------------------------------------------
LEMMA QInvariant == Spec => []QInv
<1>1. Init => QInv
  <2> SUFFICES ASSUME Init PROVE QInv
    OBVIOUS
  <2>1. RowsOK BY DEF Init, RowsOK, Edit
  <2>2. \A d \in Deliveries: task[d] \notin Working BY DEF Init, Working
  <2>3. JobOK BY <2>2 DEF Init, JobOK, TaskStates
  <2>4. AtWorkAlone BY <2>2 DEF AtWorkAlone
  <2>5. NotYetReplied BY DEF Init, NotYetReplied
  <2>6. ReplyMeansCompleted BY DEF Init, ReplyMeansCompleted
  <2> QED BY <2>1, <2>3, <2>4, <2>5, <2>6 DEF QInv
<1>2. QInv /\ [Next]_vars => QInv'
  <2> SUFFICES ASSUME QInv, [Next]_vars PROVE QInv'
    OBVIOUS
  <2>1. RowsOK' BY RowsKept DEF QInv
  <2>2. JobOK' /\ AtWorkAlone' /\ NotYetReplied' /\ ReplyMeansCompleted' BY JobKept
  <2> QED BY <2>1, <2>2 DEF QInv
<1> QED BY <1>1, <1>2, PTL DEF Spec

(* However often Redis delivers the task's message again, the assistant      *)
(* replies twice only if two tasks were at work at the same time.            *)
THEOREM RepliesOnce == Spec => []OneAiReply
<1>1. QInv => OneAiReply
  <2> SUFFICES ASSUME QInv, ~overlapped PROVE ~(aiReplies > 1)
    BY DEF OneAiReply
  <2>1. aiReplies \in Nat BY DEF QInv, JobOK
  <2>2. aiReplies <= 1 BY DEF QInv, NotYetReplied
  <2> QED BY <2>1, <2>2
<1> QED BY <1>1, QInvariant, PTL

(* The job is completed exactly if the assistant replied, but for overlapping *)
(* tasks and a request that called the job failed after the task was sent.    *)
THEOREM CompletedMeansReplied == Spec => []ReplyMeansCompleted
<1>1. QInv => ReplyMeansCompleted BY DEF QInv
<1> QED BY <1>1, QInvariant, PTL

(* For any number of overlapping edits, answers and deletions, only an edit   *)
(* that read the question before brings a deleted one back, and only such an  *)
(* edit, or one that asks for it, shows a hidden one.                         *)
THEOREM OnlyStaleEditsUndo == Spec => UndoneByStaleEdit
<1>1. QInv /\ [Next]_vars =>
        /\ Exists /\ question.deleted /\ ~question'.deleted =>
             \E e \in Editors: edit[e] # Idle /\ ~edit[e].copy.deleted
        /\ Exists /\ question.moderation = "hidden" /\ question'.moderation = "visible" =>
             \E e \in Editors:
               /\ edit[e] # Idle
               /\ edit[e].copy.moderation = "visible" \/ "moderation" \in DOMAIN edit[e].patch
  <2> SUFFICES ASSUME QInv, [Next]_vars, Exists
               PROVE  /\ question.deleted /\ ~question'.deleted =>
                           \E e \in Editors: edit[e] # Idle /\ ~edit[e].copy.deleted
                      /\ question.moderation = "hidden" /\ question'.moderation = "visible" =>
                           \E e \in Editors:
                             /\ edit[e] # Idle
                             /\ \/ edit[e].copy.moderation = "visible"
                                \/ "moderation" \in DOMAIN edit[e].patch
    OBVIOUS
  <2>1. question \in Question BY DEF QInv, RowsOK, Exists
  <2>2. CASE question' = question BY <2>2
  <2>3. ASSUME NEW e \in Editors, edit[e] # Idle,
               question' = Edited(edit[e].copy, edit[e].patch, edit[e].by)
        PROVE  /\ ~question'.deleted => ~edit[e].copy.deleted
               /\ question'.moderation = "visible" =>
                    \/ edit[e].copy.moderation = "visible"
                    \/ "moderation" \in DOMAIN edit[e].patch
    BY <2>3, EditForms, EditedRow DEF QInv, RowsOK
  <2>4. ASSUME NEW u \in People, NEW t \in Texts,
               question' = [question EXCEPT !.answer = t, !.answered_by = u]
        PROVE  question'.deleted = question.deleted
               /\ question'.moderation = question.moderation
    BY <2>1, <2>4 DEF Question
  <2>5. CASE question' = Hidden(question) BY <2>1, <2>5 DEF Hidden, Question
  <2>6. CASE question' = [question EXCEPT !.deleted = TRUE] BY <2>1, <2>6 DEF Question
  <2>7. RowsOK BY DEF QInv
  <2> QED BY <2>2, <2>3, <2>4, <2>5, <2>6, <2>7, QuestionWritten
<1> QED BY <1>1, QInvariant, PTL DEF Spec, UndoneByStaleEdit
==============================================================================
