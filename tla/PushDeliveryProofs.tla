-------------------------- MODULE PushDeliveryProofs --------------------------
(***************************************************************************)
(* Theorems about PushDelivery, for any users, devices, tasks and retries.   *)
(*                                                                         *)
(* A notification becomes "sent" once, and that enqueues at most one task:    *)
(* whoever that task holds in its hands, nobody else decides about.  What it  *)
(* read long ago is therefore still undecided when it writes the outcome.     *)
(***************************************************************************)
EXTENDS PushDelivery, TLAPS

Undecided(u) == recipient[u] \in {"queued", "read"}

(* Before the notification is sent there are no rows and no tasks; then one   *)
(* task is committed or born.                                               *)
OneDelivery ==
  /\ notice # "sent" =>
       /\ commits = 0 /\ muted = {}
       /\ \A k \in Tasks: task[k] = Unborn
       /\ \A u \in Users: recipient[u] = "none"
  /\ commits <= 1 /\ (commits = 1 => \A k \in Tasks: task[k] = Unborn)
  /\ \A j, k \in Tasks: task[j] # Unborn /\ task[k] # Unborn => j = k
  /\ \A k \in Tasks: task[k].at = "unborn" => task[k] = Unborn

(* An attempt is counted when it ends; before, FCM may have one push more.    *)
PushesCounted ==
  /\ (\A k \in Tasks: task[k] = Unborn) =>
       \A u \in Users, t \in Tokens: accepted[u][t] = 0
  /\ \A k \in Tasks, u \in Users, t \in Tokens:
       /\ task[k].at \in {"waiting", "read", "marked"} => accepted[u][t] <= task[k].tries
       /\ task[k].at \in {"sent", "done"} => accepted[u][t] <= task[k].tries + 1

InHand ==
  \A k \in Tasks:
    /\ task[k].at = "read" => \A u \in task[k].batch: Undecided(u)
    /\ task[k].at \in {"read", "marked", "sent"} => \A p \in task[k].pairs: Undecided(p[1])
    /\ task[k].at = "sent" =>
         \A p \in task[k].pairs: task[k].outcome[p[2]] = "success" => p \in reached

PushInv == TypeOK /\ OneDelivery /\ PushesCounted /\ InHand /\ SentMeansAccepted
------------------------------------------------------------------------------
LEMMA TaskForms ==
  ASSUME NEW x \in Task
  PROVE  /\ x.tries \in 0..MaxRetries /\ x.tries \in Nat
         /\ x.at \in {"unborn", "waiting", "done", "read", "marked", "sent"}
         /\ x.at \in {"read", "marked", "sent"} =>
              x.batch \subseteq Users /\ x.pairs \subseteq Users \X Tokens
         /\ x.at = "sent" => x.outcome \in [Tokens -> Outcomes]
BY PushAssumption DEF PushAssumption, Task

LEMMA NewTask ==
  ASSUME NEW n \in 0..MaxRetries, NEW B \in SUBSET Users,
         NEW P \in SUBSET (Users \X Tokens), NEW o \in [Tokens -> Outcomes]
  PROVE  /\ [at |-> "waiting", tries |-> n] \in Task
         /\ [at |-> "done", tries |-> n] \in Task
         /\ [at |-> "read", tries |-> n, batch |-> B, pairs |-> P] \in Task
         /\ [at |-> "marked", tries |-> n, batch |-> B, pairs |-> P] \in Task
         /\ [at |-> "sent", tries |-> n, batch |-> B, pairs |-> P, outcome |-> o] \in Task
BY DEF Task

LEMMA Marks ==
  ASSUME NEW x \in Task, x.at = "read"
  PROVE  [x EXCEPT !.at = "marked"] =
           [at |-> "marked", tries |-> x.tries, batch |-> x.batch, pairs |-> x.pairs]
BY DEF Task

LEMMA Waits ==
  /\ Unborn \in Task /\ Unborn.at = "unborn" /\ Unborn.tries = 0
  /\ [Unborn EXCEPT !.at = "waiting"] = [at |-> "waiting", tries |-> 0]
BY PushAssumption DEF PushAssumption, Unborn, Task

(* A task that was born is the only one.                                     *)
LEMMA Alone ==
  ASSUME PushInv, NEW k \in Tasks, task[k].at # "unborn"
  PROVE  /\ notice = "sent" /\ commits = 0 /\ task[k] # Unborn
         /\ \A j \in Tasks \ {k}: task[j] = Unborn
<1>1. task[k] # Unborn BY Waits
<1>2. notice = "sent" BY <1>1 DEF PushInv, OneDelivery
<1>3. commits = 0 BY <1>1 DEF PushInv, OneDelivery, TypeOK
<1>4. \A j \in Tasks \ {k}: task[j] = Unborn BY <1>1 DEF PushInv, OneDelivery
<1> QED BY <1>1, <1>2, <1>3, <1>4

(* Who decides nothing changes nothing about that: inbox and device calls.    *)
LEMMA UsersKeepInv ==
  ASSUME PushInv,
         \E u \in Users: \/ MarkRead(u)
                         \/ \E t \in Tokens: Register(u, t) \/ Unregister(u, t)
                         \/ \E v \in Users, t \in Tokens: RegisterTogether(u, v, t)
  PROVE  PushInv'
<1> USE DEF PushInv, task_vars, inbox
<1>1. ASSUME NEW u \in Users, MarkRead(u) PROVE PushInv'
  <2>1. /\ recipient[u] # "none" /\ recipient' = [recipient EXCEPT ![u] = "read"]
        /\ hasRead' = hasRead \cup {u}
        /\ UNCHANGED <<notice, session, commits, task, accepted, reached, muted>>
    BY <1>1 DEF MarkRead
  <2>2. /\ recipient'[u] = "read"
        /\ \A v \in Users \ {u}: recipient'[v] = recipient[v]
    BY <2>1 DEF TypeOK
  <2>3. TypeOK' BY <2>1 DEF TypeOK
  <2>4. OneDelivery' BY <2>1 DEF OneDelivery
  <2>5. PushesCounted' BY <2>1 DEF PushesCounted
  <2>6. \A v \in Users: Undecided(v) => Undecided(v)' BY <2>2 DEF Undecided
  <2>7. InHand'
    <3>1. \A k \in Tasks: task[k].at \in {"read", "marked", "sent"} =>
             task[k].batch \subseteq Users /\ task[k].pairs \subseteq Users \X Tokens
      BY TaskForms DEF TypeOK
    <3>2. \A p \in Users \X Tokens: p[1] \in Users OBVIOUS
    <3> QED BY <2>1, <2>6, <3>1, <3>2 DEF InHand
  <2>8. SentMeansAccepted' BY <2>1, <2>2 DEF SentMeansAccepted
  <2> QED BY <2>3, <2>4, <2>5, <2>7, <2>8
<1>2. ASSUME session' \subseteq Users \X Tokens,
             UNCHANGED <<notice, recipient, commits, task, accepted, reached, muted, hasRead>>
      PROVE  PushInv'
  BY <1>2 DEF TypeOK, OneDelivery, PushesCounted, InHand, Undecided, SentMeansAccepted
<1>3. ASSUME NEW u \in Users, NEW v \in Users, NEW t \in Tokens,
             Register(u, t) \/ Unregister(u, t) \/ RegisterTogether(u, v, t)
      PROVE  PushInv'
  <2>1. session \subseteq Users \X Tokens BY DEF TypeOK
  <2>2. session' \subseteq Users \X Tokens
    BY <1>3, <2>1 DEF Register, Unregister, RegisterTogether
  <2> QED BY <1>2, <1>3, <2>2 DEF Register, Unregister, RegisterTogether
<1> QED BY <1>1, <1>3

LEMMA PublicationKeepsInv ==
  ASSUME PushInv,
         \/ \E s \in {"draft", "scheduled"}: Create(s) \/ Update(s)
         \/ Delete
         \/ \E R \in SUBSET Users: Publish(R) \/ \E quiet \in SUBSET R: Dispatch(R, quiet)
  PROVE  PushInv'
<1> USE DEF PushInv, task_vars, inbox
<1>1. ASSUME notice # "sent", notice' \in {"draft", "scheduled", "deleted"},
             UNCHANGED <<recipient, session, commits, task, accepted, reached, muted, hasRead>>
      PROVE  PushInv'
  BY <1>1 DEF TypeOK, OneDelivery, PushesCounted, InHand, Undecided, SentMeansAccepted
<1>2. ASSUME NEW R \in SUBSET Users, NEW quiet \in SUBSET R, notice # "sent",
             notice' = "sent", recipient' = Recipients(R, quiet),
             commits' \in {commits, commits + 1}, muted' = quiet,
             UNCHANGED <<session, task, accepted, reached, hasRead>>
      PROVE  PushInv'
  <2>1. /\ commits = 0 /\ \A k \in Tasks: task[k] = Unborn
        /\ \A u \in Users: recipient[u] = "none"
    BY <1>2 DEF OneDelivery
  <2>2. \A u \in Users: recipient'[u] = IF u \notin R THEN "none"
                                        ELSE IF u \in quiet THEN "sent" ELSE "queued"
    BY <1>2, <2>1 DEF Recipients
  <2>3. recipient' \in [Users -> {"none", "queued", "sent", "failed", "read"}]
    BY <1>2, <2>1 DEF Recipients
  <2>4. TypeOK' BY <1>2, <2>1, <2>3 DEF TypeOK
  <2>5. OneDelivery' BY <1>2, <2>1 DEF OneDelivery
  <2>6. PushesCounted' BY <1>2 DEF PushesCounted
  <2>7. InHand' BY <1>2, <2>1, Waits DEF InHand
  <2>8. SentMeansAccepted' BY <1>2, <2>2 DEF SentMeansAccepted
  <2> QED BY <2>4, <2>5, <2>6, <2>7, <2>8
<1>3. ASSUME NEW R \in SUBSET Users, Publish(R) PROVE PushInv'
  BY <1>2, <1>3 DEF Publish, Publishable, OneDelivery
<1>4. ASSUME NEW R \in SUBSET Users, NEW quiet \in SUBSET R, Dispatch(R, quiet)
      PROVE  PushInv'
  BY <1>2, <1>4 DEF Dispatch
<1> QED BY <1>1, <1>3, <1>4 DEF Create, Update, Delete, Editable
------------------------------------------------------------------------------
(* The step of a born task k to x: what is left to show of x alone.           *)
LEMMA TaskMoves ==
  ASSUME PushInv, NEW k \in Tasks, NEW x \in Task, x.at # "unborn",
         task[k].at # "unborn" \/ commits > 0,
         task' = [task EXCEPT ![k] = x],
         commits' = 0, UNCHANGED <<notice, muted, hasRead>>,
         recipient' \in [Users -> {"none", "queued", "sent", "failed", "read"}],
         session' \subseteq Users \X Tokens,
         accepted' \in [Users -> [Tokens -> Nat]], reached' \subseteq Users \X Tokens,
         \A u \in Users, t \in Tokens:
           /\ x.at \in {"waiting", "read", "marked"} => accepted'[u][t] <= x.tries
           /\ x.at \in {"sent", "done"} => accepted'[u][t] <= x.tries + 1,
         x.at = "read" => \A u \in x.batch: recipient'[u] \in {"queued", "read"},
         x.at \in {"read", "marked", "sent"} =>
           \A p \in x.pairs: recipient'[p[1]] \in {"queued", "read"},
         x.at = "sent" =>
           \A p \in x.pairs: x.outcome[p[2]] = "success" => p \in reached',
         SentMeansAccepted'
  PROVE  PushInv'
<1>1. task' \in [Tasks -> Task] /\ task'[k] = x
      /\ \A j \in Tasks \ {k}: task'[j] = task[j]
  BY DEF PushInv, TypeOK
<1>2. x # Unborn BY Waits
<1>3. notice = "sent" /\ \A j \in Tasks \ {k}: task[j] = Unborn
  <2>1. CASE task[k].at # "unborn" BY <2>1, Alone
  <2>2. CASE commits > 0
    <3>1. commits = 1 BY <2>2 DEF PushInv, OneDelivery, TypeOK
    <3> QED BY <3>1 DEF PushInv, OneDelivery
  <2> QED BY <2>1, <2>2
<1>4. \A j \in Tasks \ {k}: task'[j].at = "unborn" BY <1>1, <1>3, Waits
<1>5. TypeOK' BY <1>1 DEF PushInv, TypeOK
<1>6. OneDelivery' BY <1>1, <1>2, <1>3 DEF OneDelivery
<1>7. PushesCounted' BY <1>1, <1>2, <1>4 DEF PushesCounted
<1>8. InHand' BY <1>1, <1>4 DEF InHand, Undecided
<1> QED BY <1>5, <1>6, <1>7, <1>8 DEF PushInv

(* What holds of the numbers of a task that was born.                        *)
LEMMA BornCounts ==
  ASSUME PushInv, NEW k \in Tasks, task[k].at # "unborn"
  PROVE  /\ task[k] \in Task /\ task[k].tries \in 0..MaxRetries /\ task[k].tries \in Nat
         /\ \A u \in Users, t \in Tokens:
              /\ accepted[u][t] \in Nat /\ accepted[u][t] <= task[k].tries + 1
<1>1. task[k] \in Task BY DEF PushInv, TypeOK
<1>2. task[k].tries \in 0..MaxRetries /\ task[k].tries \in Nat
      /\ task[k].at \in {"waiting", "done", "read", "marked", "sent"}
  BY <1>1, TaskForms
<1>3. \A u \in Users, t \in Tokens: accepted[u][t] \in Nat BY DEF PushInv, TypeOK
<1>4. \A u \in Users, t \in Tokens: accepted[u][t] <= task[k].tries + 1
  BY <1>2, <1>3 DEF PushInv, PushesCounted
<1> QED BY <1>1, <1>2, <1>3, <1>4

(* Celery runs the task again, or has done so often enough.                  *)
LEMMA Retried ==
  ASSUME PushInv, NEW k \in Tasks, task[k].at # "unborn"
  PROVE  /\ End(k) = [at |-> "done", tries |-> task[k].tries] /\ End(k) \in Task
         /\ Retry(k) \in Task
         /\ \/ Retry(k) = End(k)
            \/ Retry(k) = [at |-> "waiting", tries |-> task[k].tries + 1]
<1>1. task[k].tries \in 0..MaxRetries /\ MaxRetries \in Nat
  BY BornCounts, PushAssumption DEF PushAssumption
<1>2. End(k) = [at |-> "done", tries |-> task[k].tries] /\ End(k) \in Task
  BY <1>1 DEF End, Task
<1>3. CASE task[k].tries < MaxRetries
  <2>1. task[k].tries + 1 \in 0..MaxRetries BY <1>1, <1>3
  <2> QED BY <1>2, <1>3, <2>1 DEF Retry, Task
<1>4. CASE ~(task[k].tries < MaxRetries) BY <1>2, <1>4 DEF Retry
<1> QED BY <1>2, <1>3, <1>4

LEMMA EndingKeepsInv ==
  ASSUME PushInv, NEW k \in Tasks, task[k].at # "unborn",
         task' = [task EXCEPT ![k] = End(k)] \/ task' = [task EXCEPT ![k] = Retry(k)],
         UNCHANGED <<notice, commits, accepted, reached, muted, hasRead>>,
         recipient' \in [Users -> {"none", "queued", "sent", "failed", "read"}],
         session' \subseteq Users \X Tokens,
         SentMeansAccepted'
  PROVE  PushInv'
<1>1. PICK x \in {End(k), Retry(k)}: task' = [task EXCEPT ![k] = x]
  OBVIOUS
<1>2. /\ x \in Task
      /\ \/ x = [at |-> "done", tries |-> task[k].tries]
         \/ x = [at |-> "waiting", tries |-> task[k].tries + 1]
  BY <1>1, Retried
<1>3. x.at \in {"done", "waiting"} BY <1>2
<1>4. commits' = 0 BY Alone
<1>5. accepted' \in [Users -> [Tokens -> Nat]] /\ reached' \subseteq Users \X Tokens
  BY DEF PushInv, TypeOK
<1>6. \A u \in Users, t \in Tokens:
        /\ x.at \in {"waiting", "read", "marked"} => accepted'[u][t] <= x.tries
        /\ x.at \in {"sent", "done"} => accepted'[u][t] <= x.tries + 1
  BY <1>2, BornCounts
<1> QED BY <1>1, <1>2, <1>3, <1>4, <1>5, <1>6, TaskMoves

LEMMA TasksKeepInv ==
  ASSUME PushInv, NEW k \in Tasks, TaskStep(k) \/ Raise(k) \/ Kill(k)
  PROVE  PushInv'
<1> USE DEF task_vars, inbox
<1>1. CASE Enqueue(k)
  <2> DEFINE x == [at |-> "waiting", tries |-> 0]
  <2>1. /\ commits > 0 /\ task[k] = Unborn /\ commits' = commits - 1
        /\ task' = [task EXCEPT ![k].at = "waiting"]
        /\ UNCHANGED <<notice, recipient, session, accepted, reached, muted, hasRead>>
    BY <1>1 DEF Enqueue
  <2>2. commits = 1 BY <2>1 DEF PushInv, OneDelivery, TypeOK
  <2>3. \A u \in Users, t \in Tokens: accepted[u][t] = 0
    BY <2>2 DEF PushInv, OneDelivery, PushesCounted
  <2>4. x \in Task BY PushAssumption DEF PushAssumption, Task
  <2>5. task' = [task EXCEPT ![k] = x]
    BY <2>1, Waits DEF PushInv, TypeOK
  <2>6. SentMeansAccepted' BY <2>1 DEF PushInv, SentMeansAccepted
  <2>7. /\ recipient' \in [Users -> {"none", "queued", "sent", "failed", "read"}]
        /\ session' \subseteq Users \X Tokens /\ accepted' \in [Users -> [Tokens -> Nat]]
        /\ reached' \subseteq Users \X Tokens
    BY <2>1 DEF PushInv, TypeOK
  <2>8. x.at = "waiting" /\ x.tries = 0 /\ commits' = 0 BY <2>1, <2>2
  <2>9. \A u \in Users, t \in Tokens: accepted'[u][t] <= 0 BY <2>1, <2>3
  <2> HIDE DEF x
  <2> QED BY <2>1, <2>4, <2>5, <2>6, <2>7, <2>8, <2>9, TaskMoves
<1>2. CASE ReadBatch(k)
  <2>1. PICK batch \in SUBSET Queued:
          /\ task[k].at = "waiting"
          /\ task' = [task EXCEPT ![k] =
               IF batch = {} THEN End(k)
               ELSE [at |-> "read", tries |-> task[k].tries, batch |-> batch,
                     pairs |-> {p \in session: p[1] \in batch}]]
          /\ UNCHANGED <<notice, recipient, session, commits, accepted, reached, muted, hasRead>>
    BY <1>2 DEF ReadBatch
  <2>2. SentMeansAccepted' BY <2>1 DEF PushInv, SentMeansAccepted
  <2>3. /\ recipient' \in [Users -> {"none", "queued", "sent", "failed", "read"}]
        /\ session' \subseteq Users \X Tokens /\ accepted' \in [Users -> [Tokens -> Nat]]
        /\ reached' \subseteq Users \X Tokens
    BY <2>1 DEF PushInv, TypeOK
  <2>4. CASE batch = {}
    BY <2>1, <2>2, <2>3, <2>4, EndingKeepsInv
  <2>5. CASE batch # {}
    <3> DEFINE P == {p \in session: p[1] \in batch}
               x == [at |-> "read", tries |-> task[k].tries, batch |-> batch, pairs |-> P]
    <3>1. task[k].tries \in 0..MaxRetries BY <2>1, BornCounts
    <3>2. batch \subseteq Users /\ P \subseteq Users \X Tokens
      BY DEF Queued, PushInv, TypeOK
    <3>3. x \in Task BY <3>1, <3>2 DEF Task
    <3>4. task' = [task EXCEPT ![k] = x] BY <2>1, <2>5
    <3>5. \A u \in batch: recipient'[u] \in {"queued", "read"} BY <2>1 DEF Queued
    <3>6. \A p \in P: recipient'[p[1]] \in {"queued", "read"} BY <3>5
    <3>7. \A u \in Users, t \in Tokens: accepted'[u][t] <= task[k].tries
      BY <2>1 DEF PushInv, PushesCounted
    <3>8. x.at = "read" /\ x.tries = task[k].tries /\ x.batch = batch /\ x.pairs = P
      OBVIOUS
    <3>9. commits' = 0 BY <2>1, Alone
    <3> HIDE DEF x, P
    <3> QED BY <2>1, <2>2, <2>3, <3>3, <3>4, <3>5, <3>6, <3>7, <3>8, <3>9, TaskMoves
  <2> QED BY <2>4, <2>5
<1>3. CASE MarkTokenless(k)
  <2> DEFINE x == [task[k] EXCEPT !.at = "marked"]
  <2>1. /\ task[k].at = "read" /\ task[k] \in Task
        /\ recipient' = [u \in Users |-> IF u \in task[k].batch \ Addressed(k)
                                         THEN "failed" ELSE recipient[u]]
        /\ task' = [task EXCEPT ![k] = x]
        /\ UNCHANGED <<notice, session, commits, accepted, reached, muted, hasRead>>
    BY <1>3 DEF MarkTokenless, PushInv, TypeOK
  <2>2. x = [at |-> "marked", tries |-> task[k].tries, batch |-> task[k].batch,
             pairs |-> task[k].pairs]
    BY <2>1, Marks
  <2>3. task[k].tries \in 0..MaxRetries /\ task[k].batch \subseteq Users
        /\ task[k].pairs \subseteq Users \X Tokens
    BY <2>1, TaskForms
  <2>4. x \in Task BY <2>2, <2>3 DEF Task
  <2>5. x.at = "marked" /\ x.tries = task[k].tries /\ x.pairs = task[k].pairs BY <2>2
  <2> HIDE DEF x
  <2>6. \A p \in task[k].pairs: p[1] \in Addressed(k) /\ p[1] \in Users
    BY <2>3 DEF Addressed
  <2>7. \A p \in x.pairs: recipient'[p[1]] \in {"queued", "read"}
    BY <2>1, <2>5, <2>6 DEF PushInv, InHand, Undecided
  <2>8. /\ recipient' \in [Users -> {"none", "queued", "sent", "failed", "read"}]
        /\ session' \subseteq Users \X Tokens /\ accepted' \in [Users -> [Tokens -> Nat]]
        /\ reached' \subseteq Users \X Tokens
    BY <2>1 DEF PushInv, TypeOK
  <2>9. SentMeansAccepted' BY <2>1 DEF PushInv, SentMeansAccepted
  <2>10. \A u \in Users, t \in Tokens: accepted'[u][t] <= x.tries
    BY <2>1, <2>5 DEF PushInv, PushesCounted
  <2>11. commits' = 0 BY <2>1, Alone
  <2> QED BY <2>1, <2>4, <2>5, <2>7, <2>8, <2>9, <2>10, <2>11, TaskMoves
<1>4. CASE Send(k)
  <2>1. PICK answer \in Answers(k), order \in Orders, outcome \in [Tokens -> Outcomes]:
          /\ outcome \in ByToken(k, answer, order)
          /\ task[k].at = "marked"
          /\ task' = [task EXCEPT ![k] =
               [at |-> "sent", tries |-> task[k].tries, batch |-> task[k].batch,
                pairs |-> task[k].pairs, outcome |-> outcome]]
          /\ accepted' = [u \in Users |-> [t \in Tokens |->
               IF <<u, t>> \in task[k].pairs /\ answer[<<u, t>>] = "success"
               THEN accepted[u][t] + 1 ELSE accepted[u][t]]]
          /\ reached' = reached \cup
               {p \in task[k].pairs :
                  \E q \in task[k].pairs: q[2] = p[2] /\ answer[q] = "success"}
          /\ UNCHANGED <<notice, recipient, session, commits, muted, hasRead>>
    BY <1>4 DEF Send, ByToken
  <2> DEFINE x == [at |-> "sent", tries |-> task[k].tries, batch |-> task[k].batch,
                   pairs |-> task[k].pairs, outcome |-> outcome]
  <2>2. task[k].tries \in 0..MaxRetries /\ task[k].batch \subseteq Users
        /\ task[k].pairs \subseteq Users \X Tokens /\ task[k].tries \in Nat
    BY <2>1, TaskForms DEF PushInv, TypeOK
  <2>3. x \in Task BY <2>2 DEF Task
  <2>4. /\ x.at = "sent" /\ x.tries = task[k].tries /\ x.pairs = task[k].pairs
        /\ x.outcome = outcome /\ task' = [task EXCEPT ![k] = x]
    BY <2>1
  <2> HIDE DEF x
  <2>5. \A u \in Users, t \in Tokens: accepted[u][t] \in Nat
    BY DEF PushInv, TypeOK
  <2>6. \A u \in Users, t \in Tokens:
          accepted'[u][t] = IF <<u, t>> \in task[k].pairs /\ answer[<<u, t>>] = "success"
                            THEN accepted[u][t] + 1 ELSE accepted[u][t]
    BY <2>1
  <2>7. accepted' \in [Users -> [Tokens -> Nat]] BY <2>1, <2>5
  <2>8. \A u \in Users, t \in Tokens: accepted'[u][t] <= task[k].tries + 1
    <3> SUFFICES ASSUME NEW u \in Users, NEW t \in Tokens
                 PROVE  accepted'[u][t] <= task[k].tries + 1
      OBVIOUS
    <3>1. accepted[u][t] <= task[k].tries BY <2>1 DEF PushInv, PushesCounted
    <3>2. accepted[u][t] \in Nat BY <2>5
    <3>3. accepted'[u][t] \in {accepted[u][t], accepted[u][t] + 1} BY <2>6
    <3> QED BY <2>2, <3>1, <3>2, <3>3
  <2>9. \A p \in task[k].pairs: outcome[p[2]] = "success" => p \in reached'
    <3> SUFFICES ASSUME NEW p \in task[k].pairs, outcome[p[2]] = "success"
                 PROVE  p \in reached'
      OBVIOUS
    <3>1. p[2] \in Tokens BY <2>2
    <3>2. PICK q \in {r \in task[k].pairs : r[2] = p[2]}: outcome[p[2]] = answer[q]
      BY <2>1, <3>1 DEF ByToken
    <3> QED BY <2>1, <3>2
  <2>10. \A p \in task[k].pairs: recipient'[p[1]] \in {"queued", "read"}
    BY <2>1 DEF PushInv, InHand, Undecided
  <2>11. reached \subseteq reached' /\ reached' \subseteq Users \X Tokens
    BY <2>1, <2>2 DEF PushInv, TypeOK
  <2>12. SentMeansAccepted'
    BY <2>1, <2>11 DEF PushInv, SentMeansAccepted
  <2>13. /\ recipient' \in [Users -> {"none", "queued", "sent", "failed", "read"}]
         /\ session' \subseteq Users \X Tokens /\ commits' = 0
    BY <2>1, Alone DEF PushInv, TypeOK
  <2> QED BY <2>1, <2>3, <2>4, <2>7, <2>8, <2>9, <2>10, <2>11, <2>12, <2>13, TaskMoves
<1>5. CASE Persist(k)
  <2>1. /\ task[k].at = "sent"
        /\ recipient' = [u \in Users |-> IF u \in SentIds(k) THEN "sent"
                                         ELSE IF u \in FailedIds(k) THEN "failed"
                                         ELSE recipient[u]]
        /\ session' = {p \in session: p[2] \notin InvalidTokens(k)}
        /\ \/ task' = [task EXCEPT ![k] = Retry(k)]
           \/ task' = [task EXCEPT ![k] = End(k)]
        /\ UNCHANGED <<notice, commits, accepted, reached, muted, hasRead>>
    BY <1>5 DEF Persist
  <2>2. task[k].pairs \subseteq Users \X Tokens
    BY <2>1, TaskForms DEF PushInv, TypeOK
  <2>3. \A u \in SentIds(k): \E t \in Tokens: <<u, t>> \in reached
    <3> SUFFICES ASSUME NEW u \in SentIds(k) PROVE \E t \in Tokens: <<u, t>> \in reached
      OBVIOUS
    <3>1. PICK p \in task[k].pairs: p[1] = u /\ task[k].outcome[p[2]] = "success"
      BY DEF SentIds, With
    <3>2. p[2] \in Tokens /\ p = <<u, p[2]>> BY <2>2, <3>1
    <3>3. p \in reached BY <2>1, <3>1 DEF PushInv, InHand
    <3> QED BY <3>2, <3>3
  <2>4. SentMeansAccepted'
    BY <2>1, <2>3 DEF PushInv, SentMeansAccepted
  <2>5. /\ recipient' \in [Users -> {"none", "queued", "sent", "failed", "read"}]
        /\ session' \subseteq Users \X Tokens
    BY <2>1 DEF PushInv, TypeOK
  <2> QED BY <2>1, <2>4, <2>5, EndingKeepsInv
<1>6. CASE Raise(k) \/ Kill(k)
  <2>1. /\ task[k].at # "unborn"
        /\ \/ task' = [task EXCEPT ![k] = Retry(k)]
           \/ task' = [task EXCEPT ![k] = End(k)]
        /\ UNCHANGED <<notice, recipient, session, commits, accepted, reached, muted, hasRead>>
    BY <1>6 DEF Raise, Kill, Running
  <2>2. SentMeansAccepted' BY <2>1 DEF PushInv, SentMeansAccepted
  <2>3. /\ recipient' \in [Users -> {"none", "queued", "sent", "failed", "read"}]
        /\ session' \subseteq Users \X Tokens
    BY <2>1 DEF PushInv, TypeOK
  <2> QED BY <2>1, <2>2, <2>3, EndingKeepsInv
<1> QED BY <1>1, <1>2, <1>3, <1>4, <1>5, <1>6 DEF TaskStep
------------------------------------------------------------------------------
LEMMA PushInvariant == Spec => []PushInv
<1>1. Init => PushInv
  <2> SUFFICES ASSUME Init PROVE PushInv
    OBVIOUS
  <2> USE Waits DEF Init
  <2>1. TypeOK BY DEF TypeOK
  <2>2. OneDelivery BY DEF OneDelivery
  <2>3. PushesCounted BY DEF PushesCounted
  <2>4. InHand BY DEF InHand
  <2>5. SentMeansAccepted BY DEF SentMeansAccepted
  <2> QED BY <2>1, <2>2, <2>3, <2>4, <2>5 DEF PushInv
<1>2. PushInv /\ [Next]_vars => PushInv'
  <2> SUFFICES ASSUME PushInv, [Next]_vars PROVE PushInv'
    OBVIOUS
  <2>1. CASE UNCHANGED vars
    BY <2>1 DEF vars, task_vars, inbox, PushInv, TypeOK, OneDelivery, PushesCounted, InHand,
                Undecided, SentMeansAccepted
  <2>2. CASE EnqueueLost
    <3>1. /\ commits > 0 /\ commits' = commits - 1
          /\ UNCHANGED <<notice, recipient, session, task, accepted, reached, muted, hasRead>>
      BY <2>2 DEF EnqueueLost, task_vars, inbox
    <3>2. commits = 1 /\ commits' = 0 BY <3>1 DEF PushInv, OneDelivery, TypeOK
    <3>3. TypeOK' /\ OneDelivery' BY <3>1, <3>2 DEF PushInv, TypeOK, OneDelivery
    <3>4. PushesCounted' /\ InHand' /\ SentMeansAccepted'
      BY <3>1 DEF PushInv, PushesCounted, InHand, Undecided, SentMeansAccepted
    <3> QED BY <3>3, <3>4 DEF PushInv
  <2> QED
    BY <2>1, <2>2, UsersKeepInv, PublicationKeepsInv, TasksKeepInv DEF Next
<1> QED BY <1>1, <1>2, PTL DEF Spec

(* The notification, its rows, tasks and devices are well formed.             *)
THEOREM PushTyped == Spec => []TypeOK
<1>1. PushInv => TypeOK BY DEF PushInv
<1> QED BY <1>1, PushInvariant, PTL

(* A recipient's row says "sent" only if a device he was pushed to accepted    *)
(* the notification in that send, for him or for another user with the same   *)
(* token, whatever was retried and whoever registered the device since.       *)
THEOREM SentIsTrue == Spec => []SentMeansAccepted
<1>1. PushInv => SentMeansAccepted BY DEF PushInv
<1> QED BY <1>1, PushInvariant, PTL

(* No device gets more pushes than one task makes attempts.                   *)
THEOREM OneTaskPushes == Spec => []PushedByOneTask
<1>1. PushInv => PushedByOneTask
  <2> SUFFICES ASSUME PushInv, NEW u \in Users, NEW t \in Tokens
               PROVE  \E k \in Tasks: accepted[u][t] <= task[k].tries + 1
    BY DEF PushedByOneTask
  <2>1. CASE \A k \in Tasks: task[k] = Unborn
    <3>1. accepted[u][t] = 0 BY <2>1 DEF PushInv, PushesCounted
    <3>2. PICK k \in Tasks: TRUE BY PushAssumption DEF PushAssumption
    <3>3. task[k].tries = 0 BY <2>1, <3>2, Waits
    <3> QED BY <3>1, <3>3
  <2>2. CASE \E k \in Tasks: task[k].at # "unborn" BY <2>2, BornCounts
  <2> QED BY <2>1, <2>2 DEF PushInv, OneDelivery
<1> QED BY <1>1, PushInvariant, PTL

(* What became of a push is written once: later only the user changes it.     *)
THEOREM OutcomesStay == Spec => OutcomeFinal
<1>1. PushInv /\ [Next]_vars =>
        \A u \in Users: recipient[u] \in {"sent", "failed"}
                          => recipient'[u] \in {recipient[u], "read"}
  <2> SUFFICES ASSUME PushInv, [Next]_vars, NEW u \in Users,
                      recipient[u] \in {"sent", "failed"}
               PROVE  recipient'[u] \in {recipient[u], "read"}
    OBVIOUS
  <2>1. ~Undecided(u) BY DEF Undecided
  <2>2. ASSUME NEW k \in Tasks, MarkTokenless(k) PROVE recipient'[u] = recipient[u]
    BY <2>1, <2>2 DEF MarkTokenless, PushInv, InHand
  <2>3. ASSUME NEW k \in Tasks, Persist(k) PROVE recipient'[u] = recipient[u]
    <3>1. \A p \in task[k].pairs: p[1] # u BY <2>1, <2>3 DEF Persist, PushInv, InHand
    <3>2. u \notin SentIds(k) /\ u \notin FailedIds(k)
      BY <3>1 DEF SentIds, FailedIds, With
    <3> QED BY <2>3, <3>2 DEF Persist
  <2>4. ASSUME NEW R, NEW quiet, recipient' = Recipients(R, quiet)
        PROVE  recipient'[u] = recipient[u]
    BY <2>4 DEF Recipients
  <2>5. ASSUME NEW v \in Users, MarkRead(v) PROVE recipient'[u] \in {recipient[u], "read"}
    BY <2>5 DEF MarkRead, PushInv, TypeOK
  <2>6. CASE UNCHANGED recipient BY <2>6
  <2> QED
    BY <2>2, <2>3, <2>4, <2>5, <2>6
    DEF Next, vars, task_vars, inbox, Create, Update, Delete, Publish, Dispatch, EnqueueLost,
        TaskStep, Enqueue, ReadBatch, Send, Raise, Kill, Register, Unregister,
        RegisterTogether
<1> QED BY <1>1, PushInvariant, PTL DEF Spec, OutcomeFinal
==============================================================================
