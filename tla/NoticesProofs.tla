---------------------------- MODULE NoticesProofs ----------------------------
(***************************************************************************)
(* Theorems about Notices, for any number of people, workers and changes.    *)
(*                                                                         *)
(* What Notices promises is about the moment when everything is done.  The   *)
(* invariant says where each mail is until then: in a hook of a request, in  *)
(* an announcement a worker handles, or in a task of the queue; a step may   *)
(* take it from one place only by putting it in the next, by sending it, or  *)
(* by a failure that excuses its person.                                    *)
(***************************************************************************)
EXTENDS Notices, SequenceTheorems, TLAPS

(* What a hook of a request still has to do for somebody is not passed over in *)
(* silence when a hook before it fails.  The hooks of a task only enqueue, and *)
(* are done again with the task.  The hook of a decided request is alone.      *)
HookListOK(hooks, t) ==
  /\ hooks \in Seq(Hook) /\ hooks # <<>>
  /\ \A i \in DOMAIN hooks: hooks[i].do = "tell" => Len(hooks) = 1
  /\ t = NoTask =>
       \A i, j \in DOMAIN hooks:
         i < j /\ hooks[i].do # "mail" => Silenced(hooks[j]) \subseteq Silenced(hooks[i])
  /\ t # NoTask =>
       /\ t.task = "announce"
       /\ \A i \in DOMAIN hooks:
            /\ hooks[i].do = "enqueue" /\ hooks[i].task.task # "announce"
            /\ hooks[i].task.task = "mails" => hooks[i].task.plan = t.plan

WorkOK(x) ==
  /\ x \in Work
  /\ x.at = "hooks" => HookListOK(x.hooks, x.of)
  /\ x.at = "announcing" => x.of.task = "announce"

WorkersOK == work \in [Crew -> Work] /\ \A w \in Crew: WorkOK(work[w])

HooksIn(x) ==
  IF x.at = "hooks" THEN {x.hooks[i] : i \in DOMAIN x.hooks} ELSE {}
------------------------------------------------------------------------------
(* Lists of hooks.                                                          *)
LEMMA TaskForms ==
  ASSUME NEW t \in Task
  PROVE  /\ t # NoTask
         /\ t.task \in {"deliver", "announce", "mails"}
         /\ t.task = "deliver" => t \in [task: {"deliver"}, notice: Notification]
         /\ t.task = "announce" =>
              t \in [task: {"announce"}, plan: Plans, tries: 0..AnnounceRetries]
         /\ t.task = "mails" => t \in [task: {"mails"}, to: SUBSET People, plan: Plans]
BY DEF Task, NoTask

LEMMA HookForms ==
  ASSUME NEW h \in Hook
  PROVE  /\ h.do \in {"enqueue", "tell", "mail"}
         /\ h.do = "enqueue" => h \in [do: {"enqueue"}, task: Task]
         /\ h.do = "tell" => h \in [do: {"tell"}, user: People]
         /\ h.do = "mail" =>
              h \in [do: {"mail"}, user: People, status: Statuses \cup {"decided"},
                     plans: SUBSET Plans]
BY DEF Hook

LEMMA SilencedPeople ==
  ASSUME NEW h \in Hook PROVE Silenced(h) \subseteq People
<1>1. CASE h.do # "enqueue"
  BY <1>1, HookForms DEF Silenced
<1>2. CASE h.do = "enqueue"
  <2>1. h.task \in Task BY <1>2, HookForms
  <2>2. CASE h.task.task = "announce" BY <1>2, <2>2 DEF Silenced
  <2>3. CASE h.task.task = "mails"
    BY <1>2, <2>1, <2>3, TaskForms DEF Silenced
  <2>4. CASE h.task.task = "deliver"
    <3>1. h.task.notice \in Notification BY <2>1, <2>4, TaskForms
    <3>2. h.task.notice.to \subseteq People BY <3>1 DEF Notification
    <3> QED BY <1>2, <2>4, <3>2 DEF Silenced
  <2> QED BY <2>1, <2>2, <2>3, <2>4, TaskForms
<1> QED BY <1>1, <1>2

LEMMA TailFacts ==
  ASSUME NEW S, NEW s \in Seq(S), s # <<>>
  PROVE  /\ Head(s) = s[1] /\ Head(s) \in S /\ Tail(s) \in Seq(S)
         /\ DOMAIN s = 1..Len(s) /\ Len(s) \in Nat /\ Len(s) >= 1
         /\ DOMAIN Tail(s) = 1..(Len(s) - 1)
         /\ \A i \in DOMAIN Tail(s): Tail(s)[i] = s[i + 1]
OBVIOUS

LEMMA TailOK ==
  ASSUME NEW hooks, NEW t, HookListOK(hooks, t), Tail(hooks) # <<>>
  PROVE  HookListOK(Tail(hooks), t)
<1> DEFINE rest == Tail(hooks)
<1>1. hooks \in Seq(Hook) /\ hooks # <<>> BY DEF HookListOK
<1>2. /\ rest \in Seq(Hook) /\ DOMAIN hooks = 1..Len(hooks) /\ Len(hooks) \in Nat
      /\ DOMAIN rest = 1..(Len(hooks) - 1)
      /\ \A i \in DOMAIN rest: rest[i] = hooks[i + 1]
  BY <1>1, TailFacts
<1> HIDE DEF rest
<1>3. \A i \in DOMAIN rest: i + 1 \in DOMAIN hooks BY <1>2
<1>4. ASSUME t = NoTask, NEW i \in DOMAIN rest, NEW j \in DOMAIN rest,
             i < j, rest[i].do # "mail"
      PROVE  Silenced(rest[j]) \subseteq Silenced(rest[i])
  <2>1. i + 1 < j + 1 BY <1>2, <1>4
  <2> QED BY <1>2, <1>3, <1>4, <2>1 DEF HookListOK
<1>5. ASSUME t # NoTask, NEW i \in DOMAIN rest
      PROVE  /\ rest[i].do = "enqueue" /\ rest[i].task.task # "announce"
             /\ rest[i].task.task = "mails" => rest[i].task.plan = t.plan
  BY <1>2, <1>3, <1>5 DEF HookListOK
<1>6. rest # <<>> BY DEF rest
<1>7. t # NoTask => t.task = "announce" BY DEF HookListOK
<1>8. \A i \in DOMAIN rest: rest[i].do # "tell"
  BY <1>2, <1>3 DEF HookListOK
<1>9. HookListOK(rest, t) BY <1>2, <1>4, <1>5, <1>6, <1>7, <1>8 DEF HookListOK
<1> QED BY <1>9 DEF rest

LEMMA HookedOK ==
  ASSUME NEW hooks, NEW t \in Task \cup {NoTask},
         hooks = <<>> \/ HookListOK(hooks, t)
  PROVE  /\ WorkOK(Hooked(hooks, t))
         /\ HooksIn(Hooked(hooks, t)) = {hooks[i] : i \in DOMAIN hooks}
         /\ Hooked(hooks, t).at \in {"free", "hooks"}
<1>1. CASE hooks = <<>>
  <2>1. DOMAIN hooks = {} BY <1>1
  <2> QED BY <1>1, <2>1 DEF Hooked, Free, WorkOK, Work, HooksIn
<1>2. CASE hooks # <<>>
  BY <1>2 DEF Hooked, WorkOK, Work, HooksIn, HookListOK
<1> QED BY <1>1, <1>2

(* The hooks that are left when the first one is done.                        *)
LEMMA RestOK ==
  ASSUME NEW x, WorkOK(x), x.at = "hooks"
  PROVE  LET y == Hooked(Tail(x.hooks), x.of) IN
         /\ WorkOK(y) /\ y.at \in {"free", "hooks"}
         /\ Head(x.hooks) \in HooksIn(x)
         /\ HooksIn(x) = HooksIn(y) \cup {Head(x.hooks)}
         /\ x.of \in Task \cup {NoTask}
         /\ HooksIn(x) \subseteq Hook
         /\ x.of # NoTask => x.of.task = "announce"
<1> DEFINE s == x.hooks
<1>1. s \in Seq(Hook) /\ s # <<>> /\ x.of \in Task \cup {NoTask} /\ HookListOK(s, x.of)
  BY DEF WorkOK, Work, HookListOK
<1>2. Tail(s) = <<>> \/ HookListOK(Tail(s), x.of) BY <1>1, TailOK
<1>3. /\ Head(s) = s[1] /\ Tail(s) \in Seq(Hook)
      /\ DOMAIN s = 1..Len(s) /\ Len(s) \in Nat /\ Len(s) >= 1
      /\ DOMAIN Tail(s) = 1..(Len(s) - 1)
      /\ \A i \in DOMAIN Tail(s): Tail(s)[i] = s[i + 1]
  BY <1>1, TailFacts
<1>4. {s[i] : i \in DOMAIN s} = {Tail(s)[i] : i \in DOMAIN Tail(s)} \cup {s[1]}
  <2>1. ASSUME NEW i \in DOMAIN s
        PROVE  s[i] = s[1] \/ \E j \in DOMAIN Tail(s): s[i] = Tail(s)[j]
    <3>1. CASE i = 1 BY <3>1
    <3>2. CASE i # 1
      <4>1. i - 1 \in DOMAIN Tail(s) BY <1>3, <3>2
      <4>2. Tail(s)[i - 1] = s[i] BY <1>3, <4>1
      <4> QED BY <4>1, <4>2
    <3> QED BY <3>1, <3>2
  <2>2. ASSUME NEW j \in DOMAIN Tail(s)
        PROVE  \E i \in DOMAIN s: Tail(s)[j] = s[i]
    <3>1. j + 1 \in DOMAIN s BY <1>3
    <3> QED BY <1>3, <3>1
  <2>3. 1 \in DOMAIN s BY <1>3
  <2> QED BY <2>1, <2>2, <2>3
<1>5. HooksIn(x) = {s[i] : i \in DOMAIN s} BY DEF HooksIn
<1>6. HooksIn(x) \subseteq Hook BY <1>1, <1>3, <1>5
<1>7. x.of # NoTask => x.of.task = "announce" BY <1>1 DEF HookListOK
<1> QED BY <1>1, <1>2, <1>3, <1>4, <1>5, <1>6, <1>7, HookedOK

(* The lists that requests and tasks begin with.                             *)
HooksOf(hooks) == {hooks[i] : i \in DOMAIN hooks}

LEMMA Singles ==
  ASSUME NEW h \in Hook
  PROVE  /\ HookListOK(<<h>>, NoTask) /\ HooksOf(<<h>>) = {h}
         /\ <<h>> # <<>>
<1>1. <<h>> \in Seq(Hook) /\ <<h>> # <<>> /\ DOMAIN <<h>> = {1} /\ <<h>>[1] = h
  OBVIOUS
<1> HIDE DEF Hook
<1> QED BY <1>1 DEF HookListOK, HooksOf

LEMMA ListOK ==
  ASSUME NEW hooks, hooks \in Seq(Hook), hooks # <<>>,
         \A i \in DOMAIN hooks: hooks[i].do # "tell",
         \A i, j \in DOMAIN hooks:
           i < j /\ hooks[i].do # "mail" => Silenced(hooks[j]) \subseteq Silenced(hooks[i])
  PROVE  HookListOK(hooks, NoTask)
BY DEF HookListOK

LEMMA Pair ==
  ASSUME NEW S, NEW a \in S, NEW b \in S
  PROVE  <<a>> \o <<b>> = <<a, b>>
<1> DEFINE s == <<a>> \o <<b>>
<1>1. /\ <<a>> \in Seq(S) /\ <<b>> \in Seq(S) /\ Len(<<a>>) = 1 /\ Len(<<b>>) = 1
      /\ <<a>>[1] = a /\ <<b>>[1] = b
  OBVIOUS
<1>2. s \in Seq(S) /\ Len(s) = 2 /\ s[1] = a /\ s[2] = b
  BY <1>1, ConcatProperties
<1>3. /\ <<a, b>> \in Seq(S) /\ Len(<<a, b>>) = 2
      /\ <<a, b>>[1] = a /\ <<a, b>>[2] = b
  OBVIOUS
<1>4. \A i \in 1..2: s[i] = <<a, b>>[i] BY <1>2, <1>3
<1> HIDE DEF s
<1>5. s = <<a, b>> BY <1>2, <1>3, <1>4, SeqEqual
<1> QED BY <1>5 DEF s

LEMMA Triple ==
  ASSUME NEW S, NEW a \in S, NEW b \in S, NEW c \in S
  PROVE  <<a>> \o <<b>> \o <<c>> = <<a, b, c>>
<1> DEFINE s == <<a, b>> \o <<c>>
<1>1. /\ <<a, b>> \in Seq(S) /\ <<c>> \in Seq(S) /\ Len(<<a, b>>) = 2 /\ Len(<<c>>) = 1
      /\ <<a, b>>[1] = a /\ <<a, b>>[2] = b /\ <<c>>[1] = c
  OBVIOUS
<1>2. s \in Seq(S) /\ Len(s) = 3 /\ s[1] = a /\ s[2] = b /\ s[3] = c
  BY <1>1, ConcatProperties
<1>3. /\ <<a, b, c>> \in Seq(S) /\ Len(<<a, b, c>>) = 3
      /\ <<a, b, c>>[1] = a /\ <<a, b, c>>[2] = b /\ <<a, b, c>>[3] = c
  OBVIOUS
<1>4. \A i \in 1..3: s[i] = <<a, b, c>>[i] BY <1>2, <1>3
<1> HIDE DEF s
<1>5. s = <<a, b, c>> BY <1>2, <1>3, <1>4, SeqEqual
<1> QED BY <1>5, Pair DEF s

LEMMA RegistrationList ==
  ASSUME NEW u \in People, NEW s \in Statuses, NEW p \in Plans, NEW b \in BOOLEAN
  PROVE  LET hooks == RegistrationHooks(u, s, p, b)
             n == Notice("registration", 0, {u})
             o == Notice("organizers", 0, {})
         IN
         /\ HookListOK(hooks, NoTask)
         /\ HooksOf(hooks) \subseteq {Enqueue(Deliver(n)), Mail(u, s, {p}), Enqueue(Deliver(o))}
         /\ Mail(u, s, {p}) \in HooksOf(hooks)
         /\ n \in Notification /\ o \in Notification
<1> DEFINE n == Notice("registration", 0, {u})
           o == Notice("organizers", 0, {})
           en == Enqueue(Deliver(n))
           eo == Enqueue(Deliver(o))
           mail == Mail(u, s, {p})
<1>1. 0 \in Plans BY NoticesAssumption DEF NoticesAssumption, Plans
<1>2. n \in Notification /\ o \in Notification
  BY <1>1 DEF Notice, Notification
<1>3. en \in Hook /\ eo \in Hook /\ mail \in Hook
  BY <1>2 DEF Enqueue, Deliver, Hook, Task, Mail
<1>4. /\ Silenced(en) = {u} /\ Silenced(eo) = {} /\ Silenced(mail) = {u}
      /\ mail.do = "mail" /\ en.do = "enqueue" /\ eo.do = "enqueue"
  BY DEF Silenced, Enqueue, Deliver, Mail, Notice
<1> DEFINE hooks == RegistrationHooks(u, s, p, b)
<1>5. hooks \in {<<mail>>, <<en, mail>>, <<mail, eo>>, <<en, mail, eo>>}
  <2> HIDE DEF en, mail, eo
  <2>1. <<>> \o <<mail>> \o <<>> = <<mail>> BY <1>3, ConcatEmptySeq
  <2>2. <<en>> \o <<mail>> \o <<>> = <<en, mail>>
    <3>1. <<en, mail>> \in Seq(Hook) BY <1>3
    <3> QED BY <1>3, <3>1, Pair, ConcatEmptySeq
  <2>3. <<>> \o <<mail>> \o <<eo>> = <<mail, eo>>
    <3>1. <<mail>> \in Seq(Hook) BY <1>3
    <3> QED BY <1>3, <3>1, Pair, ConcatEmptySeq
  <2>4. <<en>> \o <<mail>> \o <<eo>> = <<en, mail, eo>> BY <1>3, Triple
  <2> QED BY <2>1, <2>2, <2>3, <2>4 DEF RegistrationHooks, PushIf, en, eo, mail, n, o
<1> HIDE DEF en, mail, eo, hooks, n, o
<1>6. /\ HookListOK(hooks, NoTask) /\ mail \in HooksOf(hooks)
      /\ HooksOf(hooks) \subseteq {en, mail, eo}
  <2>1. CASE hooks = <<mail>>
    BY <1>3, <2>1, Singles
  <2>2. CASE hooks = <<en, mail>>
    <3>1. hooks \in Seq(Hook) /\ DOMAIN hooks = {1, 2} /\ hooks[1] = en /\ hooks[2] = mail
      BY <1>3, <2>2
    <3>2. HooksOf(hooks) = {en, mail} BY <3>1 DEF HooksOf
    <3>3. \A i, j \in {1, 2}: i < j => i = 1 /\ j = 2 OBVIOUS
    <3>4. Silenced(mail) \subseteq Silenced(en) BY <1>4
    <3>5. hooks # <<>> BY <2>2
    <3>6. HookListOK(hooks, NoTask)
      BY <1>4, <3>1, <3>3, <3>4, <3>5, ListOK
    <3> QED BY <3>2, <3>6
  <2>3. CASE hooks = <<mail, eo>>
    <3>1. hooks \in Seq(Hook) /\ DOMAIN hooks = {1, 2} /\ hooks[1] = mail /\ hooks[2] = eo
      BY <1>3, <2>3
    <3>2. HooksOf(hooks) = {mail, eo} BY <3>1 DEF HooksOf
    <3>3. \A i, j \in {1, 2}: i < j => i = 1 /\ j = 2 OBVIOUS
    <3>4. hooks # <<>> BY <2>3
    <3>5. HookListOK(hooks, NoTask)
      BY <1>4, <3>1, <3>3, <3>4, ListOK
    <3> QED BY <3>2, <3>5
  <2>4. CASE hooks = <<en, mail, eo>>
    <3>1. /\ hooks \in Seq(Hook) /\ DOMAIN hooks = {1, 2, 3}
          /\ hooks[1] = en /\ hooks[2] = mail /\ hooks[3] = eo
      BY <1>3, <2>4
    <3>2. /\ mail \in HooksOf(hooks)
          /\ HooksOf(hooks) \subseteq {en, mail, eo}
      <4>1. HooksOf(hooks) = {hooks[i] : i \in {1, 2, 3}} BY <3>1 DEF HooksOf
      <4>2. mail \in {hooks[i] : i \in {1, 2, 3}} BY <3>1
      <4>3. \A i \in {1, 2, 3}: hooks[i] \in {en, mail, eo} BY <3>1
      <4> QED BY <4>1, <4>2, <4>3
    <3>3. ASSUME NEW i \in {1, 2, 3}, NEW j \in {1, 2, 3},
                 i < j, hooks[i].do # "mail"
          PROVE  Silenced(hooks[j]) \subseteq Silenced(hooks[i])
      <4>1. i = 1 BY <1>4, <3>1, <3>3
      <4> QED BY <1>4, <3>1, <3>3, <4>1
    <3>4. hooks # <<>> BY <2>4
    <3>5. HookListOK(hooks, NoTask) BY <1>4, <3>1, <3>3, <3>4, ListOK
    <3> QED BY <3>2, <3>5
  <2> QED BY <1>5, <2>1, <2>2, <2>3, <2>4
<1> QED BY <1>2, <1>6 DEF en, mail, eo, hooks, n, o

LEMMA DecisionList ==
  ASSUME NEW u \in People
  PROVE  LET n == Notice("decision", 0, {u})
             hooks == PushIf(u \in willing, n) \o <<Mail(u, "decided", {})>>
         IN
         /\ HookListOK(hooks, NoTask)
         /\ HooksOf(hooks) \subseteq {Enqueue(Deliver(n)), Mail(u, "decided", {})}
         /\ Mail(u, "decided", {}) \in HooksOf(hooks)
         /\ n \in Notification
<1> DEFINE n == Notice("decision", 0, {u})
           en == Enqueue(Deliver(n))
           mail == Mail(u, "decided", {})
           hooks == PushIf(u \in willing, n) \o <<mail>>
<1>1. n \in Notification
  BY NoticesAssumption DEF NoticesAssumption, Plans, Notice, Notification
<1>2. en \in Hook /\ mail \in Hook
  BY <1>1 DEF Enqueue, Deliver, Hook, Task, Mail
<1>3. /\ Silenced(en) = {u} /\ Silenced(mail) = {u}
      /\ mail.do = "mail" /\ en.do = "enqueue"
  BY DEF Silenced, Enqueue, Deliver, Mail, Notice
<1>4. hooks \in {<<mail>>, <<en, mail>>}
  <2> HIDE DEF en, mail, n
  <2>1. <<>> \o <<mail>> = <<mail>> OBVIOUS
  <2>2. <<en>> \o <<mail>> = <<en, mail>> BY <1>2, Pair
  <2> QED BY <2>1, <2>2 DEF PushIf, en
<1> HIDE DEF en, mail, hooks, n
<1>5. /\ HookListOK(hooks, NoTask) /\ mail \in HooksOf(hooks)
      /\ HooksOf(hooks) \subseteq {en, mail}
  <2>1. CASE hooks = <<mail>>
    BY <1>2, <2>1, Singles
  <2>2. CASE hooks = <<en, mail>>
    <3>1. hooks \in Seq(Hook) /\ DOMAIN hooks = {1, 2} /\ hooks[1] = en /\ hooks[2] = mail
      BY <1>2, <2>2
    <3>2. HooksOf(hooks) = {en, mail} BY <3>1 DEF HooksOf
    <3>3. \A k, l \in {1, 2}: k < l => k = 1 /\ l = 2 OBVIOUS
    <3>4. hooks # <<>> BY <2>2
    <3>5. HookListOK(hooks, NoTask)
      BY <1>3, <3>1, <3>3, <3>4, ListOK
    <3> QED BY <3>2, <3>5
  <2> QED BY <1>4, <2>1, <2>2
<1> QED BY <1>1, <1>5 DEF en, mail, hooks, n

LEMMA AnnounceList ==
  ASSUME NEW t \in Task, t.task = "announce", NEW R \in SUBSET People, NEW b \in BOOLEAN
  PROVE  LET n == Notice("times", t.plan, R)
             hooks == PushIf(b, n) \o <<Enqueue(Mails(R, t.plan))>>
         IN
         /\ HookListOK(hooks, t)
         /\ HooksOf(hooks) \subseteq {Enqueue(Deliver(n)), Enqueue(Mails(R, t.plan))}
         /\ Enqueue(Mails(R, t.plan)) \in HooksOf(hooks)
         /\ n \in Notification
<1> DEFINE n == Notice("times", t.plan, R)
           en == Enqueue(Deliver(n))
           em == Enqueue(Mails(R, t.plan))
           hooks == PushIf(b, n) \o <<em>>
<1>0. t.plan \in Plans /\ t # NoTask BY TaskForms
<1>1. n \in Notification
  BY <1>0 DEF Notice, Notification
<1>2. en \in Hook /\ em \in Hook
  BY <1>0, <1>1 DEF Enqueue, Deliver, Mails, Hook, Task
<1>3. /\ en.do = "enqueue" /\ en.task.task = "deliver"
      /\ em.do = "enqueue" /\ em.task.task = "mails" /\ em.task.plan = t.plan
  BY DEF Enqueue, Deliver, Mails
<1>4. hooks \in {<<em>>, <<en, em>>}
  <2> HIDE DEF en, em, n
  <2>1. <<>> \o <<em>> = <<em>> OBVIOUS
  <2>2. <<en>> \o <<em>> = <<en, em>> BY <1>2, Pair
  <2> QED BY <2>1, <2>2 DEF PushIf, en
<1> HIDE DEF en, em, hooks, n
<1>5. /\ HookListOK(hooks, t) /\ em \in HooksOf(hooks)
      /\ HooksOf(hooks) \subseteq {en, em}
  <2>1. CASE hooks = <<em>>
    <3>1. hooks \in Seq(Hook) /\ hooks # <<>> /\ DOMAIN hooks = {1} /\ hooks[1] = em
      BY <1>2, <2>1
    <3> QED BY <1>0, <1>3, <3>1 DEF HookListOK, HooksOf
  <2>2. CASE hooks = <<en, em>>
    <3>1. /\ hooks \in Seq(Hook) /\ hooks # <<>> /\ DOMAIN hooks = {1, 2}
          /\ hooks[1] = en /\ hooks[2] = em
      BY <1>2, <2>2
    <3> QED BY <1>0, <1>3, <3>1 DEF HookListOK, HooksOf
  <2> QED BY <1>4, <2>1, <2>2
<1> QED BY <1>1, <1>5 DEF en, em, hooks, n

LEMMA WorkForms ==
  ASSUME NEW x \in Work
  PROVE  /\ x.at \in {"free", "passed", "counting", "expired", "accepted",
                      "deciding", "hooks", "announcing"}
         /\ x.at = "free" => x = Free
         /\ x.at = "deciding" =>
              x \in [at: {"deciding"}, user: People, status: {"in", "waiting"}, plan: Plans]
         /\ x.at = "hooks" =>
              x \in [at: {"hooks"}, hooks: Seq(Hook), of: Task \cup {NoTask}]
         /\ x.at = "announcing" =>
              x \in [at: {"announcing"}, of: Task, to: SUBSET People]
BY DEF Work, Free
------------------------------------------------------------------------------
(* What one worker's step does to the work of all.                           *)
Others(w) == \A v \in Crew \ {w}: work'[v] = work[v]

LEMMA OneWorker ==
  ASSUME WorkersOK, NEW w \in Crew, NEW new, WorkOK(new),
         work' = [work EXCEPT ![w] = new]
  PROVE  WorkersOK' /\ Others(w) /\ work'[w] = new
<1>1. new \in Work BY DEF WorkOK
<1>2. work \in [Crew -> Work] BY DEF WorkersOK
<1>3. /\ work' \in [Crew -> Work] /\ work'[w] = new
      /\ \A v \in Crew \ {w}: work'[v] = work[v]
  BY <1>1, <1>2
<1>4. \A v \in Crew: WorkOK(work'[v]) BY <1>3 DEF WorkersOK
<1> QED BY <1>3, <1>4 DEF WorkersOK, Others

LEMMA PlainWork ==
  /\ WorkOK(Free) /\ HooksIn(Free) = {}
  /\ \A at \in {"free", "passed", "counting", "expired", "accepted"}:
       WorkOK([at |-> at]) /\ HooksIn([at |-> at]) = {}
BY DEF WorkOK, Free, HooksIn, Work

(* A worker goes on to the next hook.                                         *)
LEMMA HookDone ==
  ASSUME WorkersOK, NEW w \in Crew, work[w].at = "hooks", NextHook(w)
  PROVE  LET h == Head(work[w].hooks) IN
         /\ WorkersOK' /\ Others(w) /\ work'[w].at \in {"free", "hooks"}
         /\ h \in Hook
         /\ HooksIn(work[w]) = HooksIn(work'[w]) \cup {h}
<1> DEFINE x == work[w]
           y == Hooked(Tail(x.hooks), x.of)
<1>1. WorkOK(x) BY DEF WorkersOK
<1>2. /\ WorkOK(y) /\ y.at \in {"free", "hooks"}
      /\ HooksIn(x) = HooksIn(y) \cup {Head(x.hooks)}
      /\ HooksIn(x) \subseteq Hook
  BY <1>1, RestOK
<1>3. work' = [work EXCEPT ![w] = y]
  BY DEF NextHook, WorkersOK
<1> HIDE DEF y
<1>4. WorkersOK' /\ Others(w) /\ work'[w] = y BY <1>2, <1>3, OneWorker
<1> QED BY <1>2, <1>4

(* A worker begins a list of hooks.                                          *)
LEMMA HooksBegun ==
  ASSUME WorkersOK, NEW w \in Crew, NEW hooks, NEW t \in Task \cup {NoTask},
         hooks = <<>> \/ HookListOK(hooks, t),
         work' = [work EXCEPT ![w] = Hooked(hooks, t)]
  PROVE  /\ WorkersOK' /\ Others(w) /\ work'[w].at \in {"free", "hooks"}
         /\ HooksIn(work'[w]) = HooksOf(hooks)
<1> DEFINE new == Hooked(hooks, t)
<1>1. WorkOK(new) /\ HooksIn(new) = HooksOf(hooks) /\ new.at \in {"free", "hooks"}
  BY HookedOK DEF HooksOf
<1> HIDE DEF new
<1>2. work' = [work EXCEPT ![w] = new] BY DEF new
<1>3. WorkersOK' /\ Others(w) /\ work'[w] = new BY <1>1, <1>2, OneWorker
<1> QED BY <1>1, <1>3
------------------------------------------------------------------------------
(* What each kind of step does to the hooks of its worker.                   *)
LEMMA RegisterHooks ==
  ASSUME NoticeTypeOK, WorkersOK, NEW w \in Crew, NEW u \in People, Register(w, u)
  PROVE  /\ WorkersOK' /\ Others(w) /\ work[w] = Free
         /\ HooksIn(work'[w]) = {} /\ work'[w].at = "deciding"
         /\ work'[w].plan = plan
<1>1. PICK s \in {"in", "waiting"}:
        work[w] = Free /\ work' = [work EXCEPT ![w] = Deciding(u, s)]
  BY DEF Register
<1>2. WorkOK(Deciding(u, s)) /\ HooksIn(Deciding(u, s)) = {}
  BY DEF NoticeTypeOK, WorkOK, Work, Deciding, HooksIn
<1>3. WorkersOK' /\ Others(w) /\ work'[w] = Deciding(u, s)
  BY <1>1, <1>2, OneWorker
<1> QED BY <1>1, <1>2, <1>3 DEF Deciding

LEMMA RegisterCommitHooks ==
  ASSUME NoticeTypeOK, WorkersOK, NEW w \in Crew, RegisterCommit(w)
  PROVE  LET c == work[w]
             n == Notice("registration", 0, {c.user})
             o == Notice("organizers", 0, {})
         IN
         /\ WorkersOK' /\ Others(w) /\ work'[w].at \in {"free", "hooks"}
         /\ c.user \in People /\ c.status \in {"in", "waiting"} /\ c.plan \in Plans
         /\ HooksIn(c) = {}
         /\ HooksIn(work'[w]) \subseteq
              {Enqueue(Deliver(n)), Mail(c.user, c.status, {c.plan}), Enqueue(Deliver(o))}
         /\ Mail(c.user, c.status, {c.plan}) \in HooksIn(work'[w])
         /\ n \in Notification /\ o \in Notification
<1> DEFINE c == work[w]
<1>1. PICK b \in BOOLEAN:
        /\ c.at = "deciding"
        /\ work' = [work EXCEPT ![w] = Hooked(
             RegistrationHooks(c.user, c.status, c.plan, b), NoTask)]
  BY DEF RegisterCommit
<1>2. c \in Work BY DEF NoticeTypeOK
<1>3. /\ c.user \in People /\ c.status \in {"in", "waiting"} /\ c.plan \in Plans
      /\ HooksIn(c) = {}
  BY <1>1, <1>2, WorkForms DEF HooksIn
<1>4. c.status \in Statuses BY <1>3 DEF Statuses
<1> DEFINE hooks == RegistrationHooks(c.user, c.status, c.plan, b)
           n == Notice("registration", 0, {c.user})
           o == Notice("organizers", 0, {})
<1>5. /\ HookListOK(hooks, NoTask)
      /\ HooksOf(hooks) \subseteq
           {Enqueue(Deliver(n)), Mail(c.user, c.status, {c.plan}), Enqueue(Deliver(o))}
      /\ Mail(c.user, c.status, {c.plan}) \in HooksOf(hooks)
      /\ n \in Notification /\ o \in Notification
  BY <1>3, <1>4, RegistrationList
<1>6. work' = [work EXCEPT ![w] = Hooked(hooks, NoTask)] BY <1>1
<1> HIDE DEF hooks, n, o, c
<1>7. /\ WorkersOK' /\ Others(w) /\ work'[w].at \in {"free", "hooks"}
      /\ HooksIn(work'[w]) = HooksOf(hooks)
  BY <1>5, <1>6, HooksBegun
<1> QED BY <1>3, <1>5, <1>7 DEF c, n, o

(* A request that leaves a single hook.                                      *)
LEMMA OneHookBegun ==
  ASSUME WorkersOK, NEW w \in Crew, NEW h \in Hook, work[w] = Free,
         work' = [work EXCEPT ![w] = Hooked(<<h>>, NoTask)]
  PROVE  /\ WorkersOK' /\ Others(w) /\ work'[w].at \in {"free", "hooks"}
         /\ HooksIn(work[w]) = {} /\ HooksIn(work'[w]) = {h}
BY HooksBegun, Singles, PlainWork

LEMMA RunTellHooks ==
  ASSUME NoticeTypeOK, WorkersOK, NEW w \in Crew, RunTell(w)
  PROVE  LET u == Head(work[w].hooks).user
             n == Notice("decision", 0, {u})
         IN
         /\ WorkersOK' /\ Others(w) /\ work'[w].at \in {"free", "hooks"}
         /\ u \in People /\ n \in Notification
         /\ HooksIn(work'[w]) \subseteq {Enqueue(Deliver(n)), Mail(u, "decided", {})}
         /\ Mail(u, "decided", {}) \in HooksIn(work'[w])
         /\ HooksIn(work[w]) = {Tell(u)}
<1> DEFINE x == work[w]
           u == Head(x.hooks).user
           n == Notice("decision", 0, {u})
           hooks == PushIf(u \in willing, n) \o <<Mail(u, "decided", {})>>
<1>1. /\ x.at = "hooks" /\ Head(x.hooks).do = "tell"
      /\ work' = [work EXCEPT ![w] = Hooked(hooks, NoTask)]
  BY DEF RunTell, Running
<1>2. WorkOK(x) BY DEF WorkersOK
<1>3. /\ HookListOK(x.hooks, x.of) /\ Head(x.hooks) \in Hook
  BY <1>1, <1>2, RestOK DEF WorkOK
<1>4. u \in People /\ Head(x.hooks) = Tell(u)
  BY <1>1, <1>3, HookForms DEF Tell
<1>5. /\ HookListOK(hooks, NoTask)
      /\ HooksOf(hooks) \subseteq {Enqueue(Deliver(n)), Mail(u, "decided", {})}
      /\ Mail(u, "decided", {}) \in HooksOf(hooks)
      /\ n \in Notification
  BY <1>4, DecisionList
<1>6. HooksIn(x) = {Tell(u)}
  <2>1. /\ x.hooks \in Seq(Hook) /\ x.hooks # <<>> /\ Head(x.hooks) = x.hooks[1]
        /\ DOMAIN x.hooks = 1..Len(x.hooks) /\ Len(x.hooks) \in Nat /\ Len(x.hooks) >= 1
    BY <1>3, TailFacts DEF HookListOK
  <2>2. Len(x.hooks) = 1 BY <1>1, <1>3, <2>1 DEF HookListOK
  <2>3. HooksIn(x) = {x.hooks[i] : i \in {1}} BY <1>1, <2>1, <2>2 DEF HooksIn
  <2> QED BY <1>4, <2>1, <2>3
<1> HIDE DEF hooks, n, u
<1>7. /\ WorkersOK' /\ Others(w) /\ work'[w].at \in {"free", "hooks"}
      /\ HooksIn(work'[w]) = HooksOf(hooks)
  BY <1>1, <1>5, HooksBegun
<1> QED BY <1>4, <1>5, <1>6, <1>7 DEF u, n

LEMMA AnnounceRowsHooks ==
  ASSUME NoticeTypeOK, WorkersOK, NEW w \in Crew, AnnounceRows(w)
  PROVE  LET c == work[w]
             n == Notice("times", c.of.plan, c.to)
         IN
         /\ WorkersOK' /\ Others(w) /\ work'[w].at \in {"free", "hooks"}
         /\ n \in Notification /\ HooksIn(c) = {} /\ c.to \subseteq People
         /\ HooksIn(work'[w]) \subseteq
              {Enqueue(Deliver(n)), Enqueue(Mails(c.to, c.of.plan))}
         /\ Enqueue(Mails(c.to, c.of.plan)) \in HooksIn(work'[w])
<1> DEFINE c == work[w]
           n == Notice("times", c.of.plan, c.to)
           b == c.to \cap willing # {}
           hooks == PushIf(b, n) \o <<Enqueue(Mails(c.to, c.of.plan))>>
<1>1. c.at = "announcing" /\ work' = [work EXCEPT ![w] = Hooked(hooks, c.of)]
  BY DEF AnnounceRows
<1>2. WorkOK(c) BY DEF WorkersOK
<1>3. c \in Work /\ c.of.task = "announce" BY <1>1, <1>2 DEF WorkOK
<1>4. c.of \in Task /\ c.to \in SUBSET People /\ HooksIn(c) = {}
  BY <1>1, <1>3, WorkForms DEF HooksIn
<1>5. /\ HookListOK(hooks, c.of)
      /\ HooksOf(hooks) \subseteq
           {Enqueue(Deliver(n)), Enqueue(Mails(c.to, c.of.plan))}
      /\ Enqueue(Mails(c.to, c.of.plan)) \in HooksOf(hooks)
      /\ n \in Notification
  <2> HIDE DEF c
  <2>1. b \in BOOLEAN OBVIOUS
  <2> HIDE DEF b
  <2> QED BY <1>3, <1>4, <2>1, AnnounceList
<1> HIDE DEF hooks, n, c
<1>6. /\ WorkersOK' /\ Others(w) /\ work'[w].at \in {"free", "hooks"}
      /\ HooksIn(work'[w]) = HooksOf(hooks)
  BY <1>1, <1>4, <1>5, HooksBegun
<1> QED BY <1>4, <1>5, <1>6 DEF c, n

(* Steps that leave the worker no hook.                                      *)
LEMMA PlainStep ==
  ASSUME WorkersOK, NEW w \in Crew,
         NEW at \in {"free", "passed", "counting", "expired", "accepted"},
         work' = [work EXCEPT ![w] = [at |-> at]]
  PROVE  /\ WorkersOK' /\ Others(w) /\ HooksIn(work'[w]) = {}
         /\ work'[w] = [at |-> at]
BY PlainWork, OneWorker

LEMMA StartAnnounceHooks ==
  ASSUME NoticeTypeOK, WorkersOK, NEW w \in Crew, NEW t \in queue, StartAnnounce(w, t)
  PROVE  /\ WorkersOK' /\ Others(w) /\ HooksIn(work'[w]) = {} /\ work[w] = Free
         /\ \/ Attending = {} /\ work'[w] = Free
            \/ work'[w] = [at |-> "announcing", of |-> t, to |-> Attending]
<1> DEFINE a == [at |-> "announcing", of |-> t, to |-> Attending]
<1>1. t \in Task /\ t.task = "announce" /\ work[w] = Free
  BY DEF NoticeTypeOK, StartAnnounce
<1>2. Attending \subseteq People BY DEF Attending
<1>3. WorkOK(a) /\ HooksIn(a) = {}
  BY <1>1, <1>2 DEF WorkOK, Work, HooksIn
<1>4. work' = [work EXCEPT ![w] = IF Attending = {} THEN Free ELSE a]
  BY DEF StartAnnounce
<1> HIDE DEF a
<1>5. CASE Attending = {}
  <2>1. work' = [work EXCEPT ![w] = Free] BY <1>4, <1>5
  <2> QED BY <1>1, <1>5, <2>1, PlainWork, OneWorker
<1>6. CASE Attending # {}
  <2>1. work' = [work EXCEPT ![w] = a] BY <1>4, <1>6
  <2>2. WorkersOK' /\ Others(w) /\ work'[w] = a BY <1>3, <2>1, OneWorker
  <2> QED BY <1>1, <1>3, <2>2 DEF a
<1> QED BY <1>5, <1>6
------------------------------------------------------------------------------
(* The inductive invariant.  The rows of a delivery that is in the queue, or  *)
(* that a hook will put there, are committed.                                *)
Ready(t, box) == t.task = "deliver" => t.notice \in box

RowsFirst ==
  /\ \A t \in queue: Ready(t, inbox)
  /\ \A w \in Crew: \A h \in HooksIn(work[w]): h.do = "enqueue" => Ready(h.task, inbox)

(* A registration under way holds the event's row: the times stay as it read  *)
(* them.                                                                    *)
TimesHeld == \A w \in Crew: work[w].at = "deciding" => work[w].plan = plan

(* Where the mail about the times p is on its way to u.                      *)
Carries(t, u, p) ==
  \/ t.task = "announce" /\ t.plan = p
  \/ t.task = "mails" /\ t.plan = p /\ u \in t.to

HookOwes(h, u, p) ==
  \/ h.do = "mail" /\ h.user = u /\ p \in h.plans
  \/ h.do = "enqueue" /\ Carries(h.task, u, p)

WorkOwes(x, u, p) ==
  \/ x.at = "announcing" /\ x.of.plan = p /\ u \in x.to
  \/ \E h \in HooksIn(x): HookOwes(h, u, p)

TimesComing(u) ==
  (\E t \in queue: Carries(t, u, plan)) \/ (\E w \in Crew: WorkOwes(work[w], u, plan))

TimesOnTheWay ==
  \A u \in People \ excused:
    reg[u] = "in" => plan \in mailed[u] \cup restored[u] \/ TimesComing(u)

(* The hook that mails u his status s, or that leads to this mail.           *)
HookSays(h, u, s) ==
  \/ h.do = "mail" /\ h.user = u /\ h.status = s
  \/ h.do = "tell" /\ h.user = u /\ s = "decided"

OwedSaid(x) == \E h \in HooksIn(work[x.by]): HookSays(h, x.user, x.status)

OwedOnTheWay == \A x \in owed: x.user \in excused \/ OwedSaid(x)

(* What was let through and counted is within the limit.                     *)
Counted ==
  /\ rate.sent - rate.uncounted <= rate.count
  /\ rate.sent - rate.uncounted <= Limit

IInv == /\ NoticeTypeOK /\ WorkersOK /\ RowsFirst /\ TimesHeld
        /\ TimesOnTheWay /\ OwedOnTheWay /\ Counted
------------------------------------------------------------------------------
(* What a step must show for each part.                                      *)
LEMMA RowsKept ==
  ASSUME RowsFirst, inbox \subseteq inbox',
         \A t \in queue' \ queue: Ready(t, inbox'),
         \A w \in Crew: \A h \in HooksIn(work'[w]) \ HooksIn(work[w]):
           h.do = "enqueue" => Ready(h.task, inbox')
  PROVE  RowsFirst'
BY DEF RowsFirst, Ready

LEMMA HeldKept ==
  ASSUME TimesHeld, plan' = plan, NEW w \in Crew, Others(w),
         work'[w].at = "deciding" => work'[w].plan = plan
  PROVE  TimesHeld'
BY DEF TimesHeld, Others

LEMMA TimesKept ==
  ASSUME TimesOnTheWay, plan' = plan, excused \subseteq excused',
         \A u \in People: mailed[u] \subseteq mailed'[u],
         \A u \in People \ excused':
           \/ reg'[u] # "in"
           \/ plan \in mailed'[u] \cup restored'[u]
           \/ TimesComing(u)'
           \/ /\ reg[u] = "in" /\ restored[u] \subseteq restored'[u]
              /\ \A t \in queue \ queue': ~Carries(t, u, plan)
              /\ \A w \in Crew: work'[w] = work[w] \/ ~WorkOwes(work[w], u, plan)
  PROVE  TimesOnTheWay'
<1> SUFFICES ASSUME NEW u \in People \ excused', reg'[u] = "in",
                    plan \notin mailed'[u] \cup restored'[u]
             PROVE  TimesComing(u)'
  BY DEF TimesOnTheWay
<1>1. CASE TimesComing(u)' BY <1>1
<1>2. CASE /\ reg[u] = "in" /\ restored[u] \subseteq restored'[u]
           /\ \A t \in queue \ queue': ~Carries(t, u, plan)
           /\ \A w \in Crew: work'[w] = work[w] \/ ~WorkOwes(work[w], u, plan)
  <2>1. TimesComing(u) BY <1>2 DEF TimesOnTheWay
  <2>2. CASE \E t \in queue: Carries(t, u, plan)
    BY <1>2, <2>2 DEF TimesComing
  <2>3. CASE \E w \in Crew: WorkOwes(work[w], u, plan)
    BY <1>2, <2>3 DEF TimesComing
  <2> QED BY <2>1, <2>2, <2>3 DEF TimesComing
<1> QED BY <1>1, <1>2

LEMMA OwedKept ==
  ASSUME NoticeTypeOK, OwedOnTheWay, NEW w \in Crew, Others(w), excused \subseteq excused',
         \A x \in owed' \ owed: OwedSaid(x)',
         \A u \in People \ excused': \A s:
           (\E h \in HooksIn(work[w]): HookSays(h, u, s)) =>
             \/ Owed(w, u, s) \notin owed'
             \/ \E h \in HooksIn(work'[w]): HookSays(h, u, s)
  PROVE  OwedOnTheWay'
<1> SUFFICES ASSUME NEW x \in owed', x \in owed, x.user \notin excused'
             PROVE  OwedSaid(x)'
  BY DEF OwedOnTheWay
<1>1. OwedSaid(x) BY DEF OwedOnTheWay
<1>2. /\ x \in [by: Crew, user: People, status: Statuses \cup {"decided"}]
      /\ x.by \in Crew /\ x.user \in People
  BY DEF NoticeTypeOK
<1>3. CASE x.by = w
  <2>1. x = Owed(w, x.user, x.status) BY <1>2, <1>3 DEF Owed
  <2> QED BY <1>1, <1>2, <1>3, <2>1 DEF OwedSaid
<1>4. CASE x.by # w
  <2>1. work'[x.by] = work[x.by] BY <1>2, <1>4 DEF Others
  <2> QED BY <1>1, <2>1 DEF OwedSaid
<1> QED BY <1>3, <1>4

(* A hook that owes a person something silences him when it fails.            *)
LEMMA OwedSilenced ==
  ASSUME NEW h, NEW u \in People, NEW p, NEW s,
         HookOwes(h, u, p) \/ HookSays(h, u, s)
  PROVE  u \in Silenced(h)
BY DEF HookOwes, HookSays, Carries, Silenced

LEMMA HeadSilences ==
  ASSUME NEW x, WorkOK(x), x.at = "hooks", x.of = NoTask, Head(x.hooks).do # "mail"
  PROVE  \A h \in HooksIn(x): Silenced(h) \subseteq Silenced(Head(x.hooks))
<1>1. HookListOK(x.hooks, NoTask) BY DEF WorkOK
<1>2. /\ Head(x.hooks) = x.hooks[1] /\ DOMAIN x.hooks = 1..Len(x.hooks)
      /\ Len(x.hooks) \in Nat /\ Len(x.hooks) >= 1
  BY <1>1, TailFacts DEF HookListOK
<1>3. ASSUME NEW j \in DOMAIN x.hooks
      PROVE  Silenced(x.hooks[j]) \subseteq Silenced(x.hooks[1])
  <2>1. CASE j = 1 BY <2>1
  <2>2. CASE j # 1
    <3>1. 1 < j /\ 1 \in DOMAIN x.hooks BY <1>2, <2>2
    <3>2. x.hooks[1].do # "mail" BY <1>2
    <3> QED BY <1>1, <3>1, <3>2 DEF HookListOK
  <2> QED BY <2>1, <2>2
<1>4. \A h \in HooksIn(x): \E j \in DOMAIN x.hooks: h = x.hooks[j]
  BY DEF HooksIn
<1> QED BY <1>2, <1>3, <1>4

LEMMA ReachedFacts ==
  ASSUME NoticeTypeOK, NEW R \in SUBSET People, NEW p \in SUBSET Plans,
         mailed' = Reached(R, p)
  PROVE  /\ mailed' \in [People -> SUBSET Plans]
         /\ \A u \in People: mailed[u] \subseteq mailed'[u]
         /\ \A u \in R: p \subseteq mailed'[u]
BY DEF NoticeTypeOK, Reached
------------------------------------------------------------------------------
(* Requests keep the invariant.                                              *)
LEMMA KeptByRegister ==
  ASSUME IInv, NEW w \in Crew, NEW u \in People, Register(w, u)
  PROVE  IInv'
<1>1. UNCHANGED <<plan, reg, ticketed, restored, willing, decided, queue, inbox,
                  mailed, owed, excused, rate, asked>>
  BY DEF Register, told, seats, broadcasts
<1>2. /\ WorkersOK' /\ Others(w) /\ work[w] = Free /\ HooksIn(work'[w]) = {}
      /\ work'[w].at = "deciding" /\ work'[w].plan = plan
  BY RegisterHooks DEF IInv
<1>3. HooksIn(work[w]) = {} /\ work[w].at = "free" BY <1>2, PlainWork DEF Free
<1>4. NoticeTypeOK' BY <1>1, <1>2 DEF IInv, NoticeTypeOK, WorkersOK
<1>5. RowsFirst' BY <1>1, <1>2, RowsKept DEF IInv, Others
<1>6. TimesHeld' BY <1>1, <1>2, HeldKept DEF IInv
<1>7. TimesOnTheWay'
  <2>1. \A v: ~WorkOwes(work[w], v, plan) BY <1>3 DEF WorkOwes
  <2> QED BY <1>1, <1>2, <2>1, TimesKept DEF IInv, Others
<1>8. OwedOnTheWay' BY <1>1, <1>2, <1>3, OwedKept DEF IInv
<1>9. Counted' BY <1>1 DEF IInv, Counted
<1> QED BY <1>2, <1>4, <1>5, <1>6, <1>7, <1>8, <1>9 DEF IInv

LEMMA KeptByRegisterCommit ==
  ASSUME IInv, NEW w \in Crew, RegisterCommit(w)
  PROVE  IInv'
<1> DEFINE c == work[w]
           n == Notice("registration", 0, {c.user})
           o == Notice("organizers", 0, {})
           mail == Mail(c.user, c.status, {c.plan})
<1>1. /\ UNCHANGED <<plan, willing, decided, queue, mailed, excused, rate, asked>>
      /\ reg' = [reg EXCEPT ![c.user] = c.status] /\ inbox' = inbox \cup {n, o}
      /\ restored' = [restored EXCEPT ![c.user] = {}]
      /\ ticketed' \in {ticketed, ticketed \cup {c.user}}
      /\ owed' = owed \cup {Owed(w, c.user, c.status)}
      /\ c.at = "deciding"
  BY DEF RegisterCommit, seats, broadcasts
<1>2. /\ WorkersOK' /\ Others(w) /\ work'[w].at \in {"free", "hooks"}
      /\ c.user \in People /\ c.status \in {"in", "waiting"} /\ c.plan \in Plans
      /\ HooksIn(c) = {}
      /\ HooksIn(work'[w]) \subseteq {Enqueue(Deliver(n)), mail, Enqueue(Deliver(o))}
      /\ mail \in HooksIn(work'[w])
      /\ n \in Notification /\ o \in Notification
  BY RegisterCommitHooks DEF IInv
<1>3. NoticeTypeOK'
  <2>1. c.status \in Statuses BY <1>2 DEF Statuses
  <2>2. Owed(w, c.user, c.status) \in [by: Crew, user: People, status: Statuses \cup {"decided"}]
    BY <1>2, <2>1 DEF Owed
  <2> HIDE DEF c
  <2>3. reg' \in [People -> Statuses \cup {"none"}] /\ restored' \in [People -> SUBSET Plans]
    BY <1>1, <2>1 DEF IInv, NoticeTypeOK
  <2> HIDE DEF n, o
  <2>4. ticketed' \subseteq People BY <1>1, <1>2 DEF IInv, NoticeTypeOK
  <2> QED BY <1>1, <1>2, <2>2, <2>3, <2>4 DEF IInv, NoticeTypeOK, WorkersOK
<1>4. /\ \A v \in People: v # c.user => reg'[v] = reg[v] /\ restored'[v] = restored[v]
      /\ reg'[c.user] = c.status
  <2>1. reg \in [People -> Statuses \cup {"none"}] /\ restored \in [People -> SUBSET Plans]
    BY DEF IInv, NoticeTypeOK
  <2> HIDE DEF c
  <2> QED BY <1>1, <1>2, <2>1
<1>5. RowsFirst'
  <2>1. ASSUME NEW h \in HooksIn(work'[w]), h.do = "enqueue"
        PROVE  Ready(h.task, inbox')
    <3>1. mail.do # "enqueue" BY DEF Mail
    <3>2. h = Enqueue(Deliver(n)) \/ h = Enqueue(Deliver(o)) BY <1>2, <2>1, <3>1
    <3>3. n \in inbox' /\ o \in inbox' BY <1>1
    <3> HIDE DEF n, o, mail, c
    <3> QED BY <3>2, <3>3 DEF Ready, Enqueue, Deliver
  <2> QED BY <1>1, <1>2, <2>1, RowsKept DEF IInv, Others
<1>6. TimesHeld' BY <1>1, <1>2, HeldKept DEF IInv
<1>7. TimesOnTheWay'
  <2>1. \A v: ~WorkOwes(c, v, plan) BY <1>1, <1>2 DEF WorkOwes
  <2>2. c.plan = plan BY <1>1 DEF IInv, TimesHeld
  <2>3. ASSUME NEW v \in People, v = c.user PROVE TimesComing(v)'
    <3>1. HookOwes(mail, c.user, plan) BY <2>2 DEF HookOwes, Mail
    <3> HIDE DEF mail, c
    <3>2. WorkOwes(work'[w], c.user, plan') BY <1>1, <1>2, <3>1 DEF WorkOwes
    <3> QED BY <2>3, <3>2 DEF TimesComing
  <2>4. \A v \in People: \/ reg'[v] # "in" \/ TimesComing(v)'
                         \/ reg[v] = "in" /\ restored[v] \subseteq restored'[v]
    BY <1>4, <2>3
  <2> HIDE DEF mail, n, o
  <2> QED BY <1>1, <1>2, <2>1, <2>4, TimesKept DEF IInv, Others
<1>8. OwedOnTheWay'
  <2>1. HookSays(mail, c.user, c.status) BY DEF HookSays, Mail
  <2>2. ASSUME NEW x \in owed' \ owed PROVE OwedSaid(x)'
    <3>1. x = Owed(w, c.user, c.status) BY <1>1, <2>2
    <3>2. x.by = w /\ x.user = c.user /\ x.status = c.status BY <3>1 DEF Owed
    <3> HIDE DEF c, mail
    <3> QED BY <1>2, <2>1, <3>2 DEF OwedSaid
  <2> HIDE DEF mail, n, o
  <2>3. \A h: h \notin HooksIn(work[w]) BY <1>2
  <2> HIDE DEF c
  <2> QED BY <1>1, <1>2, <2>2, <2>3, OwedKept DEF IInv
<1>9. Counted' BY <1>1 DEF IInv, Counted
<1> QED BY <1>2, <1>3, <1>5, <1>6, <1>7, <1>8, <1>9 DEF IInv

LEMMA KeptByCancel ==
  ASSUME IInv, NEW w \in Crew, NEW u \in People, Cancel(w, u)
  PROVE  IInv'
<1> DEFINE mail == Mail(u, "out", {})
           x == Owed(w, u, "out")
<1>1. /\ UNCHANGED <<plan, ticketed, willing, decided, queue, inbox, mailed, excused,
                     rate, asked>>
      /\ reg' = [reg EXCEPT ![u] = "out"] /\ restored' = [restored EXCEPT ![u] = {}]
      /\ owed' = owed \cup {x}
      /\ work[w] = Free /\ work' = [work EXCEPT ![w] = Hooked(<<mail>>, NoTask)]
  BY DEF Cancel, told, seats, broadcasts
<1>2. reg \in [People -> Statuses \cup {"none"}] /\ restored \in [People -> SUBSET Plans]
  BY DEF IInv, NoticeTypeOK
<1>3. /\ mail \in Hook
      /\ x \in [by: Crew, user: People, status: Statuses \cup {"decided"}]
  BY DEF Mail, Hook, Statuses, Owed
<1> HIDE DEF mail, x
<1>4. /\ WorkersOK' /\ Others(w) /\ work'[w].at \in {"free", "hooks"}
      /\ HooksIn(work[w]) = {} /\ HooksIn(work'[w]) = {mail}
  BY <1>1, <1>3, OneHookBegun DEF IInv
<1>5. /\ reg'[u] = "out"
      /\ \A v \in People: v # u => reg'[v] = reg[v] /\ restored'[v] = restored[v]
  BY <1>1, <1>2
<1>6. reg' \in [People -> Statuses \cup {"none"}] /\ restored' \in [People -> SUBSET Plans]
  BY <1>1, <1>2 DEF Statuses
<1>7. NoticeTypeOK' BY <1>1, <1>3, <1>4, <1>6 DEF IInv, NoticeTypeOK, WorkersOK
<1>8. RowsFirst'
  <2>1. mail.do = "mail" BY DEF mail, Mail
  <2> QED BY <1>1, <1>4, <2>1, RowsKept DEF IInv, Others
<1>9. TimesHeld' BY <1>1, <1>4, HeldKept DEF IInv
<1>10. TimesOnTheWay'
  <2>1. \A v: ~WorkOwes(work[w], v, plan) BY <1>1, <1>4 DEF WorkOwes, Free
  <2> QED BY <1>1, <1>4, <1>5, <2>1, TimesKept DEF IInv, Others
<1>11. OwedOnTheWay'
  <2>1. HookSays(mail, x.user, x.status) /\ x.by = w
    BY DEF HookSays, Mail, mail, Owed, x
  <2>2. OwedSaid(x)' BY <1>4, <2>1 DEF OwedSaid
  <2> QED BY <1>1, <1>4, <2>2, OwedKept DEF IInv
<1>12. Counted' BY <1>1 DEF IInv, Counted
<1> QED BY <1>4, <1>7, <1>8, <1>9, <1>10, <1>11, <1>12 DEF IInv

LEMMA KeptByRestore ==
  ASSUME IInv, NEW w \in Crew, NEW u \in People, Restore(w, u)
  PROVE  IInv'
<1>1. /\ UNCHANGED <<plan, ticketed, willing, decided, work, queue, inbox, mailed, owed,
                     excused, rate, asked>>
      /\ reg' = [reg EXCEPT ![u] = "in"] /\ restored' = [restored EXCEPT ![u] = {plan}]
  BY DEF Restore, told, broadcasts
<1>2. /\ reg \in [People -> Statuses \cup {"none"}] /\ restored \in [People -> SUBSET Plans]
      /\ plan \in Plans
  BY DEF IInv, NoticeTypeOK
<1>3. /\ plan \in restored'[u]
      /\ \A v \in People: v # u => reg'[v] = reg[v] /\ restored'[v] = restored[v]
  BY <1>1, <1>2
<1>4. reg' \in [People -> Statuses \cup {"none"}] /\ restored' \in [People -> SUBSET Plans]
  BY <1>1, <1>2 DEF Statuses
<1>5. NoticeTypeOK' /\ WorkersOK' BY <1>1, <1>4 DEF IInv, NoticeTypeOK, WorkersOK
<1>6. RowsFirst' /\ TimesHeld' /\ Counted'
  BY <1>1 DEF IInv, RowsFirst, TimesHeld, Counted
<1>7. TimesOnTheWay'
  <2>1. \A v \in People: \/ plan \in mailed'[v] \cup restored'[v]
                         \/ (reg'[v] = "in" => reg[v] = "in") /\ restored'[v] = restored[v]
    BY <1>3
  <2> QED BY <1>1, <2>1, TimesKept DEF IInv
<1>8. OwedOnTheWay' BY <1>1 DEF IInv, OwedOnTheWay, OwedSaid
<1> QED BY <1>5, <1>6, <1>7, <1>8 DEF IInv

LEMMA KeptByChangePlan ==
  ASSUME IInv, NEW w \in Crew, ChangePlan(w)
  PROVE  IInv'
<1> DEFINE t == Announce(plan', 0)
           en == Enqueue(t)
<1>1. /\ UNCHANGED <<reg, ticketed, restored, willing, decided, queue, inbox, mailed, owed,
                     excused, rate, asked>>
      /\ work[w] = Free /\ EventFree /\ plan < MaxPlan /\ plan' = plan + 1
      /\ work' = [work EXCEPT ![w] = Hooked(<<en>>, NoTask)]
  BY DEF ChangePlan, told, seats, broadcasts
<1>2. plan' \in Plans
  BY <1>1, NoticesAssumption DEF IInv, NoticeTypeOK, Plans, NoticesAssumption
<1>3. t \in Task /\ t.task = "announce" /\ t.plan = plan'
  BY <1>2, NoticesAssumption DEF Announce, Task, NoticesAssumption
<1> HIDE DEF t
<1>4. en \in Hook /\ en.do = "enqueue" /\ en.task = t BY <1>3 DEF Enqueue, Hook
<1> HIDE DEF en
<1>5. /\ WorkersOK' /\ Others(w) /\ work'[w].at \in {"free", "hooks"}
      /\ HooksIn(work[w]) = {} /\ HooksIn(work'[w]) = {en}
  BY <1>1, <1>4, OneHookBegun DEF IInv
<1>6. NoticeTypeOK'
  BY <1>1, <1>2, <1>5 DEF IInv, NoticeTypeOK, WorkersOK
<1>7. RowsFirst'
  <2>1. Ready(en.task, inbox') BY <1>3, <1>4 DEF Ready
  <2> QED BY <1>1, <1>5, <2>1, RowsKept DEF IInv, Others
<1>8. TimesHeld'
  <2>1. \A v \in Crew: work'[v].at # "deciding" BY <1>1, <1>5 DEF EventFree, Others
  <2> QED BY <2>1 DEF TimesHeld
<1>9. TimesOnTheWay'
  <2>1. \A v: WorkOwes(work'[w], v, plan')
    BY <1>3, <1>4, <1>5 DEF WorkOwes, HookOwes, Carries
  <2> QED BY <2>1 DEF TimesOnTheWay, TimesComing
<1>10. OwedOnTheWay' BY <1>1, <1>5, OwedKept DEF IInv
<1>11. Counted' BY <1>1 DEF IInv, Counted
<1> QED BY <1>5, <1>6, <1>7, <1>8, <1>9, <1>10, <1>11 DEF IInv

LEMMA KeptByDecide ==
  ASSUME IInv, NEW w \in Crew, NEW u \in People, Decide(w, u)
  PROVE  IInv'
<1> DEFINE x == Owed(w, u, "decided")
<1>1. /\ UNCHANGED <<plan, reg, ticketed, restored, willing, queue, inbox, mailed, excused,
                     rate, asked>>
      /\ decided' = decided \cup {u} /\ owed' = owed \cup {x}
      /\ work[w] = Free /\ work' = [work EXCEPT ![w] = Hooked(<<Tell(u)>>, NoTask)]
  BY DEF Decide, told, seats, broadcasts
<1>2. Tell(u) \in Hook /\ Tell(u).do = "tell" /\ HookSays(Tell(u), u, "decided")
  BY DEF Tell, Hook, HookSays
<1>3. /\ WorkersOK' /\ Others(w) /\ work'[w].at \in {"free", "hooks"}
      /\ HooksIn(work[w]) = {} /\ HooksIn(work'[w]) = {Tell(u)}
  BY <1>1, <1>2, OneHookBegun DEF IInv
<1>4. NoticeTypeOK'
  <2>1. x \in [by: Crew, user: People, status: Statuses \cup {"decided"}] BY DEF Owed
  <2> HIDE DEF x
  <2> QED BY <1>1, <1>3, <2>1 DEF IInv, NoticeTypeOK, WorkersOK
<1>5. RowsFirst' BY <1>1, <1>2, <1>3, RowsKept DEF IInv, Others
<1>6. TimesHeld' BY <1>1, <1>3, HeldKept DEF IInv
<1>7. TimesOnTheWay'
  <2>1. \A v: ~WorkOwes(work[w], v, plan) BY <1>1, <1>3 DEF WorkOwes, Free
  <2> QED BY <1>1, <1>3, <2>1, TimesKept DEF IInv, Others
<1>8. OwedOnTheWay'
  <2>1. x.by = w /\ x.user = u /\ x.status = "decided" BY DEF Owed
  <2> HIDE DEF x
  <2>2. OwedSaid(x)' BY <1>2, <1>3, <2>1 DEF OwedSaid
  <2> QED BY <1>1, <1>3, <2>2, OwedKept DEF IInv
<1>9. Counted' BY <1>1 DEF IInv, Counted
<1> QED BY <1>3, <1>4, <1>5, <1>6, <1>7, <1>8, <1>9 DEF IInv

LEMMA KeptByChangePreferences ==
  ASSUME IInv, NEW u \in People, ChangePreferences(u)
  PROVE  IInv'
<1>1. /\ UNCHANGED <<plan, reg, ticketed, restored, decided, work, queue, inbox,
                     mailed, owed, excused, rate, asked>>
      /\ willing' = (willing \ {u}) \cup ({u} \ willing)
  BY DEF ChangePreferences, told, seats, broadcasts
<1>2. NoticeTypeOK' /\ WorkersOK' BY <1>1 DEF IInv, NoticeTypeOK, WorkersOK
<1>3. RowsFirst' /\ TimesHeld' /\ Counted'
  BY <1>1 DEF IInv, RowsFirst, TimesHeld, Counted
<1>4. TimesOnTheWay' /\ OwedOnTheWay'
  BY <1>1 DEF IInv, TimesOnTheWay, TimesComing, OwedOnTheWay, OwedSaid
<1> QED BY <1>2, <1>3, <1>4 DEF IInv
------------------------------------------------------------------------------
(* Hooks and their failures keep the invariant.                              *)
LEMMA KeptByRunEnqueue ==
  ASSUME IInv, NEW w \in Crew, RunEnqueue(w)
  PROVE  IInv'
<1> DEFINE h == Head(work[w].hooks)
<1>1. /\ UNCHANGED <<plan, reg, ticketed, restored, willing, decided, inbox, mailed,
                     owed, excused, rate, asked>>
      /\ work[w].at = "hooks" /\ h.do = "enqueue"
      /\ queue' = queue \cup {h.task} /\ NextHook(w)
  BY DEF RunEnqueue, Running, seats, broadcasts
<1>2. /\ WorkersOK' /\ Others(w) /\ work'[w].at \in {"free", "hooks"}
      /\ h \in Hook /\ HooksIn(work[w]) = HooksIn(work'[w]) \cup {h}
  BY <1>1, HookDone DEF IInv
<1> HIDE DEF h
<1>3. h.task \in Task BY <1>1, <1>2, HookForms
<1>4. NoticeTypeOK' BY <1>1, <1>2, <1>3 DEF IInv, NoticeTypeOK, WorkersOK
<1>5. RowsFirst'
  <2>1. Ready(h.task, inbox) BY <1>1, <1>2 DEF IInv, RowsFirst
  <2> QED BY <1>1, <1>2, <2>1, RowsKept DEF IInv, Others
<1>6. TimesHeld' BY <1>1, <1>2, HeldKept DEF IInv
<1>7. TimesOnTheWay'
  <2>1. ASSUME NEW u \in People, WorkOwes(work[w], u, plan)
        PROVE  TimesComing(u)'
    <3>1. PICK g \in HooksIn(work[w]): HookOwes(g, u, plan)
      BY <1>1, <2>1 DEF WorkOwes
    <3>2. CASE g = h
      <4>1. Carries(h.task, u, plan') BY <1>1, <3>1, <3>2 DEF HookOwes
      <4> QED BY <1>1, <4>1 DEF TimesComing
    <3>3. CASE g \in HooksIn(work'[w])
      <4>1. WorkOwes(work'[w], u, plan') BY <1>1, <3>1, <3>3 DEF WorkOwes
      <4> QED BY <4>1 DEF TimesComing
    <3> QED BY <1>2, <3>1, <3>2, <3>3
  <2> QED BY <1>1, <1>2, <2>1, TimesKept DEF IInv, Others
<1>8. OwedOnTheWay'
  <2>1. \A u, s: ~HookSays(h, u, s) BY <1>1 DEF HookSays
  <2> QED BY <1>1, <1>2, <2>1, OwedKept DEF IInv
<1>9. Counted' BY <1>1 DEF IInv, Counted
<1> QED BY <1>2, <1>4, <1>5, <1>6, <1>7, <1>8, <1>9 DEF IInv

LEMMA KeptByRunMail ==
  ASSUME IInv, NEW w \in Crew, RunMail(w)
  PROVE  IInv'
<1> DEFINE h == Head(work[w].hooks)
<1>1. /\ UNCHANGED <<plan, reg, ticketed, restored, willing, decided, queue, inbox, excused,
                     rate, asked>>
      /\ owed' = owed \ {Owed(w, h.user, h.status)}
      /\ work[w].at = "hooks" /\ h.do = "mail"
      /\ mailed' = Reached({h.user}, h.plans) /\ NextHook(w)
  BY DEF RunMail, Running, seats, broadcasts
<1>2. /\ WorkersOK' /\ Others(w) /\ work'[w].at \in {"free", "hooks"}
      /\ h \in Hook /\ HooksIn(work[w]) = HooksIn(work'[w]) \cup {h}
  BY <1>1, HookDone DEF IInv
<1> HIDE DEF h
<1>3. {h.user} \in SUBSET People /\ h.plans \in SUBSET Plans
  BY <1>1, <1>2, HookForms
<1>4. /\ mailed' \in [People -> SUBSET Plans]
      /\ \A u \in People: mailed[u] \subseteq mailed'[u]
      /\ h.plans \subseteq mailed'[h.user]
  BY <1>1, <1>3, ReachedFacts DEF IInv
<1>5. NoticeTypeOK' BY <1>1, <1>2, <1>4 DEF IInv, NoticeTypeOK, WorkersOK
<1>6. RowsFirst' BY <1>1, <1>2, RowsKept DEF IInv, Others
<1>7. TimesHeld' BY <1>1, <1>2, HeldKept DEF IInv
<1>8. TimesOnTheWay'
  <2>1. ASSUME NEW u \in People, WorkOwes(work[w], u, plan)
        PROVE  plan \in mailed'[u] \/ TimesComing(u)'
    <3>1. PICK g \in HooksIn(work[w]): HookOwes(g, u, plan)
      BY <1>1, <2>1 DEF WorkOwes
    <3>2. CASE g = h BY <1>1, <1>4, <3>1, <3>2 DEF HookOwes
    <3>3. CASE g \in HooksIn(work'[w])
      <4>1. WorkOwes(work'[w], u, plan') BY <1>1, <3>1, <3>3 DEF WorkOwes
      <4> QED BY <4>1 DEF TimesComing
    <3> QED BY <1>2, <3>1, <3>2, <3>3
  <2> QED BY <1>1, <1>2, <1>4, <2>1, TimesKept DEF IInv, Others
<1>9. OwedOnTheWay'
  <2>1. \A u, s: HookSays(h, u, s) => Owed(w, u, s) \notin owed'
    BY <1>1 DEF HookSays
  <2>2. \A u, s: (\E g \in HooksIn(work[w]): HookSays(g, u, s)) =>
                   \/ Owed(w, u, s) \notin owed'
                   \/ \E g \in HooksIn(work'[w]): HookSays(g, u, s)
    BY <1>2, <2>1
  <2> QED BY <1>1, <1>2, <2>2, OwedKept DEF IInv
<1>10. Counted' BY <1>1 DEF IInv, Counted
<1> QED BY <1>2, <1>5, <1>6, <1>7, <1>8, <1>9, <1>10 DEF IInv

LEMMA KeptByMailFails ==
  ASSUME IInv, NEW w \in Crew, MailFails(w)
  PROVE  IInv'
<1> DEFINE h == Head(work[w].hooks)
<1>1. /\ UNCHANGED <<plan, reg, ticketed, restored, willing, decided, queue, inbox,
                     mailed, owed, rate, asked>>
      /\ work[w].at = "hooks" /\ h.do = "mail"
      /\ excused' = excused \cup {h.user} /\ NextHook(w)
  BY DEF MailFails, Running, seats, broadcasts
<1>2. /\ WorkersOK' /\ Others(w) /\ work'[w].at \in {"free", "hooks"}
      /\ h \in Hook /\ HooksIn(work[w]) = HooksIn(work'[w]) \cup {h}
  BY <1>1, HookDone DEF IInv
<1> HIDE DEF h
<1>3. h.user \in People BY <1>1, <1>2, HookForms
<1>4. NoticeTypeOK' BY <1>1, <1>2, <1>3 DEF IInv, NoticeTypeOK, WorkersOK
<1>5. RowsFirst' BY <1>1, <1>2, RowsKept DEF IInv, Others
<1>6. TimesHeld' BY <1>1, <1>2, HeldKept DEF IInv
<1>7. TimesOnTheWay'
  <2>1. ASSUME NEW u \in People \ excused', WorkOwes(work[w], u, plan)
        PROVE  TimesComing(u)'
    <3>1. PICK g \in HooksIn(work[w]): HookOwes(g, u, plan)
      BY <1>1, <2>1 DEF WorkOwes
    <3>2. g # h BY <1>1, <2>1, <3>1 DEF HookOwes
    <3>3. WorkOwes(work'[w], u, plan') BY <1>1, <1>2, <3>1, <3>2 DEF WorkOwes
    <3> QED BY <3>3 DEF TimesComing
  <2> QED BY <1>1, <1>2, <2>1, TimesKept DEF IInv, Others
<1>8. OwedOnTheWay'
  <2>1. \A u \in People \ excused': \A s: ~HookSays(h, u, s)
    BY <1>1 DEF HookSays
  <2> QED BY <1>1, <1>2, <2>1, OwedKept DEF IInv
<1>9. Counted' BY <1>1 DEF IInv, Counted
<1> QED BY <1>2, <1>4, <1>5, <1>6, <1>7, <1>8, <1>9 DEF IInv

LEMMA KeptByRunTell ==
  ASSUME IInv, NEW w \in Crew, RunTell(w)
  PROVE  IInv'
<1> DEFINE u == Head(work[w].hooks).user
           n == Notice("decision", 0, {u})
           mail == Mail(u, "decided", {})
<1>1. /\ UNCHANGED <<plan, reg, ticketed, restored, willing, decided, queue, mailed,
                     owed, excused, rate, asked>>
      /\ work[w].at = "hooks" /\ inbox' = inbox \cup {n}
  BY DEF RunTell, Running, seats, broadcasts
<1>2. /\ WorkersOK' /\ Others(w) /\ work'[w].at \in {"free", "hooks"}
      /\ u \in People /\ n \in Notification
      /\ HooksIn(work'[w]) \subseteq {Enqueue(Deliver(n)), mail}
      /\ mail \in HooksIn(work'[w])
      /\ HooksIn(work[w]) = {Tell(u)}
  BY RunTellHooks DEF IInv
<1> HIDE DEF u
<1>3. NoticeTypeOK' BY <1>1, <1>2 DEF IInv, NoticeTypeOK, WorkersOK
<1>4. RowsFirst'
  <2>1. ASSUME NEW h \in HooksIn(work'[w]), h.do = "enqueue"
        PROVE  Ready(h.task, inbox')
    <3>1. mail.do # "enqueue" BY DEF Mail
    <3>2. h = Enqueue(Deliver(n)) BY <1>2, <2>1, <3>1
    <3>3. n \in inbox' BY <1>1
    <3> HIDE DEF n
    <3> QED BY <3>2, <3>3 DEF Ready, Enqueue, Deliver
  <2> QED BY <1>1, <1>2, <2>1, RowsKept DEF IInv, Others
<1>5. TimesHeld' BY <1>1, <1>2, HeldKept DEF IInv
<1>6. TimesOnTheWay'
  <2>1. \A v: ~WorkOwes(work[w], v, plan)
    BY <1>1, <1>2 DEF WorkOwes, HookOwes, Tell
  <2> QED BY <1>1, <1>2, <2>1, TimesKept DEF IInv, Others
<1>7. OwedOnTheWay'
  <2>1. \A v, s: HookSays(Tell(u), v, s) => HookSays(mail, v, s)
    BY DEF HookSays, Tell, Mail
  <2> HIDE DEF mail
  <2>2. \A v, s: (\E h \in HooksIn(work[w]): HookSays(h, v, s)) =>
                   \E h \in HooksIn(work'[w]): HookSays(h, v, s)
    BY <1>2, <2>1
  <2> QED BY <1>1, <1>2, <2>2, OwedKept DEF IInv
<1>8. Counted' BY <1>1 DEF IInv, Counted
<1> QED BY <1>2, <1>3, <1>4, <1>5, <1>6, <1>7, <1>8 DEF IInv

(* Celery runs the task again, or everybody is excused.                      *)
LEMMA Retried ==
  ASSUME NoticeTypeOK, NEW w \in Crew, work[w].of \in Task,
         work[w].of.task = "announce", RetryTask(w)
  PROVE  /\ queue \subseteq queue' /\ queue' \subseteq Task
         /\ excused \subseteq excused' /\ excused' \subseteq People
         /\ \A t \in queue' \ queue: t.task = "announce"
         /\ \/ \E t \in queue': t.task = "announce" /\ t.plan = work[w].of.plan
            \/ excused' = People
<1> DEFINE t == work[w].of
           a == Announce(t.plan, t.tries + 1)
<1>1. t \in [task: {"announce"}, plan: Plans, tries: 0..AnnounceRetries]
  BY TaskForms
<1>2. queue \subseteq Task /\ excused \subseteq People BY DEF NoticeTypeOK
<1>3. CASE t.tries < AnnounceRetries
  <2>1. queue' = queue \cup {a} /\ excused' = excused BY <1>3 DEF RetryTask
  <2>2. a \in Task /\ a.task = "announce" /\ a.plan = t.plan
    BY <1>1, <1>3, NoticesAssumption DEF NoticesAssumption, Announce, Task
  <2> HIDE DEF a
  <2> QED BY <1>2, <2>1, <2>2
<1>4. CASE ~(t.tries < AnnounceRetries)
  BY <1>2, <1>4 DEF RetryTask
<1> QED BY <1>3, <1>4

LEMMA KeptByHookRaises ==
  ASSUME IInv, NEW w \in Crew, HookRaises(w)
  PROVE  IInv'
<1> DEFINE x == work[w]
           h == Head(x.hooks)
<1>1. /\ UNCHANGED <<plan, reg, ticketed, restored, willing, decided, inbox, mailed,
                     owed, rate, asked>>
      /\ x.at = "hooks" /\ h.do \in {"enqueue", "tell"}
      /\ IF x.of # NoTask THEN RetryTask(w)
         ELSE excused' = excused \cup Silenced(h) /\ queue' = queue
      /\ work' = [work EXCEPT ![w] = Free]
  BY DEF HookRaises, Running, seats, broadcasts
<1>2. /\ WorkersOK' /\ Others(w) /\ work'[w] = Free /\ HooksIn(work'[w]) = {}
  BY <1>1, PlainWork, OneWorker DEF IInv
<1>3. WorkOK(x) /\ NoticeTypeOK BY DEF IInv, WorkersOK
<1>4. /\ h \in HooksIn(x) /\ HooksIn(x) \subseteq Hook /\ x.of \in Task \cup {NoTask}
      /\ x.of # NoTask => x.of.task = "announce"
  BY <1>1, <1>3, RestOK
<1>5. Silenced(h) \subseteq People BY <1>4, SilencedPeople
<1> HIDE DEF h
<1>6. /\ queue \subseteq queue' /\ queue' \subseteq Task
      /\ excused \subseteq excused' /\ excused' \subseteq People
      /\ \A t \in queue' \ queue: t.task = "announce"
  BY <1>1, <1>3, <1>4, <1>5, Retried DEF NoticeTypeOK
<1>7. NoticeTypeOK' BY <1>1, <1>2, <1>6 DEF IInv, NoticeTypeOK, WorkersOK
<1>8. RowsFirst'
  BY <1>1, <1>2, <1>6, RowsKept DEF IInv, Others, Ready
<1>9. TimesHeld' BY <1>1, <1>2, HeldKept DEF IInv, Free
<1>10. Counted' BY <1>1 DEF IInv, Counted
<1>11. CASE x.of = NoTask
  <2>1. \A g \in HooksIn(x): Silenced(g) \subseteq Silenced(h)
    BY <1>1, <1>3, <1>11, HeadSilences DEF h
  <2>2. \A g \in HooksIn(x): \A u \in People \ excused': \A p, s:
          ~HookOwes(g, u, p) /\ ~HookSays(g, u, s)
    BY <1>1, <1>11, <2>1, OwedSilenced
  <2>3. \A u \in People \ excused': ~WorkOwes(x, u, plan)
    BY <1>1, <2>2 DEF WorkOwes
  <2>4. TimesOnTheWay'
    BY <1>1, <1>2, <1>6, <2>3, TimesKept DEF IInv, Others
  <2>5. OwedOnTheWay'
    BY <1>1, <1>2, <1>6, <2>2, OwedKept DEF IInv
  <2> QED BY <1>2, <1>7, <1>8, <1>9, <1>10, <2>4, <2>5 DEF IInv
<1>12. CASE x.of # NoTask
  <2>1. /\ \/ \E t \in queue': t.task = "announce" /\ t.plan = x.of.plan
           \/ excused' = People
    BY <1>1, <1>3, <1>4, <1>12, Retried
  <2>2. \A g \in HooksIn(x):
          /\ g.do = "enqueue" /\ g.task.task # "announce"
          /\ g.task.task = "mails" => g.task.plan = x.of.plan
    BY <1>1, <1>3, <1>12 DEF WorkOK, HookListOK, HooksIn
  <2>3. ASSUME NEW u \in People \ excused', WorkOwes(x, u, plan)
        PROVE  TimesComing(u)'
    <3>1. PICK g \in HooksIn(x): HookOwes(g, u, plan)
      BY <1>1, <2>3 DEF WorkOwes
    <3>2. plan = x.of.plan BY <2>2, <3>1 DEF HookOwes, Carries
    <3>3. PICK t \in queue': t.task = "announce" /\ t.plan = x.of.plan
      BY <2>1, <2>3
    <3>4. Carries(t, u, plan') BY <1>1, <3>2, <3>3 DEF Carries
    <3> QED BY <3>4 DEF TimesComing
  <2>4. TimesOnTheWay'
    BY <1>1, <1>2, <1>6, <2>3, TimesKept DEF IInv, Others
  <2>5. \A g \in HooksIn(x): \A u, s: ~HookSays(g, u, s)
    BY <2>2 DEF HookSays
  <2>6. OwedOnTheWay'
    BY <1>1, <1>2, <1>6, <2>5, OwedKept DEF IInv
  <2> QED BY <1>2, <1>7, <1>8, <1>9, <1>10, <2>4, <2>6 DEF IInv
<1> QED BY <1>11, <1>12

LEMMA KeptByDies ==
  ASSUME IInv, NEW w \in Crew, Dies(w)
  PROVE  IInv'
<1> DEFINE x == work[w]
           lost == IF x.at = "announcing" THEN People
                   ELSE IF x.at = "hooks"
                        THEN UNION {Silenced(x.hooks[i]) : i \in DOMAIN x.hooks} ELSE {}
<1>1. /\ UNCHANGED <<plan, reg, ticketed, restored, willing, decided, queue, inbox,
                     mailed, owed, rate, asked>>
      /\ excused' = excused \cup lost
      /\ work' = [work EXCEPT ![w] = Free]
  BY DEF Dies, seats, broadcasts
<1>2. /\ WorkersOK' /\ Others(w) /\ work'[w] = Free /\ HooksIn(work'[w]) = {}
  BY <1>1, PlainWork, OneWorker DEF IInv
<1>3. WorkOK(x) BY DEF IInv, WorkersOK
<1>4. \A g \in HooksIn(x): Silenced(g) \subseteq lost BY DEF HooksIn
<1>5. lost \subseteq People
  <2>1. CASE x.at = "hooks"
    <3>1. x.hooks \in Seq(Hook) BY <1>3, <2>1 DEF WorkOK, HookListOK
    <3>2. \A i \in DOMAIN x.hooks: Silenced(x.hooks[i]) \subseteq People
      BY <3>1, SilencedPeople
    <3> QED BY <2>1, <3>2
  <2> QED BY <2>1
<1>6. \A u \in People \ excused': ~WorkOwes(x, u, plan)
  BY <1>1, <1>4, OwedSilenced DEF WorkOwes
<1>7. \A g \in HooksIn(x): \A u \in People \ excused': \A s: ~HookSays(g, u, s)
  BY <1>1, <1>4, OwedSilenced
<1> HIDE DEF lost
<1>8. NoticeTypeOK' BY <1>1, <1>2, <1>5 DEF IInv, NoticeTypeOK, WorkersOK
<1>9. RowsFirst' BY <1>1, <1>2, RowsKept DEF IInv, Others
<1>10. TimesHeld' BY <1>1, <1>2, HeldKept DEF IInv, Free
<1>11. TimesOnTheWay' BY <1>1, <1>2, <1>6, TimesKept DEF IInv, Others
<1>12. OwedOnTheWay' BY <1>1, <1>2, <1>7, OwedKept DEF IInv
<1>13. Counted' BY <1>1 DEF IInv, Counted
<1> QED BY <1>2, <1>8, <1>9, <1>10, <1>11, <1>12, <1>13 DEF IInv
------------------------------------------------------------------------------
(* Tasks keep the invariant.                                                 *)
LEMMA KeptByStartAnnounce ==
  ASSUME IInv, NEW w \in Crew, NEW t \in queue, StartAnnounce(w, t)
  PROVE  IInv'
<1>1. /\ UNCHANGED <<plan, reg, ticketed, restored, willing, decided, inbox, mailed,
                     owed, excused, rate, asked>>
      /\ t.task = "announce" /\ queue' = queue \ {t}
  BY DEF StartAnnounce, seats, broadcasts
<1>2. /\ WorkersOK' /\ Others(w) /\ HooksIn(work'[w]) = {} /\ work[w] = Free
      /\ \/ Attending = {} /\ work'[w] = Free
         \/ work'[w] = [at |-> "announcing", of |-> t, to |-> Attending]
  BY StartAnnounceHooks DEF IInv
<1>3. HooksIn(work[w]) = {} /\ work[w].at = "free" BY <1>2, PlainWork DEF Free
<1>4. NoticeTypeOK' BY <1>1, <1>2 DEF IInv, NoticeTypeOK, WorkersOK
<1>5. RowsFirst' BY <1>1, <1>2, RowsKept DEF IInv, Others
<1>6. TimesHeld' BY <1>1, <1>2, HeldKept DEF IInv, Free
<1>7. TimesOnTheWay'
  <2>1. \A u: ~WorkOwes(work[w], u, plan) BY <1>3 DEF WorkOwes
  <2>2. ASSUME NEW u \in People, reg'[u] = "in", Carries(t, u, plan)
        PROVE  TimesComing(u)'
    <3>1. t.plan = plan BY <2>2 DEF Carries
    <3>2. u \in Attending BY <1>1, <2>2 DEF Attending
    <3>3. WorkOwes(work'[w], u, plan') BY <1>1, <1>2, <3>1, <3>2 DEF WorkOwes
    <3> QED BY <3>3 DEF TimesComing
  <2>3. \A v \in queue \ queue': v = t BY <1>1
  <2> QED BY <1>1, <1>2, <2>1, <2>2, <2>3, TimesKept DEF IInv, Others
<1>8. OwedOnTheWay' BY <1>1, <1>2, <1>3, OwedKept DEF IInv
<1>9. Counted' BY <1>1 DEF IInv, Counted
<1> QED BY <1>2, <1>4, <1>5, <1>6, <1>7, <1>8, <1>9 DEF IInv

LEMMA KeptByAnnounceRows ==
  ASSUME IInv, NEW w \in Crew, AnnounceRows(w)
  PROVE  IInv'
<1> DEFINE c == work[w]
           n == Notice("times", c.of.plan, c.to)
           em == Enqueue(Mails(c.to, c.of.plan))
<1>1. /\ UNCHANGED <<plan, reg, ticketed, restored, willing, decided, queue, mailed,
                     owed, excused, rate, asked>>
      /\ c.at = "announcing" /\ inbox' = inbox \cup {n}
  BY DEF AnnounceRows, seats, broadcasts
<1>2. /\ WorkersOK' /\ Others(w) /\ work'[w].at \in {"free", "hooks"}
      /\ n \in Notification /\ HooksIn(c) = {} /\ c.to \subseteq People
      /\ HooksIn(work'[w]) \subseteq {Enqueue(Deliver(n)), em}
      /\ em \in HooksIn(work'[w])
  BY AnnounceRowsHooks DEF IInv
<1>3. NoticeTypeOK' BY <1>1, <1>2 DEF IInv, NoticeTypeOK, WorkersOK
<1>4. RowsFirst'
  <2>1. ASSUME NEW h \in HooksIn(work'[w]) PROVE Ready(h.task, inbox')
    <3>1. em.task.task # "deliver" BY DEF Enqueue, Mails
    <3>2. n \in inbox' BY <1>1
    <3> HIDE DEF n, em
    <3>3. CASE h = em BY <3>1, <3>3 DEF Ready
    <3>4. CASE h = Enqueue(Deliver(n)) BY <3>2, <3>4 DEF Ready, Enqueue, Deliver
    <3> QED BY <1>2, <3>3, <3>4
  <2> QED BY <1>1, <1>2, <2>1, RowsKept DEF IInv, Others
<1>5. TimesHeld' BY <1>1, <1>2, HeldKept DEF IInv
<1>6. TimesOnTheWay'
  <2>1. ASSUME NEW u \in People, WorkOwes(c, u, plan)
        PROVE  TimesComing(u)'
    <3>1. c.of.plan = plan /\ u \in c.to BY <1>2, <2>1 DEF WorkOwes
    <3>2. HookOwes(em, u, plan) BY <3>1 DEF HookOwes, Carries, Enqueue, Mails
    <3> HIDE DEF em
    <3>3. WorkOwes(work'[w], u, plan') BY <1>1, <1>2, <3>2 DEF WorkOwes
    <3> QED BY <3>3 DEF TimesComing
  <2> QED BY <1>1, <1>2, <2>1, TimesKept DEF IInv, Others
<1>7. OwedOnTheWay' BY <1>1, <1>2, OwedKept DEF IInv
<1>8. Counted' BY <1>1 DEF IInv, Counted
<1> QED BY <1>2, <1>3, <1>4, <1>5, <1>6, <1>7, <1>8 DEF IInv

LEMMA KeptByAnnounceRaises ==
  ASSUME IInv, NEW w \in Crew, AnnounceRaises(w)
  PROVE  IInv'
<1> DEFINE x == work[w]
<1>1. /\ UNCHANGED <<plan, reg, ticketed, restored, willing, decided, inbox, mailed,
                     owed, rate, asked>>
      /\ x.at = "announcing" /\ RetryTask(w)
      /\ work' = [work EXCEPT ![w] = Free]
  BY DEF AnnounceRaises, seats, broadcasts
<1>2. /\ WorkersOK' /\ Others(w) /\ work'[w] = Free /\ HooksIn(work'[w]) = {}
  BY <1>1, PlainWork, OneWorker DEF IInv
<1>3. x \in Work /\ x.of.task = "announce" /\ HooksIn(x) = {}
  BY <1>1 DEF IInv, WorkersOK, WorkOK, HooksIn
<1>4. x.of \in Task BY <1>1, <1>3, WorkForms
<1>5. /\ queue \subseteq queue' /\ queue' \subseteq Task
      /\ excused \subseteq excused' /\ excused' \subseteq People
      /\ \A t \in queue' \ queue: t.task = "announce"
      /\ \/ \E t \in queue': t.task = "announce" /\ t.plan = x.of.plan
         \/ excused' = People
  BY <1>1, <1>3, <1>4, Retried DEF IInv
<1>6. NoticeTypeOK' BY <1>1, <1>2, <1>5 DEF IInv, NoticeTypeOK, WorkersOK
<1>7. RowsFirst' BY <1>1, <1>2, <1>5, RowsKept DEF IInv, Others, Ready
<1>8. TimesHeld' BY <1>1, <1>2, HeldKept DEF IInv, Free
<1>9. TimesOnTheWay'
  <2>1. ASSUME NEW u \in People \ excused', WorkOwes(x, u, plan)
        PROVE  TimesComing(u)'
    <3>1. plan = x.of.plan BY <1>3, <2>1 DEF WorkOwes
    <3>2. PICK t \in queue': t.task = "announce" /\ t.plan = x.of.plan
      BY <1>5, <2>1
    <3>3. Carries(t, u, plan') BY <1>1, <3>1, <3>2 DEF Carries
    <3> QED BY <3>3 DEF TimesComing
  <2> QED BY <1>1, <1>2, <1>5, <2>1, TimesKept DEF IInv, Others
<1>10. OwedOnTheWay' BY <1>1, <1>2, <1>3, <1>5, OwedKept DEF IInv
<1>11. Counted' BY <1>1 DEF IInv, Counted
<1> QED BY <1>2, <1>6, <1>7, <1>8, <1>9, <1>10, <1>11 DEF IInv

LEMMA KeptBySendMails ==
  ASSUME IInv, NEW t \in queue, NEW R \in SUBSET People, SendMails(t, R)
  PROVE  IInv'
<1>1. /\ UNCHANGED <<plan, reg, ticketed, restored, willing, decided, work, inbox, owed,
                     rate, asked>>
      /\ t.task = "mails" /\ R \subseteq t.to /\ queue' = queue \ {t}
      /\ mailed' = Reached(R, {t.plan}) /\ excused' = excused \cup (t.to \ R)
  BY DEF SendMails, seats, broadcasts
<1>2. t \in [task: {"mails"}, to: SUBSET People, plan: Plans]
  BY <1>1, TaskForms DEF IInv, NoticeTypeOK
<1>3. /\ mailed' \in [People -> SUBSET Plans]
      /\ \A u \in People: mailed[u] \subseteq mailed'[u]
      /\ \A u \in R: t.plan \in mailed'[u]
  <2> DEFINE P == {t.plan}
  <2>1. mailed' = Reached(R, P) /\ NoticeTypeOK /\ P \in SUBSET Plans /\ t.plan \in P
    BY <1>1, <1>2 DEF IInv
  <2> HIDE DEF P
  <2> QED BY <2>1, ReachedFacts
<1>4. NoticeTypeOK'
  <2>1. queue' \subseteq Task /\ excused' \subseteq People
    BY <1>1, <1>2 DEF IInv, NoticeTypeOK
  <2> QED BY <1>1, <1>3, <2>1 DEF IInv, NoticeTypeOK
<1>5. WorkersOK' BY <1>1 DEF IInv, WorkersOK
<1>6. RowsFirst' BY <1>1, RowsKept DEF IInv
<1>7. TimesHeld' BY <1>1 DEF IInv, TimesHeld
<1>8. TimesOnTheWay'
  <2>1. ASSUME NEW u \in People \ excused', Carries(t, u, plan)
        PROVE  plan \in mailed'[u]
    <3>1. u \in t.to /\ t.plan = plan BY <1>1, <2>1 DEF Carries
    <3>2. u \in R BY <1>1, <2>1, <3>1
    <3> QED BY <1>3, <3>1, <3>2
  <2>2. \A v \in queue \ queue': v = t BY <1>1
  <2> QED BY <1>1, <1>3, <2>1, <2>2, TimesKept DEF IInv
<1>9. OwedOnTheWay' BY <1>1 DEF IInv, OwedOnTheWay, OwedSaid
<1>10. Counted' BY <1>1 DEF IInv, Counted
<1> QED BY <1>4, <1>5, <1>6, <1>7, <1>8, <1>9, <1>10 DEF IInv

LEMMA KeptByRunDelivery ==
  ASSUME IInv, NEW t \in queue, RunDelivery(t)
  PROVE  IInv'
<1>1. /\ UNCHANGED <<plan, reg, ticketed, restored, willing, decided, work, inbox,
                     mailed, owed, excused, rate, asked>>
      /\ t.task = "deliver" /\ queue' = queue \ {t}
  BY DEF RunDelivery, seats, broadcasts
<1>2. NoticeTypeOK' /\ WorkersOK' BY <1>1 DEF IInv, NoticeTypeOK, WorkersOK
<1>3. RowsFirst' BY <1>1, RowsKept DEF IInv
<1>4. TimesHeld' BY <1>1 DEF IInv, TimesHeld
<1>5. TimesOnTheWay'
  <2>1. \A u: ~Carries(t, u, plan) BY <1>1 DEF Carries
  <2>2. \A v \in queue \ queue': v = t BY <1>1
  <2> QED BY <1>1, <2>1, <2>2, TimesKept DEF IInv
<1>6. OwedOnTheWay' BY <1>1 DEF IInv, OwedOnTheWay, OwedSaid
<1>7. Counted' BY <1>1 DEF IInv, Counted
<1> QED BY <1>2, <1>3, <1>4, <1>5, <1>6, <1>7 DEF IInv
------------------------------------------------------------------------------
(* Broadcasts keep the invariant: steps between two calls of the cache leave   *)
(* nothing to tell.                                                         *)
CacheStates == {"free", "passed", "counting", "expired", "accepted"}

LEMMA KeptByCacheStep ==
  ASSUME IInv, NEW w \in Crew, work[w].at \in CacheStates,
         NEW at \in CacheStates, work' = [work EXCEPT ![w] = [at |-> at]],
         UNCHANGED <<plan, seats, willing, decided, told>>,
         rate' \in [count: Nat, sent: Nat, uncounted: Nat], asked' \in 0..MaxAsked,
         Counted'
  PROVE  IInv'
<1>1. UNCHANGED <<plan, reg, ticketed, restored, willing, decided, queue, inbox,
                  mailed, owed, excused>>
  BY DEF seats, told
<1>2. /\ WorkersOK' /\ Others(w) /\ HooksIn(work'[w]) = {} /\ work'[w] = [at |-> at]
  BY PlainStep DEF IInv, CacheStates
<1>3. HooksIn(work[w]) = {} /\ work[w].at # "announcing"
  BY DEF HooksIn, CacheStates
<1>4. NoticeTypeOK' BY <1>1, <1>2 DEF IInv, NoticeTypeOK, WorkersOK
<1>5. RowsFirst' BY <1>1, <1>2, RowsKept DEF IInv, Others
<1>6. TimesHeld' BY <1>1, <1>2, HeldKept DEF IInv, CacheStates
<1>7. TimesOnTheWay'
  <2>1. \A u: ~WorkOwes(work[w], u, plan) BY <1>3 DEF WorkOwes
  <2> QED BY <1>1, <1>2, <2>1, TimesKept DEF IInv, Others
<1>8. OwedOnTheWay' BY <1>1, <1>2, <1>3, OwedKept DEF IInv
<1> QED BY <1>2, <1>4, <1>5, <1>6, <1>7, <1>8 DEF IInv

LEMMA KeptByAsk ==
  ASSUME IInv, NEW w \in Crew, Ask(w)
  PROVE  IInv'
<1>1. /\ UNCHANGED <<plan, seats, willing, decided, told, rate>>
      /\ work[w] = Free /\ asked < MaxAsked /\ asked' = asked + 1
  BY DEF Ask
<1>2. PICK at \in CacheStates: work' = [work EXCEPT ![w] = [at |-> at]]
  BY DEF Ask, Free, CacheStates
<1>3. work[w].at \in CacheStates BY <1>1 DEF Free, CacheStates
<1>4. rate' \in [count: Nat, sent: Nat, uncounted: Nat] /\ Counted'
  BY <1>1 DEF IInv, NoticeTypeOK, Counted
<1>5. asked' \in 0..MaxAsked
  BY <1>1, NoticesAssumption DEF IInv, NoticeTypeOK, NoticesAssumption
<1> QED BY <1>1, <1>2, <1>3, <1>4, <1>5, KeptByCacheStep

LEMMA KeptByAddKey ==
  ASSUME IInv, NEW w \in Crew, AddKey(w)
  PROVE  IInv'
<1>1. /\ UNCHANGED <<plan, seats, willing, decided, told, asked>>
      /\ work[w].at \in CacheStates
      /\ rate' = rate \/ rate' = FirstOfWindow
  BY DEF AddKey, CacheStates
<1>2. PICK at \in CacheStates: work' = [work EXCEPT ![w] = [at |-> at]]
  BY DEF AddKey, Goto, CacheStates
<1>3. /\ rate' \in [count: Nat, sent: Nat, uncounted: Nat] /\ Counted'
      /\ asked' \in 0..MaxAsked
  BY <1>1, NoticesAssumption
  DEF IInv, NoticeTypeOK, Counted, FirstOfWindow, NoticesAssumption
<1> QED BY <1>1, <1>2, <1>3, KeptByCacheStep

LEMMA KeptByIncrKey ==
  ASSUME IInv, NEW w \in Crew, IncrKey(w)
  PROVE  IInv'
<1>1. /\ UNCHANGED <<plan, seats, willing, decided, told, asked>>
      /\ work[w].at \in CacheStates
      /\ \/ rate' = rate
         \/ /\ rate.count + 1 <= Limit
            /\ rate' = [rate EXCEPT !.count = @ + 1, !.sent = @ + 1]
         \/ rate' = [rate EXCEPT !.count = @ + 1]
  BY DEF IncrKey, WithinLimit, CacheStates
<1>2. PICK at \in CacheStates: work' = [work EXCEPT ![w] = [at |-> at]]
  BY DEF IncrKey, Goto, CacheStates
<1>3. rate \in [count: Nat, sent: Nat, uncounted: Nat] /\ asked \in 0..MaxAsked /\ Counted
  BY DEF IInv, NoticeTypeOK
<1>4. rate' \in [count: Nat, sent: Nat, uncounted: Nat] /\ Counted'
  <2>1. CASE rate' = rate BY <1>3, <2>1 DEF Counted
  <2>2. CASE /\ rate.count + 1 <= Limit
             /\ rate' = [rate EXCEPT !.count = @ + 1, !.sent = @ + 1]
    <3>1. /\ rate'.count = rate.count + 1 /\ rate'.sent = rate.sent + 1
          /\ rate'.uncounted = rate.uncounted
      BY <1>3, <2>2
    <3>2. rate' = [count |-> rate.count + 1, sent |-> rate.sent + 1,
                   uncounted |-> rate.uncounted]
      BY <1>3, <2>2
    <3>3. /\ rate.count + 1 \in Nat /\ rate.sent + 1 \in Nat
          /\ rate.uncounted \in Nat
      BY <1>3
    <3>4. rate' \in [count: Nat, sent: Nat, uncounted: Nat] BY <3>2, <3>3
    <3> QED BY <1>3, <2>2, <3>1, <3>4, NoticesAssumption DEF Counted, NoticesAssumption
  <2>3. CASE rate' = [rate EXCEPT !.count = @ + 1]
    <3>1. /\ rate'.count = rate.count + 1 /\ rate'.sent = rate.sent
          /\ rate'.uncounted = rate.uncounted
      BY <1>3, <2>3
    <3>2. rate' \in [count: Nat, sent: Nat, uncounted: Nat] BY <1>3, <2>3
    <3> QED BY <1>3, <3>1, <3>2, NoticesAssumption DEF Counted, NoticesAssumption
  <2> QED BY <1>1, <2>1, <2>2, <2>3
<1> QED BY <1>1, <1>2, <1>3, <1>4, KeptByCacheStep

LEMMA KeptByAddAgain ==
  ASSUME IInv, NEW w \in Crew, AddAgain(w)
  PROVE  IInv'
<1>1. /\ UNCHANGED <<plan, seats, willing, decided, told, asked>>
      /\ work[w].at \in CacheStates
      /\ \/ rate' = FirstOfWindow
         \/ rate' = [rate EXCEPT !.sent = @ + 1, !.uncounted = @ + 1]
  BY DEF AddAgain, CacheStates
<1>2. PICK at \in CacheStates: work' = [work EXCEPT ![w] = [at |-> at]]
  BY DEF AddAgain, Goto, CacheStates
<1>3. rate \in [count: Nat, sent: Nat, uncounted: Nat] /\ asked \in 0..MaxAsked /\ Counted
  BY DEF IInv, NoticeTypeOK
<1>4. rate' \in [count: Nat, sent: Nat, uncounted: Nat] /\ Counted'
  <2>1. CASE rate' = FirstOfWindow
    BY <2>1, NoticesAssumption DEF Counted, FirstOfWindow, NoticesAssumption
  <2>2. CASE rate' = [rate EXCEPT !.sent = @ + 1, !.uncounted = @ + 1]
    <3>1. /\ rate'.count = rate.count /\ rate'.sent = rate.sent + 1
          /\ rate'.uncounted = rate.uncounted + 1
      BY <1>3, <2>2
    <3>2. rate' = [count |-> rate.count, sent |-> rate.sent + 1,
                   uncounted |-> rate.uncounted + 1]
      BY <1>3, <2>2
    <3>3. /\ rate.count \in Nat /\ rate.sent + 1 \in Nat
          /\ rate.uncounted + 1 \in Nat
      BY <1>3
    <3>4. rate' \in [count: Nat, sent: Nat, uncounted: Nat] BY <3>2, <3>3
    <3> QED BY <1>3, <3>1, <3>4, NoticesAssumption DEF Counted, NoticesAssumption
  <2> QED BY <1>1, <2>1, <2>2
<1> QED BY <1>1, <1>2, <1>3, <1>4, KeptByCacheStep

LEMMA KeptByExpire ==
  ASSUME IInv, Expire
  PROVE  IInv'
<1>1. /\ UNCHANGED <<plan, reg, ticketed, restored, willing, decided, work, queue,
                     inbox, mailed, owed, excused, asked>>
      /\ rate' = NoWindow
  BY DEF Expire, seats, told
<1>2. NoticeTypeOK' /\ WorkersOK' BY <1>1 DEF IInv, NoticeTypeOK, WorkersOK, NoWindow
<1>3. RowsFirst' /\ TimesHeld' BY <1>1 DEF IInv, RowsFirst, TimesHeld
<1>4. TimesOnTheWay' /\ OwedOnTheWay'
  BY <1>1 DEF IInv, TimesOnTheWay, TimesComing, OwedOnTheWay, OwedSaid
<1>5. Counted'
  BY <1>1, NoticesAssumption DEF Counted, NoWindow, NoticesAssumption
<1> QED BY <1>2, <1>3, <1>4, <1>5 DEF IInv

LEMMA KeptByBroadcast ==
  ASSUME IInv, NEW w \in Crew, NEW a \in Audiences, NEW b \in BOOLEAN, Broadcast(w, a, b)
  PROVE  IInv'
<1> DEFINE to == {u \in People: reg[u] \in a}
           n == Notice("broadcast", 0, to)
           en == Enqueue(Deliver(n))
           allowed == b /\ to \cap willing # {}
<1>1. /\ UNCHANGED <<plan, reg, ticketed, restored, willing, decided, queue, mailed,
                     owed, excused, rate, asked>>
      /\ work[w].at = "accepted"
  BY DEF Broadcast, seats, broadcasts
<1>2. n \in Notification /\ en \in Hook
  BY NoticesAssumption
  DEF NoticesAssumption, Notification, Plans, Notice, Enqueue, Deliver, Task, Hook
<1>3. HooksIn(work[w]) = {} /\ ~(\E u: WorkOwes(work[w], u, plan))
  BY <1>1 DEF HooksIn, WorkOwes
<1>4. /\ inbox \subseteq inbox' /\ inbox' \subseteq Notification
      /\ WorkersOK' /\ Others(w) /\ work'[w].at \in {"free", "hooks"}
      /\ \A h \in HooksIn(work'[w]): h = en /\ n \in inbox'
  <2>1. inbox \subseteq Notification BY DEF IInv, NoticeTypeOK
  <2>2. CASE to = {}
    <3>1. work' = [work EXCEPT ![w] = [at |-> "free"]] /\ inbox' = inbox
      BY <2>2 DEF Broadcast, Goto
    <3>2. WorkersOK' /\ Others(w) /\ HooksIn(work'[w]) = {} /\ work'[w] = [at |-> "free"]
      BY <3>1, PlainStep DEF IInv
    <3> HIDE DEF n, en
    <3> QED BY <2>1, <3>1, <3>2
  <2>3. CASE to # {}
    <3>1. /\ inbox' = inbox \cup {n}
          /\ work' = [work EXCEPT ![w] = Hooked(PushIf(allowed, n), NoTask)]
      BY <2>3 DEF Broadcast
    <3>2. PushIf(allowed, n) = IF allowed THEN <<en>> ELSE <<>> BY DEF PushIf
    <3> HIDE DEF n, en, allowed
    <3>3. CASE allowed
      <4>1. work' = [work EXCEPT ![w] = Hooked(<<en>>, NoTask)]
        BY <3>1, <3>2, <3>3
      <4>2. HookListOK(<<en>>, NoTask) /\ HooksOf(<<en>>) = {en} BY <1>2, Singles
      <4>3. /\ WorkersOK' /\ Others(w) /\ work'[w].at \in {"free", "hooks"}
            /\ HooksIn(work'[w]) = {en}
        BY <4>1, <4>2, HooksBegun DEF IInv
      <4> QED BY <1>2, <2>1, <3>1, <4>3
    <3>4. CASE ~allowed
      <4>1. work' = [work EXCEPT ![w] = [at |-> "free"]]
        BY <3>1, <3>2, <3>4 DEF Hooked, Free
      <4>2. WorkersOK' /\ Others(w) /\ HooksIn(work'[w]) = {} /\ work'[w] = [at |-> "free"]
        BY <4>1, PlainStep DEF IInv
      <4> QED BY <1>2, <2>1, <3>1, <4>2
    <3> QED BY <3>3, <3>4
  <2> QED BY <2>2, <2>3
<1>5. NoticeTypeOK' BY <1>1, <1>4 DEF IInv, NoticeTypeOK, WorkersOK
<1>6. RowsFirst'
  <2>1. n \in inbox' => Ready(en.task, inbox') BY DEF Ready, Enqueue, Deliver
  <2> HIDE DEF n, en
  <2> QED BY <1>1, <1>4, <2>1, RowsKept DEF IInv, Others
<1> HIDE DEF n, en, to
<1>7. TimesHeld' BY <1>1, <1>4, HeldKept DEF IInv
<1>8. TimesOnTheWay' BY <1>1, <1>3, <1>4, TimesKept DEF IInv, Others
<1>9. OwedOnTheWay' BY <1>1, <1>3, <1>4, OwedKept DEF IInv
<1>10. Counted' BY <1>1 DEF IInv, Counted
<1> QED BY <1>4, <1>5, <1>6, <1>7, <1>8, <1>9, <1>10 DEF IInv
------------------------------------------------------------------------------
LEMMA FirstInvariant == NoticeInit => IInv
<1> SUFFICES ASSUME NoticeInit PROVE IInv
  OBVIOUS
<1>1. NoticeTypeOK
  BY NoticesAssumption
  DEF NoticeInit, NoticeTypeOK, NoticesAssumption, Plans, NoWindow, Work, Free
<1>2. work \in [Crew -> Work] /\ \A w \in Crew: work[w] = Free
  BY <1>1 DEF NoticeInit, NoticeTypeOK
<1>3. WorkersOK BY <1>2, PlainWork DEF WorkersOK
<1>4. RowsFirst /\ TimesHeld
  BY <1>2, PlainWork DEF NoticeInit, RowsFirst, TimesHeld, Free
<1>5. TimesOnTheWay /\ OwedOnTheWay
  BY DEF NoticeInit, TimesOnTheWay, OwedOnTheWay
<1>6. Counted BY NoticesAssumption DEF NoticeInit, Counted, NoWindow, NoticesAssumption
<1> QED BY <1>1, <1>3, <1>4, <1>5, <1>6 DEF IInv

LEMMA NextInvariant == IInv /\ [NoticeNext]_noticeVars => IInv'
<1> SUFFICES ASSUME IInv, [NoticeNext]_noticeVars PROVE IInv'
  OBVIOUS
<1>1. CASE Requested
  BY <1>1, KeptByRegisterCommit, KeptByChangePlan, KeptByRegister, KeptByCancel,
     KeptByRestore, KeptByDecide DEF Requested
<1>2. CASE HookStep
  BY <1>2, KeptByRunEnqueue, KeptByRunMail, KeptByRunTell, KeptByMailFails,
     KeptByHookRaises, KeptByDies DEF HookStep
<1>3. CASE TaskStep
  BY <1>3, KeptByAnnounceRows, KeptByAnnounceRaises, KeptByRunDelivery,
     KeptByStartAnnounce, KeptBySendMails DEF TaskStep
<1>4. CASE BroadcastStep
  BY <1>4, KeptByExpire, KeptByAsk, KeptByAddKey, KeptByIncrKey, KeptByAddAgain,
     KeptByBroadcast DEF BroadcastStep
<1>5. CASE \E u \in People: ChangePreferences(u)
  BY <1>5, KeptByChangePreferences
<1>6. CASE UNCHANGED noticeVars
  <2>1. UNCHANGED <<plan, reg, ticketed, restored, willing, decided, work, queue,
                    inbox, mailed, owed, excused,
                    rate, asked>>
    BY <1>6 DEF noticeVars, seats, told, broadcasts
  <2>2. NoticeTypeOK' /\ WorkersOK' /\ RowsFirst' /\ TimesHeld' /\ Counted'
    BY <2>1 DEF IInv, NoticeTypeOK, WorkersOK, RowsFirst, TimesHeld, Counted
  <2>3. TimesOnTheWay' /\ OwedOnTheWay'
    BY <2>1 DEF IInv, TimesOnTheWay, TimesComing, OwedOnTheWay, OwedSaid
  <2> QED BY <2>2, <2>3 DEF IInv
<1> QED BY <1>1, <1>2, <1>3, <1>4, <1>5, <1>6 DEF NoticeNext

LEMMA AlwaysInvariant == NoticeSpec => []IInv
BY FirstInvariant, NextInvariant, PTL DEF NoticeSpec
------------------------------------------------------------------------------
(* Workers, tasks, rows and counters are always well formed.                 *)
THEOREM NoticesTyped == NoticeSpec => []NoticeTypeOK
<1>1. IInv => NoticeTypeOK BY DEF IInv
<1> QED BY <1>1, AlwaysInvariant, PTL

(* Every delivery that a worker may start finds its notification committed:   *)
(* it is enqueued by a hook, after COMMIT, or by a task that wrote the rows.  *)
THEOREM DeliveriesFindRows == NoticeSpec => []DeliveryFindsRows
<1>1. IInv => DeliveryFindsRows BY DEF IInv, RowsFirst, Ready, DeliveryFindsRows
<1> QED BY <1>1, AlwaysInvariant, PTL

(* However many requests read, add and increment the cached counter at once,   *)
(* and whenever its key expires, no more broadcasts than the limit are let     *)
(* through and counted in one window.                                        *)
THEOREM BroadcastsStayLimited == NoticeSpec => []BroadcastsLimited
<1>1. IInv => BroadcastsLimited
  BY NoticesAssumption
  DEF IInv, NoticeTypeOK, Counted, BroadcastsLimited, NoticesAssumption
<1> QED BY <1>1, AlwaysInvariant, PTL

(* Whoever is registered when all work is done has had a mail with the         *)
(* event's present times, unless a failure kept it back, or an administrator    *)
(* gave him the seat back at these times: the mail he was due was always in a   *)
(* hook, in a task or in the queue.                                           *)
THEOREM EveryoneHearsTheTimes == NoticeSpec => []TimesMailed
<1>1. IInv => TimesMailed
  <2> SUFFICES ASSUME IInv, Settled, NEW u \in People \ excused, reg[u] = "in"
               PROVE  plan \in mailed[u] \cup restored[u]
    BY DEF TimesMailed
  <2>1. \A w \in Crew: HooksIn(work[w]) = {} /\ work[w].at # "announcing"
    BY PlainWork DEF Settled, Free
  <2>2. ~TimesComing(u) BY <2>1 DEF TimesComing, WorkOwes, Settled
  <2> QED BY <2>2 DEF IInv, TimesOnTheWay
<1> QED BY <1>1, AlwaysInvariant, PTL

(* No committed registration, cancellation or decision is without its mail     *)
(* when all work is done, but for people whom a failure kept from one: until    *)
(* the mail is sent a hook of the worker that committed the change leads to it. *)
THEOREM EveryoneHearsTheStatus == NoticeSpec => []StatusMailed
<1>1. IInv => StatusMailed
  <2> SUFFICES ASSUME IInv, Settled, NEW x \in owed PROVE x.user \in excused
    BY DEF StatusMailed
  <2>1. x.by \in Crew BY DEF IInv, NoticeTypeOK
  <2>2. HooksIn(work[x.by]) = {} BY <2>1, PlainWork DEF Settled
  <2> QED BY <2>2 DEF IInv, OwedOnTheWay, OwedSaid
<1> QED BY <1>1, AlwaysInvariant, PTL
==============================================================================
