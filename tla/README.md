# UEvent backend: TLA+ models, model checks and proofs

UEvent is a Django REST backend for university events: people register and get
tickets, scanners check them in, organizers run events, administrators manage
users, places, notifications and content. PostgreSQL holds the state, Redis holds
a cache and the Celery queue, Keycloak holds the login accounts, Firebase (FCM)
delivers pushes and Dify drafts answers to questions. Requests run in several
gunicorn workers, background work in Celery workers, so every handler may be
interleaved with every other one at each statement, lock, cache call and remote
call. The modules here model those interleavings. Paths below are relative to the
repository root (`src/` here).

## 1. Inventory

| Component (code) | State | Operations | Hard behaviour | What makes it correct | Module |
|---|---|---|---|---|---|
| Registrations, tickets, check-in (`apps/registrations/services.py`, `views.py`, `apps/system_admin/services/ticket_services.py`) | registration status, ticket status/used_at/expires_at, check-in rows, seats of an event | register, cancel (user, organizer), issue, scan, organizer's PATCH, admin cancel / restore | count-then-write, objects read before their transaction, row locks in opposite orders, deadlocks | capacity, one admission per person, tickets agree with registrations, a check-in stays, every call ends | `Registrations`, `Admission` |
| User roles (`apps/system_admin/services/user_services.py`, `apps/users/services.py`) | `user_roles` rows (live, soft deleted, primary) | assign, remove, sync, login sync | partial unique indexes against unlocked reads | one primary role | `UserRoles` |
| Organizer requests (`apps/organizer_requests/services.py`) | request status | create, cancel, approve, reject | two reviewers, approval rewrites roles | decided once; the person is told | `UserRoles`, `Notices` |
| Push notifications and inbox (`apps/notifications/...`) | notification status, recipient status/read_at, device tokens | deliver, retry, mark read, register / unregister a device | FCM answers after seconds, retries, lost tasks | pushed by one task, SENT is true, outcomes final | `PushDelivery` |
| Notification administration (`apps/system_admin/services/notification_services.py`) | same rows | create, update, publish, schedule, delete, dispatch | enqueue after COMMIT | published once | `PushDelivery` |
| Event and system notifications, mails, broadcasts (`apps/notifications/services/event_notification_service.py`, `apps/notifications/tasks.py`, `apps/registrations/views.py`) | rows and tasks of a notification, mails, the rate limit's counter in the cache | what register, cancel, new times, a decided request and a broadcast set off | on_commit hooks that run in order and may raise, Celery retries, a cache key that expires between two calls | everybody is told what concerns him, deliveries find their rows, broadcasts are limited | `Notices` |
| Events and organizers (`apps/events/services.py`, `views.py`, `apps/system_admin/services/event_services.py`) | event row, team of organizers, moderation log | create, edit, delete, decide, add / remove an organizer, grant to a registration | whole-row saves of unlocked reads | decided statuses are logged, new times are announced, the team keeps its creator, pages and rights agree | `Events` |
| Accounts, Keycloak provisioning (`apps/users/services.py`, `common/keycloak_admin.py`) | users, identities, Keycloak accounts | provision, e-mail change, ban, delete, restore | remote write inside a transaction, stale tokens, whole-row saves | one user per address, bans and deletions stay | `Accounts` |
| Token authentication (`common/authentication.py`) | token cache | authenticate | stale tokens and cache entries | banned users are refused | `Accounts` (the cache is left out) |
| One-time passwords (`common/otp.py`, `apps/users/otp_views.py`) | three cache keys per address | send, verify, consume | every cache call is a step | a spent code is gone, few wrong entries | `OneTimeCodes` |
| Passkeys (`apps/users/passkey_services.py`) | challenges, credentials | begin, verify a registration or a login, revoke | rollback after a remote failure, responses out of order | one login per challenge, none after a revocation, a counter that grows | `Passkeys` |
| Google sign-in (`apps/users/google_views.py`) | identities, Keycloak accounts | log in with an ID token | nothing is locked between its steps, addresses change | an identity stays with its user | `GoogleLogin` |
| Questions and AI answers (`apps/interactions/...`) | question, AI job, replies | ask, edit, answer, hide, delete; the task | duplicated, lost or interrupted task, whole-row edits | one AI reply, a completed job has replied, every job is decided | `Questions` |
| Support tickets (`apps/support/...`, `apps/system_admin/services/support_services.py`) | ticket, messages | open, add a message, reply, resolve, escalate, update, statistics | a ticket checked before the message's transaction | an answered ticket is not open, statistics count what was resolved | `SupportTickets` |
| Help center, legal documents (same files) | category, articles, versions of a document | create, edit, publish, archive, delete, public pages | whole-row edits | what is public was published, one version is the latest | `HelpCenter` |
| Locations and categories (`apps/system_admin/services/location_services.py`, `category_services.py`, ...) | campus / building / room, category rows, an event's room and category | create, update, delete or deactivate, book | count-then-delete, check-then-insert | nothing live under a deleted parent unless calls overlap | `Catalogue` |
| Settings | setting rows | update, read to be shown | - | - | not modelled |
| Reports, dashboard, exports, audit | none of their own | queries, spreadsheets | - | - | not modelled |
| Moderation | log rows written by others | - | - | - | those of an event in `Events` |
| REST plumbing, S3 | none | formatting, logging, presigned URLs | - | - | not modelled |

How they meet: registration and check-in read the event row and lock it; the
organizer and the administrator write it. An approved organizer request writes role
rows, as do every login and the administrator. Events, registrations and support
create notifications, whose delivery task runs after COMMIT. Login by code uses
the one-time codes, then Keycloak provisioning, which synchronises the roles.

## 2. Plan

Done, in this order: `Registrations` with its abstract specification `Admission`
and the proofs of both; `UserRoles`, `PushDelivery`, `OneTimeCodes`, `Accounts`;
`Events`, `Questions`, `Passkeys`, `GoogleLogin`, `Catalogue`, `SupportTickets`,
`HelpCenter`, `Notices`; proofs about `Events`, `Notices`, `Questions`, `Passkeys`,
`GoogleLogin`, `OneTimeCodes`, `PushDelivery` and `Accounts`; proofs about `UserRoles`,
`Catalogue`, `SupportTickets` and `HelpCenter`, and the bound on wrong one-time codes.

What would come next: the composition of `Events` with `Registrations` through more
than the values a write of the event row may have; a refinement of `Notices`' tasks by
`PushDelivery`'s.

## 3. Modules

In every module a *call* is a request or task in progress: `call[w]` (`change[w]` in
`Catalogue`, `editing[e]` in `HelpCenter`) holds the local variables of the call worker
`w` is running, and `at` the place it has reached. An action is the code between two points where another process can come
in: a statement that reads committed rows, a row lock (the statement waits until
the row is free), a cache call, a remote call, the COMMIT. Writes of a transaction
become visible at its COMMIT, so they are one action, together with the checks
that follow the last lock.

Operators named `Bug...` are variants of the definition below them with a
plausible mistake; no specification uses them. They serve to check that the
properties notice.

### Registrations (and Admission)

One event, its registrations and tickets. `event` is the event row (is it live and
not deleted, capacity, the registration and event times), `status[u]` the
registration of user u ("none": no row), `ticket[u]` its ticket, `admits[u]` the
number of SUCCESS check-in rows, `now` the clock.

| Actions | Code |
|---|---|
| `CreateLockEvent`, `CreateLockReg`, `CreateCount`, `CreateCommit` | `create_event_registration` |
| `IssueLockReg`, `LockEvent`, `IssueCommit` | `create_ticket_for_registration` |
| `AdminLockTicket`, `LockReg`, `LockEvent`, `AdminCancelCommit`, `RestoreCount`, `RestoreCommit` | `AdminTicketService.cancel_ticket`, `restore_ticket` |
| `ScanRead`, `ScanUnresolved`, `ScanLockTicket`, ..., `ScanCommit` | `EventCheckinScanView.post`, `process_checkin_scan` |
| `CancelRead`, `CancelLockReg`, `CancelCommit` | the two cancel views, `cancel_event_registration` |
| `PatchRead`, `PatchCommit` | `TicketDetailView.patch` |
| `EventWrite`, `Tick`, `DeadlockAbort` | a write of the event row, the clock, PostgreSQL's deadlock detector |

The operations fall into two classes. `LockedOps` (register, issue, admin cancel,
restore, scan) decide on rows they hold locked. `UnlockedOps` (cancel, PATCH)
decide on objects a view read before the transaction. The constant `Ops` says which
are running; most guarantees hold for `Ops \subseteq LockedOps`, some for all.

A ticket's `lock_for_checkin` joins registration and event in one statement;
PostgreSQL locks the rows one after the other, so the model does too (ticket,
registration, event), while registering goes event, registration, ticket. That
is where the deadlocks come from.

`Admission` is what the component promises: a seat is handed out while there is
room, others wait only when there is none, whoever is in stays in.
`Registrations!ImplementsAdmission` maps the status of a registration to a seat.

Left out: the reads of the ORM that decide nothing, statuses no code writes, form
answers, the co-hosts' check-in rights (they grant the right to scan, which the
model leaves to anybody).

### UserRoles

The role rows of one user: `alive` (live rows), `gone` (soft deleted rows), `primary`
(rows with `is_primary`, live or not), and that user's organizer requests. The unique
indexes (one row per user and role, one primary row per user, soft deleted rows
counted) refuse a COMMIT, so a race ends in a refused call or in what the code
wrote; both are disjuncts of the commit actions. Calls, each `...Read` or `...Lock` and
then `...Commit`: login (role sync from the token), assign, remove, sync, create
(`RequestRead`, `RequestCommit`) / cancel / reject / approve a request.

### PushDelivery

One notification, its recipients, the devices, and the Celery tasks that deliver it.
`ReadBatch`, `MarkTokenless`, `Send`, `Persist` are the steps of
`deliver_notification`; `Retry`, `Raise`, `Kill`, `EnqueueLost` are Celery's
autoretry, an exception, a lost worker and a broker that cannot be reached;
`Create`, `Update`, `Publish`, `Delete`, `Dispatch` the administrator and the system;
`MarkRead`, `Register`, `Unregister` the inbox. FCM may accept, fail for good (and
invalidate the token) or fail in a way that may be retried, for each pair of a recipient
and a token, in the order of the messages; `ByToken` keeps the last answer for each
token, as `result_by_token` does. `reached` is history: the pairs of a
recipient and a token that accepted a push of the send he was part of, which where two
recipients have one token may be the other's push.

### OneTimeCodes

The three cache keys of one address: code, wrong entries, cool-down, each with its
lifetime. Every `cache.get/set/delete/ttl` is one step. The work between accepting
the code and deleting it (Keycloak's token exchange, the change of address) is
`Succeed`; its failure is `KeepCode`, and a check whose only use is to let another
mail out is `OnlyChecked`.
`spent` and `wrong` are history: codes used to the end, wrong entries since the
counter was last reset.

### Accounts

`row[u]` is a user's row (how it was made, user name, address, banned, deleted),
`identity[s]` the user a Keycloak subject signs in as, `account[s]` the address
that subject has in Keycloak, `tokens` the tokens that have not expired, each with
the address it was issued for.

| Actions | Code |
|---|---|
| `Enrol`, `Issue`, `Expire` | Keycloak, as `common/keycloak_admin.py` uses it |
| `ProvisionFind`, `ProvisionMatch`, `ProvisionCommit` | `provision_from_payload`, `_get_or_create_user_for_email`, `_sync_user_profile` |
| `ChangeAsk`, `ChangeLock`, `ChangeKeycloak`, `ChangeCommit` | `change_email_with_otp`, `update_keycloak_user_email` |
| `CreateRead`, `CreateCommit` | `AdminCreateUserInputSerializer`, `create_user` |
| `AdminRead`, `AdminFlag` | `ban_user`, `unban_user`, `soft_delete_user`, `restore_user` |
| `AdminRead`, `AdminUpdate` | `update_user`, which saves the whole row it read |
| `Fail` | an index, Keycloak or the connection fails; Keycloak keeps what it was told |

Left out: the profile, `is_active` (nothing clears it), the roles, the codes, and the
cache of signed-in users. A cached user is read from its row again and tested
like any other (`_get_cached_user`), so a hit is a request that provisions nothing,
and the model lets a token go without provisioning at any time.

### Events

One event from its creation to its deletion. `row` is its row (status, start, end,
deleted), `role[u]` and `removed` the rows of `event_organizers`, `decided` the
statuses in the moderation log, `told` the times last announced, `heard` all that was
announced since the times were moved last, and `missed` what may have gone wrong with it:
an announcement was lost, one was still pending when the times moved, or a stale edit
wrote the row.

| Actions | Code |
|---|---|
| `Create` | `create_event` |
| `EditRead`, `EditCommit`, `Announce` | the PATCH view, `update_event` up to its COMMIT, its `on_commit` hook that enqueues the announcement of new times |
| `DeleteRead`, `DeleteCommit` | the DELETE view, `OrganizerEventService.delete_event` |
| `Decide`, `AdminDelete` | `AdminEventService`: the row is locked, a column is written, the decision is logged, in one transaction |
| `TeamRead`, `AddCommit`, `RemoveRead`, `RemoveCommit`, `GrantCommit` | the organizers' views, the grant of co-host rights to a registration |
| `Fail` | the request fails before its COMMIT, or between COMMIT and hook |

An edit saves every column of a row read without a lock. It can therefore undo a
decision, bring a deleted event back and move the times back; the properties say what
survives this.

### Catalogue

`row[x]` is the row of a campus, building, room, category or event: its parents, one
code that stands for each unique column, whether it is active and deleted. Each call
is cut between its last read (validation, counting) and its first write:
`CreateRead` / `CreateCommit`, `PatchRead` / `PatchCommit`, `DeleteRead` and then
`DropCommit` (nothing alive below: soft delete) or `DeactivateCommit` (deactivate the
row and the places below it). `change[w]` is what client `w` is doing; its `alone` says
that nothing else has been under way since its first read (`NothingElse`). `raced` and `refused` are history: rows orphaned by a call
that overlapped another one, reasons for which a unique index refused a write.
`MCCatalogue` explores four parts: buildings that move (`Moves`), a room with an event
in it (`Booking`), two buildings that exchange codes (`Buildings2`), two categories and
their slugs (`Slugs`).

### Questions

One question, its AI job and the deliveries of the job's task. The request that asks
makes the question (`Ask`), after COMMIT the job (`MakeJob`), sends the task
(`Enqueue`) and notes it (`Stamp`), or marks the job failed when the broker
refuses (`MarkRefused`). `TaskRead`, `TaskReturns`, `TaskSkips`, `TaskKeyless`,
`TaskCalls`, `Publish`, `Decline`, `TaskFails` are `generate_ai_answer_for_question` from the
read of the job to the transaction that posts the reply; `AskerDies`, `TaskDies` and
`Redeliver` the faults of processes and of the broker. `EditRead` / `EditSave` is the
PATCH view with its whole-row save, `Answer`, `Hide`, `Delete` the other views,
`Toggle` the event's AI setting.

### SupportTickets and HelpCenter

A ticket: `CreateTicket`, `MessageRead` / `MessageCommit` (the user's message is
checked against an unlocked row), `Reply`, `Resolve`, `Escalate`, `UpdateTicket` (locked,
one step each), and the days by which `get_statistics` counts. A message takes its time
(`MessageStamp`) before the UPDATE that may wait for the row, over midnight too; `late`
is history: the ticket's last write was such a message. The help center: pages
(articles and versions of a legal document) that are created, edited
(`PageRead` / `PageSave`, whole row), published, archived and deleted, their category,
and the queries of the public views (`PublishedArticles`, `PublicDocuments`, `Latest`).
`MCSupport` explores each while the other rests; they share no state.

### Passkeys and GoogleLogin

`Passkeys`: the challenges and the credential of one authenticator. `BeginCeremony`
creates a challenge, `Sign` is the authenticator (responses wait in `response` and
may be delivered in any order), `LockChallenge`, `RegisterCommit`,
`LockCredential`, `IssueTokens`, `LoginCommit`, `Fail` are the steps of the two verify
functions with their row locks, `Expire` the clock, `Revoke` the user,
`RevokeByAdmin` an administrator.

`GoogleLogin`: a login goes from the verified ID token (`VerifyClaim`) to the Keycloak
account with its address (`FindAccount`, `AddAccount`), through authentication with its
token (`Authenticate`, `RetryToken`) to the link (`LookAtLink`, `Link`), with no lock
from one step to the next, while addresses change and users are banned.

`MCSignIn` joins both with `OneTimeCodes`. The three share no state, and TLC explores
each while the others rest.

### Notices

What is written, queued and mailed about one event. `reg` and `plan` are the
participants' registrations and the version of the event's times and place, `ticketed`
who has had a ticket; `work[w]` what a web or Celery worker is doing; `queue` the broker;
`inbox` the committed notifications; `mailed` the times that mails told; `owed` the
committed changes whose mail has not been sent; `rate` the counter in the cache.

| Actions | Code |
|---|---|
| `Register`, `RegisterCommit`, `Cancel`, `ChangePlan`, `Decide` | the transactions of the registration views, of `update_event` and of the review of an organizer request, with the `on_commit` hooks they leave |
| `Restore` | `AdminTicketService.restore_ticket`, which gives the registration back and leaves no hook; `restored` notes at which times |
| `RunEnqueue`, `RunMail`, `MailFails`, `RunTell`, `HookRaises`, `RetryTask`, `Dies` | the hooks, in order; one that raises skips the later ones in a web worker and makes Celery retry in a task |
| `StartAnnounce`, `AnnounceRows`, `AnnounceRaises`, `SendMails`, `RunDelivery` | the Celery tasks |
| `Ask`, `AddKey`, `IncrKey`, `AddAgain`, `Expire`, `Broadcast` | an organizer's broadcast and its rate limit, cache call by cache call |

`excused` names the people whom a fault of the broker, of a worker or of the mail kept
from a mail, each with the fault's own action. The properties except these people, and
`TimesMailed` also the very times at which somebody was restored, which the code mails to
nobody; times that change afterwards it does ask for. Left out, besides what the module's
head lists: cancels that decide on a stale object (`Registrations` has them).

## 4. Runs

| Run | Bounds | Checks |
|---|---|---|
| `RegLocked` | 3 users, 2 workers, 1 seat, 5 instants (before, open, running, ended, after), `LockedOps` | `TicketMatchesRegistration`, `AdmittedOnce`, `SeatsGrantedWithinCapacity`, `CheckedInIsFinal`, `ImplementsAdmission` |
| `RegLiveness` | 1 user, 2 workers, locked and stale operations, event cancelled and deleted meanwhile | `CallsEnd`, `SeatedHasTicket` |
| `RegUndoneCheckIn` | 1 user, 2 workers, register, scan, cancel | `CheckedInIsFinal`, violated |
| `Roles` | 3 roles, 2 requests, 2 calls at a time | `OnlyKnownRacesLosePrimary`, `DecidedOnce` |
| `Accounts` | 2 users, 2 subjects, 2 addresses, 1 token at a time, 2 requests | `CallsStillRight`, `OneUserPerEmail`, `OnlyAdminsReinstate` |
| `SignIn` | codes: 3 requests, 2 codes, 2 attempts, 2 ticks; passkeys: 3 challenges, 2 verifications at a time, 2 tries of a login; Google: 2 Google accounts, 3 Keycloak accounts, 2 addresses, 2 logins at a time | `SpentCodeGone`, `WrongEntriesLimited`, `OneLoginPerChallenge`, `RevokedSignsNobodyIn`, `CounterNeverBack`, `SettledIdentityStays` |
| `Events` | 2 users, 2 instants, 2 calls at a time | `DecisionsLogged`, `KnownTimes`, `CreatorNeverRemoved`, `RelationAgrees` |
| `Catalogue` | four parts of at most 2 campuses, 2 buildings, 1 room, 2 categories, 1 event; 2 calls at a time | `OrphansOnlyByRaces`, `ChecksCoverIndexes`, `OnlyAskedToReturn` |
| `Questions` | 1 edit at a time, 2 deliveries, every fault | `OneAiReply`, `ReplyMeansCompleted`, `UndoneByStaleEdit`, `JobDecided` |
| `Support` | 3 days, 2 messages on their way; 1 article, 2 documents, 2 times of publication, 1 edit at a time | `AnsweredNotOpen`, `ResolvedTodayCounted`, `PublicPages`, `FirstTimeKept` |
| `Push` | 2 recipients, 2 devices, 2 tasks, 1 retry, every answer of FCM, every fault | `PushedByOneTask`, `SentMeansAccepted`, `OutcomeFinal` |
| `Notices` | 1 participant, 2 workers, 2 changes of the times, 1 retry; 4 broadcasts with a limit of 2 | `TimesMailed`, `StatusMailed`, `DeliveryFindsRows`, `BroadcastsLimited` |

All but `RegUndoneCheckIn` hold.

What they show. `RegLocked`: the operations that decide under locks never admit
anybody twice nor grant a seat too many, tickets agree with registrations, and each
transaction looks like one step of `Admission`. `RegLiveness`: every call ends, thanks
only to the deadlock detector, and with the stale operations too whoever is seated
has a ticket. `Roles`: a request is decided once, and exactly three races lose the
primary role, each named with the state that makes it one. `Accounts`: what a login tested is true when it writes, logins never make
two users of one address, only an administrator's operations lift bans. `SignIn`: a
spent code is never in the cache again and the lost updates of the wrong-entry counter
stay within a bound; a challenge signs in once, a revoked passkey never; an identity
stays with its user once no login that has looked at it is about to move it. `Events`:
whatever stale edit is saved, a decided status is in the log, and the present times were
announced since they moved but for lost announcements and stale writes; they are the last
announced unless two edits announce out of order. `Catalogue`: one call at a time, what is counted and validated is
enough. `Questions`: two replies need two overlapping deliveries, a job is decided
unless something was lost. `Support`: no message reopens a ticket, what was resolved today
is counted unless a message that waited over midnight wrote last, public pages have the
time of their first publication. `Push`: one task pushes, SENT means that a device the
user was pushed to accepted the notification, outcomes are not revised. `Notices`: when all
is quiet, every registration, cancellation and decision has been mailed and each
participant has the present times from a mail, unless a fault kept it from him or an
administrator restored him at these times.

Several properties hold although the code has a race, because they say exactly which
writes may break a rule and that no other does: `OrphansOnlyByRaces` (count, then
delete), `ChecksCoverIndexes` (test, then insert), `DecisionsLogged` and `UndoneByStaleEdit`
(an edit of a stale row), `OnlyAdminsReinstate` (`update_user`), `OnlyKnownRacesLosePrimary`,
`FirstTimeKept`, `KnownTimes`. They do not promise the race away.

Why the bounds are enough. With one seat and three people there are always a
holder, a competitor and somebody waiting; two workers interleave every pair of
operations, and the properties are about pairs (two scans, two grants, a decision and
what undoes it). `MaxTime` lets the clock pass each of the event's times once;
`MaxAdmits` bounds the check-in rows, which `AdmittedOnce` shows is not reached. In
`RegLiveness` two workers close a cycle of two locks, taken in opposite orders by
registering and scanning. For roles three codes are enough for "the old primary, the
new one, another", two requests for a decision on each. In `PushDelivery` two
recipients fill one batch. In `OneTimeCodes` two codes give the old and the new one,
three requests give a sender and two who enter codes; time passes a code's whole life;
the bound on wrong entries depends on the number of concurrent requests, so it is
stated with it. Three challenges are a registration and two logins; the Google instance
has one account whose address changed to one that another account gave up. In
`Accounts` two addresses are the old and the new one and two users compete for them; a
call keeps the token it began with, so one at a time is enough (`MaxTokens`); the user
names an administrator gives are addresses, since only those can clash with a login.
In `Events` the second user is the co-host, two instants are old and new times.
`Notices` promises each participant something on his own, hence one; two changes of the
times let the first announcement be late; four broadcasts pass a limit of two, `MaxQueue`
bounds the tasks the broker holds. Where a theorem holds (section 7) none of these
bounds is needed.

Type invariants are not listed in the runs where a theorem states them: those of
`Registrations`, `Accounts`, `OneTimeCodes`, `PushDelivery` and `Notices` are theorems of
their own, the typing of `Passkeys` and what the proofs need of `Events`, `Questions` and
`GoogleLogin` are parts of their inductive invariants, as are those of `Catalogue`,
`SupportTickets` and `HelpCenter`; that of `UserRoles`, with its unique indexes, is a
theorem too. `TypeOK` of `Questions` and `Events` and `GoogleTypeOK` hold when they are
added to `Questions.cfg`, `Events.cfg` and `SignIn.cfg`.

Symmetry is used for users, workers, devices where no definition tells them apart,
and never in runs with a liveness property. Deadlock is checked except where a bound ends
the behaviours: codes, challenges and time in `SignIn`, the rows that may be created in
`Catalogue`, a deleted event in `Events`, the mails and broadcasts in `Notices`.

## 5. Where the code and its documents disagree

`RegUndoneCheckIn`: "Registration is already checked in."
(`apps/registrations/services.py:220`) refuses to cancel, but
`cancel_event_registration` tests an object its view read before the transaction and
never reads it again: a check-in that commits in between is overwritten
(`apps/registrations/services.py:219-234`).

Some modules define claims that the code does not keep. No run checks them; they are
there to be tried, and each has a short counterexample:

* `NeverOverbooked` with stale cancels: the stale object decides whether the ticket is
  voided, and a ticket that survives its registration lets a waitlisted person in
  beyond the capacity (`Docs/ERD_final.md:722`).
* `UsedOnce`: two concurrent requests use one code (`common/otp.py:85`).
* `ReadKept`: the delivery task writes its outcome over a READ recorded since.
* `LeavesQueue`: recipients beyond the first batch of 500 are never delivered.
* `StartBeforeEnd`: the start is compared with the end only when a PATCH sends both
  (`Docs/Endpoint/organizer_event.md:330`).
* `ListedForOrganizers`: removed organizers still find the event in the list of those
  they organize (`apps/events/services.py:98`).
* `BookedWhereOffered`: an event may be put in a room that is not offered, because it or
  its building is inactive (`apps/locations/views.py:16`).

Seen while modelling, in the models or by reading:

* A scan judges the event on a row read before its locks, so an event cancelled
  meanwhile still lets people in (`Docs/sequence/qr.txt:27-28`).
* A registration made again on a full event is waitlisted and keeps the cancelled ticket
  of its first life (`Docs/Endpoint/user_event_flow.md:449`).
* `expires_at` of issued tickets does not follow a moved `end_at`
  (`Docs/ERD_final.md:725`); `cancellation_deadline_at` is never compared with the time
  (`Docs/sequence/cancel.txt:21-23`).
* A role sync can be refused by the index its comment says it avoids
  (`apps/system_admin/services/user_services.py:23-24`); `remove_role` tests
  `is_primary` on an unlocked row, so that a user may be left without a primary role
  (`Docs/ERD_final.md:720`; `OnlyKnownRacesLosePrimary` shows that this and two other
  races are the only ways).
* `update_user` can undo a ban committed since it read the user (`OnlyAdminsReinstate`
  names it as the one exception); when an index or the COMMIT fails after Keycloak took
  a new address, the two places disagree until the next login; two administrators can
  create users with one address, who then cannot sign in by it.
* Organizers may set the statuses draft and active, not the ones the document names
  (`Docs/Endpoint/organizer_event.md:346-347`).
* A category whose slug is sent blank is stored so; the second one is a 500. The counts
  of events shown with a category or a place include deleted events.
* `restore_ticket` makes a cancelled registration valid again and mails nothing
  (`apps/system_admin/services/ticket_services.py:196-203`): whose event moved while he was
  out never hears of it. The announcement of new times is a hook after COMMIT
  (`apps/events/services.py:270-274`): two edits may announce in the opposite order of their
  commits, and a worker that dies in between announces nothing.
* Two users on one device token get one message each, but both recipients are recorded by
  the last answer for the token (`apps/notifications/services/push_delivery_service.py:84`):
  one may be SENT on the other's acceptance.
* A message's `timezone.now()` is taken before its UPDATE (`apps/support/services.py:170`);
  one that waits for `resolve_ticket` over midnight stamps the ticket with yesterday, and
  the day's statistics miss it.
* `update_event` accepts a capacity below the seats taken. A published notification whose
  task cannot be enqueued stays SENT and is delivered to nobody.
* Mails about new times may overtake each other, and a registration's mail may be
  overtaken by that of a later cancellation. Preferences are read when a push is
  queued, not when it is delivered. When a hook cannot reach the broker the request
  answers 500 and the mail is lost, although the registration stands.
  `event_updated.html` uses `event_title`, which the task's context does not give.
* Two racing logins of one Google account, under its old and its new address, can take
  its identity from each other, despite "Google identity is already linked to another
  user"; a Google login that is refused leaves behind the Keycloak account and the user
  it made.

## 6. Fairness

`RegLiveness` assumes strong fairness of a call's next step and weak fairness of
`DeadlockAbort`. A worker runs the call it has begun; what can hold a call up is a row
lock, and PostgreSQL queues those who wait for a row, so a waiter is not overtaken
for ever although the lock is taken and given back meanwhile: strong fairness. A cycle
of waiters does not go away by itself, and the detector runs after `deadlock_timeout`:
weak fairness. No request has to arrive, so starting a call is not fair.

`Questions` assumes weak fairness of the steps of the request that asks and of each
delivery: gunicorn finishes a request it has begun and Celery runs a task that was sent.
Faults are not fair, and what they lose is recorded in `givenUp`, the only excuse that
`JobDecided` accepts. The other specifications state no fairness: their properties are
safety.

## 7. Proofs

Each proof module EXTENDS the modules it is about. Everything holds for all values of
the constants under the named assumptions of those modules: sets are what they are said
to be, bounds are natural numbers. Where an inductive invariant is named, it is the
conjunction that `Init` implies and each action preserves; the theorems follow from it.

* `RegistrationsProofs`: `TypeCorrect`; `LocksExclusive`, one lemma per kind of lock
  (an action that takes it takes only a free one, every other keeps or gives back what it
  holds); `CapacityRespected`, whose count and write are two steps, so that the
  strengthening `RoomWhileCounted` says that a call which has counted and found room
  still has it, because nobody else can grant a seat while it holds the event row;
  `SeatsHaveTickets`.
  The theorems about `Admission` assume `Ops \subseteq LockedOps`. Their invariant
  `LockedInv` joins `TypeOK`, `LockExclusive`, `TicketMatchesRegistration`, `AdmittedOnce`
  and `CallsStillRight`; the last says that what a call has read under its locks is still
  so. From it follow `TicketsMatch`, `NobodyEntersTwice`, `CheckInsStay` and
  `LockedOpsImplementAdmission`, where each action maps to one step of `Admission` or to
  a stutter. `NeverTooManySeats` adds that an event whose capacity is never changed
  (`SteadyCapacity`) is never overbooked.
* `AccountsProofs`: the invariant joins the types, that user names are unique and those
  of logins are their addresses, that an address in Keycloak has one holder, and what each
  call relies on (`Relies`). From it `AccountsTyped`, `AddressesUnique`,
  `RequestsStillRight`, `BansStay`.
* `SignInProofs`, in three parts. Codes: an issued code is fresh, and a code that was used
  up is in no key and in no request that could write it back (`CodesTyped`,
  `SpentCodesStayGone`). `WrongEntriesBounded` is about a counter that loses updates: let
  `Seen[j]` be how many of the W requests will go on from a count below j. A wrong entry
  makes this profile smaller in the lexicographic order, and no other step changes it
  unless the counter is reset, so the wrong entries are at most as many as the profiles
  beyond the present one (`LimitInv`). There are C(MaxAttempts + W, W) profiles, by
  Pascal's rule. The induction in that count, and the one that gives the recursive
  definition of the factorial a solution, go through the least element of a set of
  numbers, since the provers cannot instantiate a rule of induction. Passkeys: the locks of challenge and credential are held by one
  verification each, and what it tested stays true until it commits
  (`ChallengesAnsweredOnce`, `RevocationsHold`, `CountersGrow`). Google: what a login has
  reached tells which account it has (`IdentitiesSettle`).
* `EventsProofs`: the invariant says that every copy an edit holds is a row that was once
  there, so that its status is among those decided; that the creator keeps a row that is
  not removed, also in the calls in progress; and, while announcements are pending, that
  the present times are among those heard or about to be announced, unless `missed` says why
  not (`NewsOK`), and that they were announced last when just one was ever pending
  (`EveryDecisionLogged`, `TimesKnown`, `CreatorStays`, `RelationsAgree`).
* `QuestionsProofs`: while no two deliveries overlap, the one at work is alone and has
  not replied (`RepliesOnce`, `CompletedMeansReplied`, `OnlyStaleEditsUndo`).
* `PushDeliveryProofs`: one task has been published, each device counts no more pushes
  than its tries, and a token that a batch in hand counts as accepted did accept a push of
  that send, so the pairs it is counted for are in `reached` (`PushTyped`,
  `OneTaskPushes`, `SentIsTrue`, `OutcomesStay`).
* `NoticesProofs`: `TimesMailed` and `StatusMailed` speak of quiet moments and are not
  inductive. The invariant says where each mail is that is still owed: that of a change in a
  hook of the worker that committed it (`OwedOnTheWay`), that about new times in a hook, in
  an announcement to come or in the queue (`TimesOnTheWay`), until it is sent or excused
  (`NoticesTyped`, `EveryoneHearsTheTimes`, `EveryoneHearsTheStatus`,
  `DeliveriesFindRows`, `BroadcastsStayLimited`).
* `AdministrationProofs`, in four parts, one invariant each.
  Roles (`RolesInv`): no commit relies on what it read for the unique indexes, each is
  refused by them or keeps them (`RowsAreUnique`, which is `TypeOK`); one call at a time
  holds the user's row, so the request it reviews is still pending when it commits
  (`DecisionsStay`). Going through the commits shows which of them can end
  the state with one live primary role (`OnlyRacesLosePrimary`).
  Catalogue (`CatalogueInv`): what a change that has been alone since its first read
  tested and counted is still so, the copy of a PATCH included; `OrphansOnlyByRaces` and
  `ChecksCoverIndexes` are inductive relative to that (`OnlyRacesOrphan`,
  `TestsCoverIndexes`, `ReturnsAreAsked`).
  Support tickets (`TicketInv`): every write stamps the ticket, so a resolved ticket was
  updated no earlier than it was resolved, unless a late message wrote last, and a message
  about to write has a time that is not in the future (`AnswersStay`, `CountsAreRight`).
  Help center (`HelpInv`): a time of publication belongs to one page, where the copies
  that edits hold count as that page (`HasTime`); two public versions of a document
  therefore have different times (`PublicPagesPublished`, `RepublishingKeepsTime`).

Only model-checked: the liveness properties `CallsEnd` and `JobDecided`, which the proof
system does not reach. Every other property of a passing run is a theorem.

## 8. Not modelled

Settings are written one by one and read only to be shown; no other code asks for one.
Reports, dashboards, exports and audit only read, or append rows nobody reads back to
decide. Moderation has models and no behaviour of its own. The REST plumbing has no
state. Feedback's views are commented out. The command `repair_keycloak_users` is run by
hand; with `--apply` it asks for row locks on a `.distinct()` query (lines 53–62), which
PostgreSQL refuses, so it ends before it changes anything. Within the modelled components: formatting, validation of single fields, paging
and filters, permission checks that depend only on the caller, favourites, images and
presigned URLs, form fields, e-tickets and QR images, and what else the modules' heads
list as left out. PostgreSQL, Redis, Celery, FCM, Keycloak, Google, Dify and WebAuthn
are modelled from the way the code uses them.

## 9. Running

    tlc -workers 2 -config RegLocked.cfg MCRegistrations.tla
    tlapm RegistrationsProofs.tla

The configurations `Reg*` belong to `MCRegistrations`, `Roles` to `MCUserRoles`, `Push`
to `MCPushDelivery`; `Accounts`, `Catalogue`, `Events`, `Notices`, `Questions`, `SignIn`
and `Support` to the module of their name with `MC` in front. The proof modules are the
eight whose names end in `Proofs`. Operators of `PROJECT.json`'s `map` name the lines
each definition stands for; its `hazards` list what the properties are for.
