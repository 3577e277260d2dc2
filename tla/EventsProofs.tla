----------------------------- MODULE EventsProofs -----------------------------
(* Theorems about Events, for any number of users, workers and any edits.    *)
EXTENDS Events, TLAPS

(* What an edit in progress read: a row that was once committed, so that its *)
(* status was the organizers' or decided by an administrator.               *)
CopiesAreOld ==
  \A w \in Workers:
    call[w].op = "edit"
      => /\ Exists
         /\ call[w].copy \in EventRow
         /\ call[w].copy.status \in OrganizerStatuses \cup decided

(* Calls about the team wait for an event that exists, and only for those    *)
(* that may be removed.                                                     *)
TeamCalls ==
  \A w \in Workers:
    /\ call[w].op \in {"add", "remove", "grant"} => call[w].user \in Users
    /\ call[w].op # "none" => Exists
    /\ call[w].op = "remove" => call[w].user # Creator /\ role[call[w].user] # "none"

(* The team has its creator from the first.                                 *)
TeamOK ==
  /\ role \in [Users -> {"none", "owner", "co_host"}]
  /\ removed \subseteq {u \in Users : role[u] # "none"}
  /\ \A u \in Users \ {Creator}: role[u] # "owner"
  /\ Exists => role[Creator] # "none" /\ Creator \notin removed
  /\ ~Exists => \A u \in Users: role[u] = "none"

StatusOK ==
  /\ row \in EventRow \cup {NoRow}
  /\ Exists => row.status \in OrganizerStatuses \cup decided
  /\ decided \subseteq Statuses

CallsOK == call \in [Workers -> Call]

IInv == StatusOK /\ TeamOK /\ CopiesAreOld /\ TeamCalls /\ CallsOK
------------------------------------------------------------------------------
(* A row that exists is not the absent one.                                 *)
LEMMA RowsExist ==
  ASSUME NEW r \in EventRow
  PROVE  r # NoRow
<1>1. "none" \notin Statuses \cup OrganizerStatuses
  BY EventsAssumption DEF EventsAssumption, OrganizerStatuses
<1>2. r.status \in Statuses \cup OrganizerStatuses
  BY DEF EventRow
<1> QED BY <1>1, <1>2 DEF NoRow

(* What an edit saves is a row, with the status it read or one of those an   *)
(* organizer may send.                                                      *)
LEMMA EditedRow ==
  ASSUME NEW r \in EventRow, NEW p \in Patches
  PROVE  /\ Edited(r, p) \in EventRow
         /\ Edited(r, p).status \in OrganizerStatuses \cup {r.status}
<1>1. DOMAIN r = {"status", "deleted", "start", "end"}
  BY DEF EventRow
<1>2. /\ r.status \in Statuses \cup OrganizerStatuses /\ r.deleted \in BOOLEAN
      /\ r.start \in Instants /\ r.end \in Instants
  BY DEF EventRow
<1>3. CASE p \in TimePatches
  <2>1. PICK D \in SUBSET {"start", "end"} : p \in [D -> Instants]
    BY <1>3 DEF TimePatches, TimeField
  <2>2. Edited(r, p) = [status |-> r.status, deleted |-> r.deleted,
                        start |-> IF "start" \in D THEN p["start"] ELSE r.start,
                        end |-> IF "end" \in D THEN p["end"] ELSE r.end]
    BY <1>1, <2>1 DEF Edited
  <2> QED BY <1>2, <2>1, <2>2 DEF EventRow
<1>4. CASE \E s \in OrganizerStatuses : p = [x \in {"status"} |-> s]
  <2>1. PICK s \in OrganizerStatuses : p = [x \in {"status"} |-> s]
    BY <1>4
  <2>2. Edited(r, p) = [status |-> s, deleted |-> r.deleted,
                        start |-> r.start, end |-> r.end]
    BY <1>1, <2>1 DEF Edited
  <2> QED BY <1>2, <2>2 DEF EventRow
<1> QED BY <1>3, <1>4 DEF Patches

LEMMA InitIInv == Init => IInv
BY DEF Init, IInv, StatusOK, TeamOK, CopiesAreOld, TeamCalls, CallsOK, Exists,
   Idle, Call, NoRow

(* The steps of an edit.                                                    *)
LEMMA EditKeepsIInv ==
  ASSUME IInv, NEW w \in Workers
  PROVE  /\ \A u \in Users, p \in Edits : EditRead(w, u, p) => IInv'
         /\ EditCommit(w) => IInv'
         /\ Announce(w) => IInv'
<1>1. ASSUME NEW u \in Users, NEW p \in Edits, EditRead(w, u, p)
      PROVE  IInv'
  <2>1. row \in EventRow /\ Exists
    BY <1>1 DEF EditRead, Live, Exists, IInv, StatusOK
  <2>2. call' = [call EXCEPT ![w] = [op |-> "edit", copy |-> row, patch |-> p]]
    BY <1>1 DEF EditRead, Remember
  <2>3. UNCHANGED <<row, role, removed, decided>>
    BY <1>1 DEF EditRead, team
  <2>4. CallsOK' BY <2>1, <2>2 DEF CallsOK, Call, IInv
  <2>5. CopiesAreOld' BY <2>1, <2>2, <2>3 DEF CopiesAreOld, IInv, StatusOK, CallsOK, Exists
  <2>6. TeamCalls' BY <2>1, <2>2, <2>3 DEF TeamCalls, IInv, CallsOK, Exists
  <2> QED BY <2>3, <2>4, <2>5, <2>6 DEF IInv, StatusOK, TeamOK, Exists
<1>2. ASSUME EditCommit(w)
      PROVE  IInv'
  <2> DEFINE old == call[w].copy  p == call[w].patch
  <2>1. /\ call[w].op = "edit" /\ Exists /\ old \in EventRow
        /\ old.status \in OrganizerStatuses \cup decided
    BY <1>2 DEF EditCommit, IInv, CopiesAreOld
  <2>2. p \in Patches
    BY <2>1, EventsAssumption DEF IInv, CallsOK, Call, EventsAssumption, Idle
  <2>3. row' = Edited(old, p) BY <1>2 DEF EditCommit
  <2>4. row' \in EventRow /\ row'.status \in OrganizerStatuses \cup decided
    BY <2>1, <2>2, <2>3, EditedRow
  <2>5. Exists' BY <2>4, RowsExist DEF Exists
  <2>6. PICK c \in {Idle, [op |-> "announce", times |-> TimesOf(row')]} :
          call' = [call EXCEPT ![w] = c]
    BY <1>2 DEF EditCommit, Finish, Remember
  <2>7. UNCHANGED <<role, removed, decided>> BY <1>2 DEF EditCommit, team
  <2>8. c \in Call /\ c.op \in {"none", "announce"}
    BY <2>4 DEF Call, Idle, Times, TimesOf, EventRow
  <2>9. CallsOK' /\ CopiesAreOld' /\ TeamCalls'
    BY <2>5, <2>6, <2>7, <2>8 DEF IInv, CallsOK, CopiesAreOld, TeamCalls
  <2> QED BY <2>1, <2>4, <2>5, <2>7, <2>9 DEF IInv, StatusOK, TeamOK
<1>3. ASSUME Announce(w)
      PROVE  IInv'
  <2>1. /\ call' = [call EXCEPT ![w] = Idle]
        /\ UNCHANGED <<row, role, removed, decided>>
    BY <1>3 DEF Announce, Finish, Remember, team
  <2>2. Idle \in Call /\ Idle.op = "none" BY DEF Call, Idle
  <2>3. CallsOK' /\ CopiesAreOld' /\ TeamCalls'
    BY <2>1, <2>2 DEF IInv, CallsOK, CopiesAreOld, TeamCalls, Exists
  <2> QED BY <2>1, <2>3 DEF IInv, StatusOK, TeamOK, Exists
<1> QED BY <1>1, <1>2, <1>3

(* Creating the event, deleting it, and what administrators decide.          *)
LEMMA LifeKeepsIInv ==
  ASSUME IInv
  PROVE  /\ \A w \in Workers, p \in TimePatches, s \in OrganizerStatuses :
              Create(w, p, s) => IInv'
         /\ \A w \in Workers, u \in Users : DeleteRead(w, u) => IInv'
         /\ \A w \in Workers : DeleteCommit(w) => IInv'
         /\ \A s \in Statuses : Decide(s) => IInv'
         /\ AdminDelete => IInv'
<1> USE DEF team, news
<1>1. ASSUME NEW w \in Workers, NEW p \in TimePatches, NEW s \in OrganizerStatuses,
             Create(w, p, s)
      PROVE  IInv'
  <2>1. p \in [TimeField -> Instants]
    BY <1>1 DEF Create, TimePatches
  <2>2. row' \in EventRow /\ row'.status = s
    BY <1>1, <2>1 DEF Create, EventRow, TimeField
  <2>3. Exists' BY <2>2, RowsExist DEF Exists
  <2>4. ~Exists /\ role' = [role EXCEPT ![Creator] = "owner"]
        /\ UNCHANGED <<removed, decided, call>>
    BY <1>1 DEF Create
  <2>5. TeamOK'
    BY <2>3, <2>4, EventsAssumption DEF IInv, TeamOK, EventsAssumption
  <2>6. CallsOK' /\ CopiesAreOld' /\ TeamCalls'
    BY <2>3, <2>4 DEF IInv, CallsOK, CopiesAreOld, TeamCalls, Call, Idle
  <2> QED BY <2>2, <2>3, <2>4, <2>5, <2>6 DEF IInv, StatusOK
<1>2. ASSUME NEW w \in Workers, NEW u \in Users, DeleteRead(w, u)
      PROVE  IInv'
  <2>1. /\ Exists /\ call' = [call EXCEPT ![w] = [op |-> "delete"]]
        /\ UNCHANGED <<row, role, removed, decided>>
    BY <1>2 DEF DeleteRead, Live, Remember
  <2>2. [op |-> "delete"] \in Call BY DEF Call
  <2>3. CallsOK' /\ CopiesAreOld' /\ TeamCalls'
    BY <2>1, <2>2 DEF IInv, CallsOK, CopiesAreOld, TeamCalls, Exists
  <2> QED BY <2>1, <2>3 DEF IInv, StatusOK, TeamOK, Exists
<1>3. ASSUME NEW w \in Workers, DeleteCommit(w)
      PROVE  IInv'
  <2>1. /\ Exists /\ call' = [call EXCEPT ![w] = Idle]
        /\ row' = [row EXCEPT !.deleted = TRUE]
        /\ UNCHANGED <<role, removed, decided>>
    BY <1>3 DEF DeleteCommit, Finish, Remember, IInv, TeamCalls
  <2>2. row' \in EventRow /\ row'.status = row.status
    BY <2>1 DEF IInv, StatusOK, EventRow, Exists
  <2>3. Exists' BY <2>2, RowsExist DEF Exists
  <2>4. Idle \in Call /\ Idle.op = "none" BY DEF Call, Idle
  <2>5. CallsOK' /\ CopiesAreOld' /\ TeamCalls'
    BY <2>1, <2>3, <2>4 DEF IInv, CallsOK, CopiesAreOld, TeamCalls
  <2> QED BY <2>1, <2>2, <2>3, <2>5 DEF IInv, StatusOK, TeamOK
<1>4. ASSUME NEW s \in Statuses, Decide(s)
      PROVE  IInv'
  <2>1. /\ Exists /\ row' = [row EXCEPT !.status = s]
        /\ decided' = decided \cup {s} /\ UNCHANGED <<role, removed, call>>
    BY <1>4 DEF Decide, Live
  <2>2. row' \in EventRow /\ row'.status = s
    BY <2>1 DEF IInv, StatusOK, EventRow, Exists
  <2>3. Exists' BY <2>2, RowsExist DEF Exists
  <2>4. CallsOK' /\ CopiesAreOld' /\ TeamCalls'
    BY <2>1, <2>3 DEF IInv, CallsOK, CopiesAreOld, TeamCalls
  <2> QED BY <2>1, <2>2, <2>3, <2>4 DEF IInv, StatusOK, TeamOK
<1>5. ASSUME AdminDelete
      PROVE  IInv'
  <2>1. /\ Exists /\ row' = [row EXCEPT !.deleted = TRUE]
        /\ UNCHANGED <<role, removed, decided, call>>
    BY <1>5 DEF AdminDelete, Live
  <2>2. row' \in EventRow /\ row'.status = row.status
    BY <2>1 DEF IInv, StatusOK, EventRow, Exists
  <2>3. Exists' BY <2>2, RowsExist DEF Exists
  <2>4. CallsOK' /\ CopiesAreOld' /\ TeamCalls'
    BY <2>1, <2>3 DEF IInv, CallsOK, CopiesAreOld, TeamCalls
  <2> QED BY <2>1, <2>2, <2>3, <2>4 DEF IInv, StatusOK, TeamOK
<1> QED BY <1>1, <1>2, <1>3, <1>4, <1>5

(* The steps that change the team.                                          *)
LEMMA TeamKeepsIInv ==
  ASSUME IInv, NEW w \in Workers
  PROVE  /\ \A u, v \in Users : \/ TeamRead(w, "add", u, v)
                               \/ RemoveRead(w, u, v)
                               \/ TeamRead(w, "grant", u, v) => IInv'
         /\ AddCommit(w) \/ RemoveCommit(w) \/ GrantCommit(w) \/ Fail(w) => IInv'
<1> USE DEF team, news
<1>1. ASSUME NEW u \in Users, NEW v \in Users,
             NEW o \in {"add", "remove", "grant"}, TeamRead(w, o, u, v),
             o = "remove" => Removable(v)
      PROVE  IInv'
  <2>1. /\ Exists /\ call' = [call EXCEPT ![w] = [op |-> o, user |-> v]]
        /\ UNCHANGED <<row, role, removed, decided>>
    BY <1>1 DEF TeamRead, Live, Remember
  <2>2. [op |-> o, user |-> v] \in Call BY DEF Call
  <2>3. o = "remove" => v # Creator /\ role[v] # "none"
    BY <1>1 DEF Removable, BugRemovable
  <2>4. CallsOK' /\ CopiesAreOld' /\ TeamCalls'
    BY <2>1, <2>2, <2>3 DEF IInv, CallsOK, CopiesAreOld, TeamCalls, Exists
  <2> QED BY <2>1, <2>4 DEF IInv, StatusOK, TeamOK, Exists
<1>2. \A u, v \in Users : RemoveRead(w, u, v)
        => Removable(v) /\ TeamRead(w, "remove", u, v)
  BY DEF RemoveRead
<1>3. Idle \in Call /\ Idle.op = "none" BY DEF Call, Idle
<1>4. ASSUME AddCommit(w) \/ RemoveCommit(w) \/ GrantCommit(w)
      PROVE  IInv'
  <2> DEFINE v == call[w].user
  <2>1. /\ Exists /\ v \in Users /\ UNCHANGED <<row, decided>>
        /\ call' = [call EXCEPT ![w] = Idle]
    BY <1>4 DEF AddCommit, RemoveCommit, GrantCommit, Finish, Remember, IInv,
                TeamCalls
  <2>2. \/ /\ \/ role' = [role EXCEPT ![v] = "co_host"]
              \/ role' = role /\ role[v] # "none"
           /\ removed' = removed \ {v}
        \/ /\ role' = role /\ removed' = removed \cup {v}
           /\ v # Creator /\ role[v] # "none"
        \/ role' = [role EXCEPT ![v] = "co_host"] /\ removed' = removed
    BY <1>4 DEF AddCommit, RemoveCommit, GrantCommit, IInv, TeamCalls, TeamOK
  <2>3. TeamOK'
    <3>1. Exists' BY <2>1 DEF Exists
    <3>2. /\ role \in [Users -> {"none", "owner", "co_host"}]
          /\ removed \subseteq {u \in Users : role[u] # "none"}
          /\ \A u \in Users \ {Creator} : role[u] # "owner"
          /\ role[Creator] # "none" /\ Creator \notin removed
          /\ Creator \in Users
      BY <2>1, EventsAssumption DEF IInv, TeamOK, EventsAssumption
    <3>3. /\ role' \in [Users -> {"none", "owner", "co_host"}]
          /\ \A u \in Users \ {Creator} : role'[u] # "owner"
          /\ role'[Creator] # "none"
          /\ \A u \in Users : role[u] # "none" => role'[u] # "none"
      BY <2>1, <2>2, <3>2
    <3>4. /\ \A u \in removed' : u \in removed \/ (u = v /\ role[v] # "none")
          /\ Creator \notin removed'
      BY <2>2, <3>2
    <3> QED BY <2>1, <3>1, <3>2, <3>3, <3>4 DEF TeamOK
  <2>4. \A u \in Users : role[u] # "none" => role'[u] # "none"
    BY <2>1, <2>2 DEF IInv, TeamOK
  <2>5. CallsOK' /\ CopiesAreOld' /\ TeamCalls'
    BY <1>3, <2>1, <2>4 DEF IInv, CallsOK, CopiesAreOld, TeamCalls, Exists
  <2> QED BY <2>1, <2>3, <2>5 DEF IInv, StatusOK, Exists
<1>5. ASSUME Fail(w)
      PROVE  IInv'
  BY <1>3, <1>5 DEF Fail, Finish, Remember, IInv, CallsOK, CopiesAreOld,
     TeamCalls, StatusOK, TeamOK, Exists
<1> QED BY <1>1, <1>2, <1>4, <1>5

LEMMA StepIInv == IInv /\ [Next]_vars => IInv'
<1> SUFFICES ASSUME IInv, [Next]_vars PROVE IInv'
  OBVIOUS
<1>1. CASE UNCHANGED vars
  BY <1>1 DEF vars, team, news, IInv, StatusOK, TeamOK, CopiesAreOld, TeamCalls,
     CallsOK, Exists
<1>2. CASE Next
  BY <1>2, EditKeepsIInv, LifeKeepsIInv, TeamKeepsIInv DEF Next
<1> QED BY <1>1, <1>2

LEMMA Invariance == Spec => []IInv
<1> QED BY InitIInv, StepIInv, PTL DEF Spec
------------------------------------------------------------------------------
(* Whatever stale edits are saved, a status that organizers may not set was   *)
(* decided by an administrator and is in the moderation log.                *)
THEOREM EveryDecisionLogged == Spec => []DecisionsLogged
<1>1. IInv => DecisionsLogged
  BY DEF IInv, StatusOK, DecisionsLogged, OrganizerStatuses
<1> QED BY <1>1, Invariance, PTL

(* Whatever is added, granted and removed, the creator stays in the team.    *)
THEOREM CreatorStays == Spec => []CreatorNeverRemoved
<1>1. IInv => CreatorNeverRemoved
  BY DEF IInv, TeamOK, CreatorNeverRemoved, IsOrganizer
<1> QED BY <1>1, Invariance, PTL

(* The public page's relation, the rights and the list of an organizer's      *)
(* events agree, for any team.                                              *)
THEOREM RelationsAgree == Spec => []RelationAgrees
<1>1. IInv => RelationAgrees
  <2> SUFFICES ASSUME IInv, NEW u \in Users
               PROVE  /\ Relation(u) = "owner" <=> IsOwner(u)
                      /\ Relation(u) \in {"owner", "cohost"} <=> IsOrganizer(u)
                      /\ Live /\ IsOrganizer(u) => Listed(u)
    BY DEF RelationAgrees
  <2>1. /\ role[u] \in {"none", "owner", "co_host"}
        /\ u # Creator => role[u] # "owner"
        /\ Live => role[Creator] # "none"
    BY DEF IInv, TeamOK, Live
  <2>2. CASE u = Creator \/ HasRole(u, "owner")
    BY <2>1, <2>2 DEF Relation, IsOwner, IsOrganizer, HasRole, Listed
  <2>3. CASE u # Creator /\ HasRole(u, "co_host")
    BY <2>1, <2>3 DEF Relation, IsOwner, IsOrganizer, HasRole, Listed
  <2>4. CASE u # Creator /\ ~HasRole(u, "owner") /\ ~HasRole(u, "co_host")
    BY <2>1, <2>4 DEF Relation, IsOwner, IsOrganizer, HasRole, Listed
  <2> QED BY <2>2, <2>3, <2>4
<1> QED BY <1>1, Invariance, PTL

(* What is announced and what is about to be: two announcements at once are   *)
(* known to overtake each other, a single one that nothing is known against   *)
(* has the present times, and while it is to be made it makes up for what     *)
(* has not been told.                                                       *)
ToTell(w) == Announcing(w) /\ call[w].times = TimesOf(row)

NewsOK ==
  Exists =>
    /\ \A v, w \in Workers: Announcing(v) /\ Announcing(w) /\ v # w
                              => "overtaken" \in missed
    /\ \A w \in Workers: Announcing(w) => ToTell(w) \/ missed # {}
    /\ \/ TimesOf(row) \in heard \/ missed \cap {"lost", "overwritten"} # {}
       \/ \E w \in Workers: ToTell(w)
    /\ told = TimesOf(row) \/ missed # {} \/ \E w \in Workers: ToTell(w)

LEMMA CreateTells ==
  ASSUME IInv, NEW w \in Workers, NEW p \in TimePatches, NEW s \in OrganizerStatuses,
         Create(w, p, s)
  PROVE  NewsOK'
<1>1. ~Exists /\ call' = call /\ told' = TimesOf(row') /\ told' \in heard'
  BY DEF Create, TimesOf
<1>2. \A v \in Workers : ~Announcing(v)'
  BY <1>1 DEF Announcing, IInv, TeamCalls
<1> QED BY <1>1, <1>2 DEF NewsOK

LEMMA EditTells ==
  ASSUME IInv, NewsOK, NEW w \in Workers, EditCommit(w)
  PROVE  NewsOK'
<1> DEFINE old == call[w].copy  new == Edited(old, call[w].patch)
<1>1. Exists /\ call[w].op = "edit" /\ row' = new /\ call \in [Workers -> Call]
  BY DEF EditCommit, IInv, CopiesAreOld, CallsOK
<1>2. CASE TimesMoved(old, new)
  <2>1. /\ call' = [call EXCEPT ![w] = [op |-> "announce", times |-> TimesOf(row')]]
        /\ missed' = IF \E v \in Workers: Announcing(v) THEN {"overtaken"} ELSE {}
    BY <1>1, <1>2 DEF EditCommit, Remember
  <2>2. ToTell(w)' BY <1>1, <2>1 DEF ToTell, Announcing
  <2>3. \A v \in Workers \ {w} : Announcing(v)' => "overtaken" \in missed'
    BY <1>1, <2>1 DEF Announcing
  <2> QED BY <2>2, <2>3 DEF NewsOK
<1>3. CASE ~TimesMoved(old, new)
  <2>1. /\ call' = [call EXCEPT ![w] = Idle] /\ UNCHANGED <<told, heard>>
        /\ missed' = IF TimesOf(old) # TimesOf(row)
                     THEN missed \cup {"overwritten"} ELSE missed
    BY <1>3 DEF EditCommit, Finish, Remember
  <2>2. \A v \in Workers : /\ Announcing(v)' <=> Announcing(v)
                           /\ Announcing(v) => call'[v] = call[v]
    BY <1>1, <2>1 DEF Announcing, Idle
  <2>3. CASE TimesOf(old) # TimesOf(row)
    BY <1>1, <2>1, <2>2, <2>3 DEF NewsOK
  <2>4. CASE TimesOf(old) = TimesOf(row)
    <3>1. TimesOf(row') = TimesOf(row) BY <1>1, <1>3, <2>4 DEF TimesMoved
    <3>2. \A v \in Workers : ToTell(v)' <=> ToTell(v)
      BY <2>2, <3>1 DEF ToTell
    <3> QED BY <1>1, <2>1, <2>2, <2>4, <3>1, <3>2 DEF NewsOK
  <2> QED BY <2>3, <2>4
<1> QED BY <1>2, <1>3

LEMMA AnnounceTells ==
  ASSUME IInv, NewsOK, NEW w \in Workers, Announce(w)
  PROVE  NewsOK'
<1>1. /\ Exists /\ Announcing(w) /\ call \in [Workers -> Call]
  BY DEF Announce, Announcing, IInv, TeamCalls, CallsOK
<1>2. /\ told' = call[w].times /\ heard' = heard \cup {told'}
      /\ call' = [call EXCEPT ![w] = Idle] /\ UNCHANGED <<row, missed>>
  BY DEF Announce, Finish, Remember
<1>3. \A v \in Workers : /\ Announcing(v)' <=> Announcing(v) /\ v # w
                         /\ ToTell(v)' <=> ToTell(v) /\ v # w
  BY <1>1, <1>2 DEF ToTell, Announcing, Idle
<1>4. ToTell(w) => told' = TimesOf(row') BY <1>2 DEF ToTell
<1>5. /\ TimesOf(row') \in heard' \/ missed' \cap {"lost", "overwritten"} # {}
         \/ \E v \in Workers: ToTell(v)'
      /\ told' = TimesOf(row') \/ missed' # {}
  BY <1>1, <1>2, <1>3, <1>4 DEF NewsOK
<1> QED BY <1>1, <1>2, <1>3, <1>5 DEF NewsOK

(* The announcement of a request that fails is lost.                         *)
LEMMA FailTells ==
  ASSUME IInv, NewsOK, NEW w \in Workers, Fail(w)
  PROVE  NewsOK'
<1>1. /\ call' = [call EXCEPT ![w] = Idle] /\ UNCHANGED <<row, told, heard>>
      /\ missed' = IF Announcing(w) THEN missed \cup {"lost"} ELSE missed
      /\ call \in [Workers -> Call]
  BY DEF Fail, Finish, Remember, IInv, CallsOK
<1>2. \A v \in Workers : /\ Announcing(v)' <=> Announcing(v) /\ v # w
                         /\ ToTell(v)' <=> ToTell(v) /\ v # w
  BY <1>1 DEF ToTell, Announcing, Idle
<1>3. ~Announcing(w) => ~ToTell(w) BY DEF ToTell
<1> QED BY <1>1, <1>2, <1>3 DEF NewsOK, Exists

(* Steps that announce nothing, move no times and keep what is to be told.    *)
LEMMA OthersTell ==
  ASSUME NewsOK, Exists, UNCHANGED news, TimesOf(row') = TimesOf(row),
         \A v \in Workers : /\ Announcing(v)' <=> Announcing(v)
                            /\ Announcing(v) => call'[v] = call[v]
  PROVE  NewsOK'
<1>1. \A v \in Workers : ToTell(v)' <=> ToTell(v) BY DEF ToTell
<1> QED BY <1>1 DEF NewsOK, news

LEMMA NewsStep == IInv /\ NewsOK /\ [Next]_vars => NewsOK'
<1> SUFFICES ASSUME IInv, NewsOK, [Next]_vars PROVE NewsOK'
  OBVIOUS
<1>1. CASE UNCHANGED vars
  BY <1>1 DEF vars, news, NewsOK, Exists, ToTell, Announcing
<1>2. ASSUME Exists, \/ row' = [row EXCEPT !.deleted = TRUE]
                     \/ \E s \in Statuses : row' = [row EXCEPT !.status = s]
      PROVE  TimesOf(row') = TimesOf(row)
  BY <1>2 DEF IInv, StatusOK, EventRow, Exists, TimesOf
<1>3. CASE AdminDelete \/ \E s \in Statuses : Decide(s)
  BY <1>2, <1>3, OthersTell DEF AdminDelete, Decide, Live, Announcing
<1>4. ASSUME NEW w \in Workers, NEW c, call' = [call EXCEPT ![w] = c], Exists,
             c.op # "announce", ~Announcing(w), UNCHANGED news,
             TimesOf(row') = TimesOf(row)
      PROVE  NewsOK'
  <2>1. call \in [Workers -> Call] BY DEF IInv, CallsOK
  <2>2. \A v \in Workers : /\ Announcing(v)' <=> Announcing(v)
                           /\ Announcing(v) => call'[v] = call[v]
    BY <1>4, <2>1 DEF Announcing
  <2> QED BY <1>4, <2>2, OthersTell
<1>5. ASSUME NEW w \in Workers, DeleteCommit(w)
      PROVE  NewsOK'
  <2>1. Exists /\ ~Announcing(w)
    BY <1>5 DEF DeleteCommit, Announcing, IInv, TeamCalls
  <2>2. /\ call' = [call EXCEPT ![w] = Idle] /\ UNCHANGED news
        /\ row' = [row EXCEPT !.deleted = TRUE] /\ Idle.op # "announce"
    BY <1>5 DEF DeleteCommit, Finish, Remember, Idle
  <2> QED BY <1>2, <1>4, <2>1, <2>2
<1>6. ASSUME NEW w \in Workers, NEW u \in Users, NEW v \in Users,
             \/ \E p \in Edits : EditRead(w, u, p)
             \/ DeleteRead(w, u)
             \/ TeamRead(w, "add", u, v) \/ RemoveRead(w, u, v)
             \/ TeamRead(w, "grant", u, v)
      PROVE  NewsOK'
  <2>1. /\ Exists /\ ~Announcing(w) /\ UNCHANGED <<row, news>>
        /\ \E c : c.op # "announce" /\ call' = [call EXCEPT ![w] = c]
    BY <1>6 DEF EditRead, DeleteRead, TeamRead, RemoveRead, Begin, Live, Announcing,
                Idle, Remember
  <2> QED BY <1>4, <2>1
<1>7. ASSUME NEW w \in Workers, AddCommit(w) \/ RemoveCommit(w) \/ GrantCommit(w)
      PROVE  NewsOK'
  <2>1. Exists /\ ~Announcing(w)
    BY <1>7 DEF AddCommit, RemoveCommit, GrantCommit, Announcing, IInv, TeamCalls
  <2>2. /\ call' = [call EXCEPT ![w] = Idle] /\ UNCHANGED <<row, news>>
        /\ Idle.op # "announce"
    BY <1>7 DEF AddCommit, RemoveCommit, GrantCommit, Finish, Remember, Idle
  <2> QED BY <1>4, <2>1, <2>2
<1> QED
  BY <1>1, <1>3, <1>5, <1>6, <1>7, CreateTells, EditTells, AnnounceTells, FailTells
  DEF Next

(* For any number of overlapping edits and announcements, the people           *)
(* registered were told the event's present times once no announcement is to   *)
(* be made, and told them last unless two announcements overlapped.           *)
THEOREM TimesKnown == Spec => []KnownTimes
<1>1. Init => NewsOK BY DEF Init, NewsOK, Exists
<1>2. NewsOK => KnownTimes BY DEF NewsOK, KnownTimes, ToTell
<1> QED BY <1>1, <1>2, NewsStep, Invariance, PTL DEF Spec
===============================================================================
