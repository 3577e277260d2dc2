------------------------------- MODULE Accounts -------------------------------
(***************************************************************************)
(* Login accounts live in Keycloak, their users in the database.  A token  *)
(* carries the address its account had when it was issued; a request with   *)
(* it finds or makes the user (provisioning).  Users change their address   *)
(* in both places, administrators create, edit, ban and delete users.       *)
(*                                                                         *)
(* A request is cut at each row lock, before the remote call to Keycloak,   *)
(* and between the read of an object and the write that is based on it.    *)
(*                                                                         *)
(* Left out: the profile, staff users (who cannot be banned), is_active      *)
(* (nothing clears it), the roles (see UserRoles), one-time codes (see      *)
(* OneTimeCodes; a change of address goes on only if both were right), and  *)
(* the cache of signed-in users: a cached user is read and tested again, so  *)
(* that a hit is a request that provisions nothing.                         *)
(***************************************************************************)
EXTENDS Integers, FiniteSets

CONSTANTS
  Users,       \* identifiers of users, born or not
  Subs,        \* subjects of Keycloak
  Emails,
  Names,       \* user names an administrator may give
  Workers,     \* web workers
  Ops,         \* the operations that are running
  MaxTokens,   \* tokens that are valid at a time
  NoUser, NoEmail

ASSUME AccountsAssumption == NoUser \notin Users /\ NoEmail \notin Emails

VARIABLES
  row,       \* row[u]: the row of u in users
  identity,  \* identity[s]: the user s signs in as (user_auth_identities)
  account,   \* account[s]: the address of s in Keycloak
  tokens,    \* tokens that have not expired
  call       \* call[w]: the request worker w is serving

vars == <<row, identity, account, tokens, call>>

FlagOps == {"ban", "unban", "delete", "restore"}

Token == [sub: Subs, email: Emails]
NoRow == [made |-> "none", username |-> NoEmail, email |-> NoEmail,
          banned |-> FALSE, deleted |-> FALSE]
UserRow == [made: {"login", "admin"}, username: Emails \cup Names,
            email: Emails, banned: BOOLEAN, deleted: BOOLEAN]

Idle == [op |-> "none"]
Call ==
  {Idle}
  \cup [op: {"provision"}, at: {"unknown"}, token: Token]
  \cup [op: {"provision"}, at: {"known"}, token: Token, user: Users]
  \cup [op: {"provision"}, at: {"matched"}, token: Token,
        user: Users \cup {NoUser}]
  \cup [op: {"change"}, at: {"asked", "locked", "in_keycloak"}, user: Users,
        sub: Subs, new: Emails]
  \cup [op: {"create"}, name: Names, email: Emails]
  \cup [op: FlagOps \cup {"update"}, user: Users, copy: UserRow]

Init ==
  /\ row = [u \in Users |-> NoRow]
  /\ identity = [s \in Subs |-> NoUser]
  /\ account = [s \in Subs |-> NoEmail]
  /\ tokens = {}
  /\ call = [w \in Workers |-> Idle]
------------------------------------------------------------------------------
Born == {u \in Users: row[u] # NoRow}
Alive == {u \in Born: ~row[u].deleted}

(* _ensure_user_can_login *)
CanLogin(r) == ~r.deleted /\ ~r.banned

(* The row of u is locked, with the identity it was joined to, until the    *)
(* transaction of the call ends.                                           *)
Holds(w, u) ==
  \/ call[w].op = "provision" /\ call[w].at # "unknown" /\ call[w].user = u
  \/ call[w].op = "change" /\ call[w].at # "asked" /\ call[w].user = u

BugUserFree(w, u) == TRUE                    \* SELECT without FOR UPDATE
UserFree(w, u) == \A v \in Workers \ {w}: ~Holds(v, u)

(* The unique index on username, which holds the deleted rows as well.      *)
NameTaken(name, u) == \E v \in Born \ {u}: row[v].username = name

Begin(w, o) == call[w] = Idle /\ o \in Ops
Finish(w) == call' = [call EXCEPT ![w] = Idle]
Advance(w, step) == call' = [call EXCEPT ![w].at = step]
Unchanged == UNCHANGED <<row, identity, account, tokens>>
------------------------------------------------------------------------------
(* Keycloak: an account for an address that has none, and tokens.           *)
Enrol(s, e) ==
  /\ account[s] = NoEmail
  /\ \A t \in Subs: account[t] # e
  /\ account' = [account EXCEPT ![s] = e]
  /\ UNCHANGED <<row, identity, tokens, call>>

Issue(s) ==
  /\ account[s] # NoEmail /\ Cardinality(tokens) < MaxTokens
  /\ tokens' = tokens \cup {[sub |-> s, email |-> account[s]]}
  /\ UNCHANGED <<row, identity, account, call>>

Expire(t) ==
  /\ t \in tokens
  /\ tokens' = tokens \ {t}
  /\ UNCHANGED <<row, identity, account, call>>
------------------------------------------------------------------------------
(* provision_from_payload.  The identity is locked together with its user.  *)
ProvisionFind(w, t) ==
  LET u == identity[t.sub] IN
  /\ Begin(w, "provision")
  /\ t \in tokens
  /\ \/ /\ u = NoUser
        /\ call' = [call EXCEPT ![w] =
                      [op |-> "provision", at |-> "unknown", token |-> t]]
     \/ /\ u # NoUser /\ UserFree(w, u) /\ CanLogin(row[u])
        /\ call' = [call EXCEPT ![w] = [op |-> "provision", at |-> "known",
                                        token |-> t, user |-> u]]
  /\ Unchanged

(* _get_or_create_user_for_email: the live users with that address, locked. *)
Matching(e) == {u \in Alive: row[u].email = e}

ProvisionMatch(w) ==
  LET found == Matching(call[w].token.email)
      go(u) == call' = [call EXCEPT ![w] =
                          [op |-> "provision", at |-> "matched",
                           token |-> call[w].token, user |-> u]]
  IN
  /\ call[w].op = "provision" /\ call[w].at = "unknown"
  /\ \A u \in found: UserFree(w, u)
  /\ CASE found = {} -> go(NoUser)
       [] \E u \in found: found = {u} /\ CanLogin(row[u]) ->
            \E u \in found: go(u)
       [] OTHER -> Finish(w)
  /\ Unchanged

BugSynced(r, e) == [r EXCEPT !.email = e]         \* the user name is left as is
Synced(r, e) == [r EXCEPT !.username = e, !.email = e]

BugNewUser(how, name, e) == [NoRow EXCEPT !.made = how, !.username = name]
NewUser(how, name, e) ==
  [NoRow EXCEPT !.made = how, !.username = name, !.email = e]

(* A new user, or the profile of the one found, and its identity.  It waits *)
(* for the live users with that user name (_ensure_username_available), and  *)
(* an index on user names or subjects may refuse it (see Fail).              *)
ProvisionCommit(w) ==
  LET t == call[w].token
      known == call[w].at = "known"
  IN
  /\ call[w].op = "provision" /\ call[w].at \in {"known", "matched"}
  /\ ~NameTaken(t.email, call[w].user)
  /\ known \/ identity[t.sub] = NoUser
  /\ \E u \in Users:
       /\ IF call[w].user = NoUser THEN u \notin Born ELSE u = call[w].user
       /\ row' = [row EXCEPT ![u] =
                    IF u \in Born
                    THEN Synced(@, t.email)
                    ELSE NewUser("login", t.email, t.email)]
       /\ identity' = [identity EXCEPT ![t.sub] = u]
  /\ Finish(w)
  /\ UNCHANGED <<account, tokens>>
------------------------------------------------------------------------------
(* change_email_with_otp: the request was authenticated some time ago.      *)
ChangeAsk(w, s, new) ==
  /\ Begin(w, "change")
  /\ identity[s] # NoUser /\ CanLogin(row[identity[s]])
  /\ call' = [call EXCEPT ![w] = [op |-> "change", at |-> "asked",
                                  user |-> identity[s], sub |-> s, new |-> new]]
  /\ Unchanged

(* A banned user is not asked for again, a deleted one is not found.        *)
ChangeLock(w) ==
  LET u == call[w].user IN
  /\ call[w].op = "change" /\ call[w].at = "asked"
  /\ UserFree(w, u)
  /\ IF /\ u \in Alive
        /\ row[u].email # call[w].new
        /\ \A v \in Alive \ {u}:
             call[w].new \notin {row[v].email, row[v].username}
     THEN Advance(w, "locked")
     ELSE Finish(w)
  /\ Unchanged

(* update_keycloak_user_email, inside the transaction.  Keycloak refuses an *)
(* address of another account.                                             *)
ChangeKeycloak(w) ==
  /\ call[w].op = "change" /\ call[w].at = "locked"
  /\ \A s \in Subs \ {call[w].sub}: account[s] # call[w].new
  /\ account' = [account EXCEPT ![call[w].sub] = call[w].new]
  /\ Advance(w, "in_keycloak")
  /\ UNCHANGED <<row, identity, tokens>>

ChangeCommit(w) ==
  LET u == call[w].user IN
  /\ call[w].op = "change" /\ call[w].at = "in_keycloak"
  /\ ~NameTaken(call[w].new, u)
  /\ row' = [row EXCEPT ![u] = Synced(@, call[w].new)]
  /\ Finish(w)
  /\ UNCHANGED <<identity, account, tokens>>
------------------------------------------------------------------------------
(* The administrator's create_user: the serializer looks, the service writes.*)
CreateRead(w, name, e) ==
  /\ Begin(w, "create")
  /\ \A v \in Born: row[v].username # name /\ row[v].email # e
  /\ call' = [call EXCEPT ![w] = [op |-> "create", name |-> name, email |-> e]]
  /\ Unchanged

CreateCommit(w) ==
  /\ call[w].op = "create"
  /\ ~NameTaken(call[w].name, NoUser)
  /\ \E u \in Users \ Born:
       row' = [row EXCEPT ![u] =
                 NewUser("admin", call[w].name, call[w].email)]
  /\ Finish(w)
  /\ UNCHANGED <<identity, account, tokens>>

(* update_user, ban_user, unban_user, soft_delete_user and restore_user read *)
(* the user without a lock, test it, and write some or all of its columns.  *)
Applies(o, r) ==
  CASE o = "update" -> TRUE
    [] o = "ban" -> ~r.banned
    [] o = "unban" -> r.banned
    [] o = "delete" -> ~r.deleted
    [] o = "restore" -> r.deleted

AdminRead(w, u, o) ==
  /\ Begin(w, o)
  /\ u \in Born /\ Applies(o, row[u])
  /\ call' = [call EXCEPT ![w] = [op |-> o, user |-> u, copy |-> row[u]]]
  /\ Unchanged

Flagged(o, r) ==
  CASE o = "ban" -> [r EXCEPT !.banned = TRUE]
    [] o = "unban" -> [r EXCEPT !.banned = FALSE]
    [] o = "delete" -> [r EXCEPT !.deleted = TRUE]
    [] o = "restore" -> [r EXCEPT !.deleted = FALSE]

BugFlagWritten(w) == Flagged(call[w].op, call[w].copy)       \* whole row saved
FlagWritten(w) == Flagged(call[w].op, row[call[w].user])

AdminFlag(w) ==
  LET u == call[w].user IN
  /\ call[w].op \in FlagOps
  /\ UserFree(w, u)
  /\ row' = [row EXCEPT ![u] = FlagWritten(w)]
  /\ Finish(w)
  /\ UNCHANGED <<identity, account, tokens>>

(* update_user saves every column, as they were when it read them.          *)
AdminUpdate(w) ==
  LET u == call[w].user IN
  /\ call[w].op = "update"
  /\ UserFree(w, u)
  /\ ~NameTaken(call[w].copy.username, u)
  /\ row' = [row EXCEPT ![u] = call[w].copy]
  /\ Finish(w)
  /\ UNCHANGED <<identity, account, tokens>>

(* A unique index refuses a write, Keycloak or the database fails, a lock is *)
(* waited for too long: what the transaction did in the database is undone.  *)
Fail(w) == call[w] # Idle /\ Finish(w) /\ Unchanged

Next ==
  \/ \E s \in Subs: Issue(s) \/ \E e \in Emails: Enrol(s, e)
  \/ \E t \in Token: Expire(t)
  \/ \E w \in Workers:
       \/ \E t \in Token: ProvisionFind(w, t)
       \/ ProvisionMatch(w) \/ ProvisionCommit(w)
       \/ \E s \in Subs, e \in Emails: ChangeAsk(w, s, e)
       \/ ChangeLock(w) \/ ChangeKeycloak(w) \/ ChangeCommit(w)
       \/ \E name \in Names, e \in Emails: CreateRead(w, name, e)
       \/ CreateCommit(w)
       \/ \E u \in Users, o \in FlagOps \cup {"update"}: AdminRead(w, u, o)
       \/ AdminFlag(w) \/ AdminUpdate(w)
       \/ Fail(w)

Spec == Init /\ [][Next]_vars
------------------------------------------------------------------------------
(* Rows and calls are well formed, and what an identity, a token or a call   *)
(* refers to exists.                                                       *)
TypeOK ==
  /\ row \in [Users -> UserRow \cup {NoRow}]
  /\ identity \in [Subs -> Users \cup {NoUser}]
  /\ account \in [Subs -> Emails \cup {NoEmail}]
  /\ tokens \subseteq Token
  /\ call \in [Workers -> Call]
  /\ \A s \in Subs: identity[s] # NoUser => identity[s] \in Born
  /\ \A t \in tokens: account[t.sub] # NoEmail

(* What a request tested under its lock holds until it writes: the user who  *)
(* is being signed in has not been banned or deleted since, a user found by  *)
(* its address still has it, and the address set in Keycloak is the one that *)
(* is about to be written here.                                            *)
CallsStillRight ==
  \A w \in Workers:
    /\ call[w].op = "provision" /\ call[w].at # "unknown"
         /\ call[w].user # NoUser
         => /\ CanLogin(row[call[w].user])
            /\ \/ identity[call[w].token.sub] = call[w].user
               \/ row[call[w].user].email = call[w].token.email
    /\ call[w].op = "change" /\ call[w].at = "in_keycloak"
         => account[call[w].sub] = call[w].new

(* The address of a user made by a login is the user name of that user and   *)
(* of nobody else, so two such users never share an address.  (A user made   *)
(* by an administrator may: create_user looks for the address, then writes.)  *)
OneUserPerEmail ==
  LET provisioned == {u \in Born: row[u].made = "login"}
  IN \A u, v \in provisioned: (row[u].email = row[v].username) <=> (u = v)

EndsAs(o, u) ==
  \E w \in Workers: call[w].op = o /\ call[w].user = u /\ call'[w] = Idle

(* A ban is lifted by unban_user and a deletion by restore_user, never by a  *)
(* login or a change of address.  One other operation can do it: update_user *)
(* with a copy it read before.                                             *)
OnlyAdminsReinstate ==
  [][\A u \in Born:
       /\ row[u].banned /\ ~row'[u].banned
            => EndsAs("unban", u) \/ EndsAs("update", u)
       /\ row[u].deleted /\ ~row'[u].deleted
            => EndsAs("restore", u) \/ EndsAs("update", u)]_vars
===============================================================================
