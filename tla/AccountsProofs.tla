----------------------------- MODULE AccountsProofs -----------------------------
(***************************************************************************)
(* Theorems about Accounts, for any users, subjects, addresses and workers.  *)
(*                                                                         *)
(* The invariant says what every kind of request relies on while it runs,    *)
(* and that a row is locked by one request at a time: whoever writes a row    *)
(* without its lock waits until nobody relies on it.                         *)
(***************************************************************************)
EXTENDS Accounts, TLAPS

HoldsBy(x, u) ==
  \/ x.op = "provision" /\ x.at # "unknown" /\ x.user = u
  \/ x.op = "change" /\ x.at # "asked" /\ x.user = u

NameIsEmail(r) == r.made = "login" => r.username = r.email

(* What a request x relies on.                                              *)
Relies(x) ==
  /\ x.op \in FlagOps \cup {"update"} => x.user \in Born /\ NameIsEmail(x.copy)
  /\ x.op = "change" =>
       /\ identity[x.sub] = x.user
       /\ x.at = "in_keycloak" => account[x.sub] = x.new
  /\ x.op = "provision" /\ x.at = "known" =>
       identity[x.token.sub] = x.user /\ CanLogin(row[x.user])
  /\ x.op = "provision" /\ x.at = "matched" /\ x.user # NoUser =>
       /\ x.user \in Born /\ row[x.user].email = x.token.email
       /\ CanLogin(row[x.user])

NamesUnique == \A u, v \in Born: row[u].username = row[v].username => u = v
LoginNames == \A u \in Born: NameIsEmail(row[u])
OneHolder == \A u \in Users: \A w, v \in Workers: Holds(w, u) /\ Holds(v, u) => w = v

AccountsInv ==
  /\ TypeOK /\ NamesUnique /\ LoginNames /\ OneHolder
  /\ \A w \in Workers: Relies(call[w])
------------------------------------------------------------------------------
LEMMA CallForms ==
  ASSUME NEW x \in Call
  PROVE  /\ x.op \in {"none", "provision", "change", "create", "update"} \cup FlagOps
         /\ x.op = "provision" =>
              /\ x.at \in {"unknown", "known", "matched"} /\ x.token \in Token
              /\ x.token.sub \in Subs /\ x.token.email \in Emails
              /\ x.at = "known" => x.user \in Users
              /\ x.at = "matched" => x.user \in Users \cup {NoUser}
         /\ x.op = "change" =>
              /\ x.at \in {"asked", "locked", "in_keycloak"}
              /\ x.user \in Users /\ x.sub \in Subs /\ x.new \in Emails
         /\ x.op = "create" => x.name \in Names /\ x.email \in Emails
         /\ x.op \in FlagOps \cup {"update"} => x.user \in Users /\ x.copy \in UserRow
BY DEF Call, Idle, FlagOps, Token

LEMMA IdleForms == Idle \in Call /\ Idle.op = "none" /\ Relies(Idle)
BY DEF Idle, Call, Relies, FlagOps

LEMMA RowForms ==
  /\ NoRow \notin UserRow
  /\ \A r \in UserRow: /\ r.username \in Emails \cup Names /\ r.email \in Emails
                       /\ r.banned \in BOOLEAN /\ r.deleted \in BOOLEAN
BY DEF NoRow, UserRow

LEMMA BornRows ==
  ASSUME TypeOK, NEW u \in Users
  PROVE  u \in Born <=> row[u] \in UserRow
BY RowForms DEF TypeOK, Born

LEMMA HoldsIsBy ==
  \A w \in Workers, u \in Users: Holds(w, u) <=> HoldsBy(call[w], u)
BY DEF Holds, HoldsBy

(* Who holds a row relies on its user, who exists.                           *)
LEMMA HeldIsBorn ==
  ASSUME AccountsInv, NEW w \in Workers, NEW u \in Users, Holds(w, u)
  PROVE  u \in Born
<1>1. call[w] \in Call /\ Relies(call[w]) BY DEF AccountsInv, TypeOK
<1>2. call[w].user = u /\ u # NoUser
  BY AccountsAssumption DEF AccountsAssumption, Holds
<1>3. CASE call[w].op = "change"
  <2>1. call[w].sub \in Subs /\ identity[call[w].sub] = u
    BY <1>1, <1>2, <1>3, CallForms DEF Relies
  <2> QED BY <1>2, <2>1 DEF AccountsInv, TypeOK
<1>4. CASE call[w].op = "provision" /\ call[w].at = "known"
  <2>1. call[w].token.sub \in Subs /\ identity[call[w].token.sub] = u
    BY <1>1, <1>2, <1>4, CallForms DEF Relies
  <2> QED BY <1>2, <2>1 DEF AccountsInv, TypeOK
<1>5. CASE call[w].op = "provision" /\ call[w].at = "matched"
  BY <1>1, <1>2, <1>5 DEF Relies
<1> QED BY <1>1, <1>3, <1>4, <1>5, CallForms DEF Holds

(* Only the call of w changes, to x.                                        *)
LEMMA CallGoesOn ==
  ASSUME AccountsInv, NEW w \in Workers, NEW x \in Call,
         call' = [call EXCEPT ![w] = x], Unchanged,
         Relies(x), \A u \in Users: HoldsBy(x, u) => Holds(w, u) \/ UserFree(w, u)
  PROVE  AccountsInv'
<1>1. /\ call' \in [Workers -> Call] /\ call'[w] = x
      /\ \A v \in Workers \ {w}: call'[v] = call[v]
      /\ UNCHANGED <<row, identity, account, tokens>>
  BY DEF AccountsInv, TypeOK, Unchanged
<1>2. Born' = Born BY <1>1 DEF Born
<1>3. TypeOK' BY <1>1, <1>2 DEF AccountsInv, TypeOK
<1>4. NamesUnique' /\ LoginNames'
  BY <1>1, <1>2 DEF AccountsInv, NamesUnique, LoginNames
<1>5. \A v \in Workers, u \in Users: Holds(v, u)' <=> IF v = w THEN HoldsBy(x, u)
                                                      ELSE Holds(v, u)
  BY <1>1 DEF Holds, HoldsBy
<1>6. OneHolder'
  BY <1>5 DEF AccountsInv, OneHolder, UserFree
<1>7. \A v \in Workers: Relies(call'[v])
  BY <1>1 DEF AccountsInv
<1>8. \A v \in Workers: Relies(call[v])' BY <1>1, <1>2, <1>7 DEF Relies
<1> QED BY <1>3, <1>4, <1>6, <1>8 DEF AccountsInv

(* A request ends and writes the row of u, which nobody else holds, and       *)
(* perhaps a first identity for u.                                          *)
LEMMA RowWritten ==
  ASSUME AccountsInv, NEW w \in Workers, NEW u \in Users, NEW r \in UserRow,
         call' = [call EXCEPT ![w] = Idle], row' = [row EXCEPT ![u] = r],
         UNCHANGED <<account, tokens>>,
         identity' \in [Subs -> Users \cup {NoUser}],
         \A s \in Subs: identity'[s] = identity[s] \/ (identity[s] = NoUser /\ identity'[s] = u),
         u \notin Born \/ UserFree(w, u), NameIsEmail(r), ~NameTaken(r.username, u)
  PROVE  AccountsInv'
<1>1. /\ call' \in [Workers -> Call] /\ call'[w] = Idle
      /\ \A v \in Workers \ {w}: call'[v] = call[v]
  BY IdleForms DEF AccountsInv, TypeOK
<1>2. /\ row' \in [Users -> UserRow \cup {NoRow}] /\ row'[u] = r
      /\ \A v \in Users \ {u}: row'[v] = row[v]
  BY DEF AccountsInv, TypeOK
<1>3. Born' = Born \cup {u} BY <1>2, RowForms DEF Born
<1>4. TypeOK' BY <1>1, <1>2, <1>3 DEF AccountsInv, TypeOK
<1>5. NamesUnique'
  BY <1>2, <1>3 DEF AccountsInv, NamesUnique, NameTaken, Born
<1>6. LoginNames' BY <1>2, <1>3 DEF AccountsInv, LoginNames, Born
<1>7. \A v \in Workers, z \in Users: Holds(v, z)' => v # w /\ Holds(v, z)
  BY <1>1, IdleForms DEF Holds
<1>8. OneHolder' BY <1>7 DEF AccountsInv, OneHolder
<1>9. ASSUME NEW v \in Workers PROVE Relies(call[v])'
  <2>1. CASE v = w
    BY <1>1, <2>1, IdleForms DEF Relies, FlagOps
  <2>2. CASE v # w
    <3> DEFINE y == call[v]
    <3>1. call'[v] = y /\ y \in Call /\ Relies(y) BY <1>1, <2>2 DEF AccountsInv, TypeOK
    <3>2. ~Holds(v, u) BY <2>2, HeldIsBorn DEF UserFree
    <3>3. \A z \in Users: Holds(v, z) => row'[z] = row[z]
      BY <1>2, <3>2
    <3>4. y.op \in FlagOps \cup {"update"} => y.user \in Born' /\ NameIsEmail(y.copy)
      BY <1>3, <3>1 DEF Relies
    <3>5. y.op = "change" => identity'[y.sub] = y.user
                             /\ (y.at = "in_keycloak" => account'[y.sub] = y.new)
      BY <3>1, CallForms, AccountsAssumption DEF AccountsAssumption, Relies
    <3>6. y.op = "provision" /\ y.at = "known" =>
            identity'[y.token.sub] = y.user /\ CanLogin(row'[y.user])
      <4> SUFFICES ASSUME y.op = "provision", y.at = "known"
                   PROVE  identity'[y.token.sub] = y.user /\ CanLogin(row'[y.user])
        OBVIOUS
      <4>1. y.user \in Users /\ y.token.sub \in Subs BY <3>1, CallForms
      <4>2. identity[y.token.sub] = y.user /\ CanLogin(row[y.user]) BY <3>1 DEF Relies
      <4>3. row'[y.user] = row[y.user] BY <3>3, <4>1 DEF Holds
      <4> QED BY <4>1, <4>2, <4>3, AccountsAssumption DEF AccountsAssumption
    <3>7. y.op = "provision" /\ y.at = "matched" /\ y.user # NoUser =>
            /\ y.user \in Born' /\ row'[y.user].email = y.token.email
            /\ CanLogin(row'[y.user])
      <4> SUFFICES ASSUME y.op = "provision", y.at = "matched", y.user # NoUser
                   PROVE  /\ y.user \in Born' /\ row'[y.user].email = y.token.email
                          /\ CanLogin(row'[y.user])
        OBVIOUS
      <4>1. y.user \in Users BY <3>1, CallForms
      <4>2. /\ y.user \in Born /\ row[y.user].email = y.token.email
            /\ CanLogin(row[y.user])
        BY <3>1 DEF Relies
      <4>3. row'[y.user] = row[y.user] BY <3>3, <4>1 DEF Holds
      <4> QED BY <1>3, <4>2, <4>3
    <3> HIDE DEF y
    <3>8. Relies(y)' <=>
            /\ y'.op \in FlagOps \cup {"update"} => y'.user \in Born' /\ NameIsEmail(y'.copy)
            /\ y'.op = "change" => identity'[y'.sub] = y'.user
                             /\ (y'.at = "in_keycloak" => account'[y'.sub] = y'.new)
            /\ y'.op = "provision" /\ y'.at = "known" =>
                 identity'[y'.token.sub] = y'.user /\ CanLogin(row'[y'.user])
            /\ y'.op = "provision" /\ y'.at = "matched" /\ y'.user # NoUser =>
                 /\ y'.user \in Born' /\ row'[y'.user].email = y'.token.email
                 /\ CanLogin(row'[y'.user])
      BY DEF Relies, NameIsEmail, CanLogin
    <3>9. y' = y BY <3>1 DEF y
    <3> QED BY <3>4, <3>5, <3>6, <3>7, <3>8, <3>9 DEF y
  <2> QED BY <2>1, <2>2
<1> QED BY <1>4, <1>5, <1>6, <1>8, <1>9 DEF AccountsInv
------------------------------------------------------------------------------
(* A request that ends and has written nothing.                              *)
LEMMA CallEnds ==
  ASSUME AccountsInv, NEW w \in Workers, Finish(w), Unchanged
  PROVE  AccountsInv'
<1>1. \A u \in Users: ~HoldsBy(Idle, u) BY IdleForms DEF HoldsBy
<1> QED BY <1>1, IdleForms, CallGoesOn DEF Finish

(* Keycloak's own steps.                                                     *)
LEMMA KeycloakKeepsInv ==
  ASSUME AccountsInv,
         \/ \E s \in Subs: Issue(s) \/ \E e \in Emails: Enrol(s, e)
         \/ \E t \in Token: Expire(t)
  PROVE  AccountsInv'
<1> USE DEF AccountsInv
<1>1. /\ UNCHANGED <<row, identity, call>>
      /\ account' \in [Subs -> Emails \cup {NoEmail}]
      /\ \A s \in Subs: account[s] # NoEmail => account'[s] = account[s]
      /\ tokens' \subseteq Token /\ \A t \in tokens': account'[t.sub] # NoEmail
  <2>1. ASSUME NEW s \in Subs, Issue(s)
        PROVE  /\ UNCHANGED <<row, identity, account, call>> /\ tokens' \subseteq Token
               /\ \A t \in tokens': account[t.sub] # NoEmail
    <3> DEFINE t == [sub |-> s, email |-> account[s]]
    <3>1. account[s] # NoEmail /\ tokens' = tokens \cup {t} BY <2>1 DEF Issue
    <3>2. t \in Token /\ t.sub = s BY <3>1 DEF Token, TypeOK
    <3> HIDE DEF t
    <3> QED BY <2>1, <3>1, <3>2 DEF Issue, TypeOK
  <2>2. ASSUME NEW s \in Subs, NEW e \in Emails, Enrol(s, e)
        PROVE  /\ UNCHANGED <<row, identity, tokens, call>>
               /\ account' \in [Subs -> Emails \cup {NoEmail}]
               /\ \A z \in Subs: account[z] # NoEmail => account'[z] = account[z]
               /\ \A t \in tokens: account'[t.sub] # NoEmail
    BY <2>2, AccountsAssumption DEF AccountsAssumption, Enrol, TypeOK, Token
  <2>3. ASSUME NEW t \in Token, Expire(t)
        PROVE  UNCHANGED <<row, identity, account, call>> /\ tokens' \subseteq tokens
    BY <2>3 DEF Expire
  <2>4. \A s \in Subs: account[s] # NoEmail => account'[s] = account[s]
    BY <2>1, <2>2, <2>3
  <2> QED BY <2>1, <2>2, <2>3, <2>4 DEF TypeOK
<1>2. TypeOK' BY <1>1 DEF TypeOK, Born
<1>3. NamesUnique' /\ LoginNames' /\ OneHolder'
  BY <1>1 DEF NamesUnique, LoginNames, OneHolder, Holds, Born
<1>4. ASSUME NEW w \in Workers PROVE Relies(call[w])'
  <2>1. Relies(call[w]) /\ call[w] \in Call BY DEF TypeOK
  <2>2. call[w].op = "change" /\ call[w].at = "in_keycloak" =>
          account'[call[w].sub] = call[w].new
    BY <1>1, <2>1, CallForms, AccountsAssumption DEF AccountsAssumption, Relies
  <2> QED BY <1>1, <2>1, <2>2 DEF Relies, Born
<1> QED BY <1>2, <1>3, <1>4

LEMMA ProvisionKeepsInv ==
  ASSUME AccountsInv, NEW w \in Workers,
         \/ \E t \in Token: ProvisionFind(w, t)
         \/ ProvisionMatch(w) \/ ProvisionCommit(w)
  PROVE  AccountsInv'
<1>1. ASSUME NEW t \in Token, ProvisionFind(w, t) PROVE AccountsInv'
  <2> DEFINE u == identity[t.sub]
  <2>1. t.sub \in Subs /\ u \in Users \cup {NoUser} BY DEF Token, AccountsInv, TypeOK
  <2>2. CASE call' = [call EXCEPT ![w] = [op |-> "provision", at |-> "unknown", token |-> t]]
    <3> DEFINE x == [op |-> "provision", at |-> "unknown", token |-> t]
    <3>1. x \in Call /\ Relies(x) /\ \A z \in Users: ~HoldsBy(x, z)
      BY DEF Call, Relies, HoldsBy, FlagOps
    <3>2. call' = [call EXCEPT ![w] = x] /\ Unchanged BY <1>1, <2>2 DEF ProvisionFind
    <3> HIDE DEF x
    <3> QED BY <3>1, <3>2, CallGoesOn
  <2>3. CASE /\ u # NoUser /\ UserFree(w, u) /\ CanLogin(row[u])
             /\ call' = [call EXCEPT ![w] = [op |-> "provision", at |-> "known",
                                             token |-> t, user |-> u]]
    <3> DEFINE x == [op |-> "provision", at |-> "known", token |-> t, user |-> u]
    <3>1. u \in Users BY <2>1, <2>3
    <3>2. x \in Call BY <3>1 DEF Call
    <3>3. Relies(x) BY <2>3 DEF Relies, FlagOps
    <3>4. \A z \in Users: HoldsBy(x, z) => UserFree(w, z) BY <2>3 DEF HoldsBy
    <3>5. call' = [call EXCEPT ![w] = x] /\ Unchanged BY <1>1, <2>3 DEF ProvisionFind
    <3> HIDE DEF x, u
    <3> QED BY <3>2, <3>3, <3>4, <3>5, CallGoesOn
  <2> QED BY <1>1, <2>2, <2>3 DEF ProvisionFind
<1>2. CASE ProvisionMatch(w)
  <2> DEFINE t == call[w].token
             found == Matching(t.email)
             x(u) == [op |-> "provision", at |-> "matched", token |-> t, user |-> u]
  <2>1. t \in Token BY <1>2, CallForms DEF ProvisionMatch, AccountsInv, TypeOK
  <2>2. ASSUME NEW u \in Users \cup {NoUser}, call' = [call EXCEPT ![w] = x(u)],
               u # NoUser => u \in found /\ CanLogin(row[u])
        PROVE  AccountsInv'
    <3>1. x(u) \in Call BY <2>1 DEF Call
    <3>2. u # NoUser => /\ u \in Born /\ row[u].email = t.email
                        /\ CanLogin(row[u]) /\ UserFree(w, u)
      BY <1>2, <2>2 DEF ProvisionMatch, Matching, Alive
    <3>3. Relies(x(u)) BY <3>2 DEF Relies, FlagOps
    <3>4. \A z \in Users: HoldsBy(x(u), z) => UserFree(w, z)
      BY <3>2, AccountsAssumption DEF AccountsAssumption, HoldsBy
    <3>5. Unchanged BY <1>2 DEF ProvisionMatch
    <3> DEFINE y == x(u)
    <3> HIDE DEF x
    <3> QED BY <2>2, <3>1, <3>3, <3>4, <3>5, CallGoesOn
  <2>3. \/ call' = [call EXCEPT ![w] = x(NoUser)]
        \/ \E u \in found: /\ call' = [call EXCEPT ![w] = x(u)]
                           /\ found = {u} /\ CanLogin(row[u])
        \/ Finish(w)
    BY <1>2 DEF ProvisionMatch
  <2>4. found \subseteq Users BY DEF Matching, Alive, Born
  <2>5. Unchanged BY <1>2 DEF ProvisionMatch
  <2> HIDE DEF x
  <2> QED BY <2>2, <2>3, <2>4, <2>5, CallEnds
<1>3. CASE ProvisionCommit(w)
  <2> DEFINE t == call[w].token
             new(u) == IF u \in Born THEN Synced(row[u], t.email)
                       ELSE NewUser("login", t.email, t.email)
  <2>1. PICK u \in Users:
          /\ IF call[w].user = NoUser THEN u \notin Born ELSE u = call[w].user
          /\ row' = [row EXCEPT ![u] = new(u)]
          /\ identity' = [identity EXCEPT ![t.sub] = u]
    BY <1>3 DEF ProvisionCommit, AccountsInv, TypeOK
  <2>2. /\ call[w].op = "provision" /\ call[w].at \in {"known", "matched"}
        /\ ~NameTaken(t.email, call[w].user)
        /\ call[w].at = "known" \/ identity[t.sub] = NoUser
        /\ Finish(w) /\ UNCHANGED <<account, tokens>>
    BY <1>3 DEF ProvisionCommit
  <2>3. /\ t.sub \in Subs /\ t.email \in Emails
        /\ call[w].at = "known" => call[w].user \in Users
        /\ call[w].at = "matched" => call[w].user \in Users \cup {NoUser}
        /\ Relies(call[w])
    BY <2>2, CallForms DEF AccountsInv, TypeOK
  <2>4. new(u) \in UserRow /\ NameIsEmail(new(u)) /\ new(u).username = t.email
    <3>1. CASE u \in Born
      <4>1. row[u] \in UserRow BY <3>1, BornRows DEF AccountsInv
      <4> QED BY <2>3, <3>1, <4>1 DEF Synced, UserRow, NameIsEmail
    <3>2. CASE u \notin Born
      BY <2>3, <3>2 DEF NewUser, NoRow, UserRow, NameIsEmail
    <3> QED BY <3>1, <3>2
  <2>5. identity' \in [Subs -> Users \cup {NoUser}] BY <2>1, <2>3 DEF AccountsInv, TypeOK
  <2>6. \A s \in Subs: identity'[s] = identity[s] \/ (identity[s] = NoUser /\ identity'[s] = u)
    <3>1. identity[t.sub] \in {NoUser, u}
      BY <2>1, <2>2, <2>3, AccountsAssumption DEF AccountsAssumption, Relies
    <3> QED BY <2>1, <2>3, <3>1 DEF AccountsInv, TypeOK
  <2>7. u \notin Born \/ UserFree(w, u)
    <3>1. CASE call[w].user = NoUser BY <2>1, <3>1
    <3>2. CASE call[w].user # NoUser
      <4>1. Holds(w, u) BY <2>1, <2>2, <3>2 DEF Holds
      <4> QED BY <4>1 DEF AccountsInv, OneHolder, UserFree
    <3> QED BY <3>1, <3>2
  <2>8. ~NameTaken(t.email, u)
    BY <2>1, <2>2, AccountsAssumption DEF AccountsAssumption, NameTaken, Born
  <2>9. call' = [call EXCEPT ![w] = Idle] BY <2>2 DEF Finish
  <2> HIDE DEF new
  <2> QED BY <2>1, <2>2, <2>4, <2>5, <2>6, <2>7, <2>8, <2>9, RowWritten
<1> QED BY <1>1, <1>2, <1>3
LEMMA ChangeKeepsInv ==
  ASSUME AccountsInv, NEW w \in Workers,
         \/ \E s \in Subs, e \in Emails: ChangeAsk(w, s, e)
         \/ ChangeLock(w) \/ ChangeKeycloak(w) \/ ChangeCommit(w)
  PROVE  AccountsInv'
<1>1. ASSUME NEW s \in Subs, NEW e \in Emails, ChangeAsk(w, s, e) PROVE AccountsInv'
  <2> DEFINE x == [op |-> "change", at |-> "asked", user |-> identity[s], sub |-> s,
                   new |-> e]
  <2>1. identity[s] \in Users BY <1>1 DEF ChangeAsk, AccountsInv, TypeOK
  <2>2. x \in Call /\ Relies(x) /\ \A z \in Users: ~HoldsBy(x, z)
    BY <2>1 DEF Call, Relies, HoldsBy, FlagOps
  <2>3. call' = [call EXCEPT ![w] = x] /\ Unchanged BY <1>1 DEF ChangeAsk
  <2> HIDE DEF x
  <2> QED BY <2>2, <2>3, CallGoesOn
<1>2. ASSUME call[w].op = "change" PROVE call[w] \in [op: {"change"},
               at: {"asked", "locked", "in_keycloak"}, user: Users, sub: Subs, new: Emails]
  BY <1>2 DEF AccountsInv, TypeOK, Call, Idle, FlagOps
<1>3. CASE ChangeLock(w)
  <2>1. CASE Finish(w) BY <1>3, <2>1, CallEnds DEF ChangeLock
  <2>2. CASE Advance(w, "locked")
    <3> DEFINE x == [call[w] EXCEPT !.at = "locked"]
    <3>1. x = [op |-> "change", at |-> "locked", user |-> call[w].user,
               sub |-> call[w].sub, new |-> call[w].new]
      BY <1>2, <1>3 DEF ChangeLock
    <3>2. x \in Call BY <1>2, <1>3, <3>1 DEF ChangeLock, Call
    <3>3. Relies(x)
      <4>1. identity[call[w].sub] = call[w].user
        BY <1>3 DEF ChangeLock, AccountsInv, Relies
      <4> QED BY <3>1, <4>1 DEF Relies, FlagOps
    <3>4. \A z \in Users: HoldsBy(x, z) => UserFree(w, z)
      BY <1>3, <3>1 DEF ChangeLock, HoldsBy
    <3>5. call' = [call EXCEPT ![w] = x] /\ Unchanged
      BY <1>3, <2>2 DEF ChangeLock, Advance, AccountsInv, TypeOK
    <3> HIDE DEF x
    <3> QED BY <3>2, <3>3, <3>4, <3>5, CallGoesOn
  <2> QED BY <1>3, <2>1, <2>2 DEF ChangeLock
<1>4. CASE ChangeKeycloak(w)
  <2> DEFINE x == [call[w] EXCEPT !.at = "in_keycloak"]
             s == call[w].sub
             u == call[w].user
  <2>1. /\ call[w].op = "change" /\ call[w].at = "locked"
        /\ account' = [account EXCEPT ![s] = call[w].new]
        /\ call' = [call EXCEPT ![w] = x] /\ UNCHANGED <<row, identity, tokens>>
    BY <1>4 DEF ChangeKeycloak, Advance, AccountsInv, TypeOK
  <2>2. s \in Subs /\ u \in Users /\ call[w].new \in Emails
    BY <1>2, <2>1
  <2>3. x = [op |-> "change", at |-> "in_keycloak", user |-> u, sub |-> s,
             new |-> call[w].new]
    BY <1>2, <2>1
  <2>4. x \in Call BY <2>2, <2>3 DEF Call
  <2> HIDE DEF x
  <2>5. /\ call' \in [Workers -> Call] /\ call'[w] = x
        /\ \A v \in Workers \ {w}: call'[v] = call[v]
    BY <2>1, <2>4 DEF AccountsInv, TypeOK
  <2>6. /\ account' \in [Subs -> Emails \cup {NoEmail}]
        /\ account'[s] = call[w].new /\ account'[s] # NoEmail
        /\ \A z \in Subs \ {s}: account'[z] = account[z]
    BY <2>1, <2>2, AccountsAssumption DEF AccountsAssumption, AccountsInv, TypeOK
  <2>7. TypeOK'
    <3>1. \A t \in tokens: t.sub \in Subs BY DEF AccountsInv, TypeOK, Token
    <3> QED BY <2>1, <2>5, <2>6, <3>1 DEF AccountsInv, TypeOK, Born
  <2>8. NamesUnique' /\ LoginNames'
    BY <2>1 DEF AccountsInv, NamesUnique, LoginNames, Born
  <2>9. \A v \in Workers, z \in Users: Holds(v, z)' <=> Holds(v, z)
    BY <2>1, <2>3, <2>5 DEF Holds
  <2>10. OneHolder' BY <2>9 DEF AccountsInv, OneHolder
  <2>11. identity[s] = u BY <2>1 DEF AccountsInv, Relies
  <2>12. Relies(call[w])' BY <2>1, <2>3, <2>5, <2>6, <2>11 DEF Relies, FlagOps
  <2>13. ASSUME NEW v \in Workers \ {w} PROVE Relies(call[v])'
    <3>1. call'[v] = call[v] /\ Relies(call[v]) /\ call[v] \in Call
      BY <2>5 DEF AccountsInv, TypeOK
    <3>2. call[v].op = "change" /\ call[v].at = "in_keycloak" => call[v].sub # s
      <4> SUFFICES ASSUME call[v].op = "change", call[v].at = "in_keycloak",
                          call[v].sub = s
                   PROVE  FALSE
        OBVIOUS
      <4>1. call[v].user = u BY <2>11, <3>1 DEF Relies
      <4>2. Holds(v, u) /\ Holds(w, u) BY <2>1, <4>1 DEF Holds
      <4> QED BY <2>2, <4>2 DEF AccountsInv, OneHolder
    <3>3. call[v].op = "change" => call[v].sub \in Subs BY <3>1, CallForms
    <3>4. call[v].op = "change" /\ call[v].at = "in_keycloak" =>
            account'[call[v].sub] = call[v].new
      BY <2>6, <3>1, <3>2, <3>3 DEF Relies
    <3> QED BY <2>1, <3>1, <3>4 DEF Relies, Born
  <2> QED BY <2>7, <2>8, <2>10, <2>12, <2>13 DEF AccountsInv
<1>5. CASE ChangeCommit(w)
  <2> DEFINE u == call[w].user
             r == Synced(row[u], call[w].new)
  <2>1. /\ call[w].op = "change" /\ call[w].at = "in_keycloak"
        /\ ~NameTaken(call[w].new, u) /\ row' = [row EXCEPT ![u] = r]
        /\ call' = [call EXCEPT ![w] = Idle] /\ UNCHANGED <<identity, account, tokens>>
    BY <1>5 DEF ChangeCommit, Finish, AccountsInv, TypeOK
  <2>2. u \in Users /\ call[w].new \in Emails BY <1>2, <2>1
  <2>3. Holds(w, u) BY <2>1 DEF Holds
  <2>4. row[u] \in UserRow BY <2>2, <2>3, HeldIsBorn, BornRows DEF AccountsInv
  <2>5. r \in UserRow /\ NameIsEmail(r) /\ r.username = call[w].new
    BY <2>2, <2>4 DEF Synced, UserRow, NameIsEmail
  <2>6. UserFree(w, u) BY <2>2, <2>3 DEF AccountsInv, OneHolder, UserFree
  <2>7. identity' \in [Subs -> Users \cup {NoUser}] BY <2>1 DEF AccountsInv, TypeOK
  <2> HIDE DEF r
  <2> QED BY <2>1, <2>2, <2>5, <2>6, <2>7, RowWritten
<1> QED BY <1>1, <1>3, <1>4, <1>5

LEMMA AdminKeepsInv ==
  ASSUME AccountsInv, NEW w \in Workers,
         \/ \E name \in Names, e \in Emails: CreateRead(w, name, e)
         \/ CreateCommit(w)
         \/ \E u \in Users, o \in FlagOps \cup {"update"}: AdminRead(w, u, o)
         \/ AdminFlag(w) \/ AdminUpdate(w)
  PROVE  AccountsInv'
<1>1. ASSUME NEW name \in Names, NEW e \in Emails, CreateRead(w, name, e)
      PROVE  AccountsInv'
  <2> DEFINE x == [op |-> "create", name |-> name, email |-> e]
  <2>1. x \in Call /\ Relies(x) /\ \A z \in Users: ~HoldsBy(x, z)
    BY DEF Call, Relies, HoldsBy, FlagOps
  <2>2. call' = [call EXCEPT ![w] = x] /\ Unchanged BY <1>1 DEF CreateRead
  <2> HIDE DEF x
  <2> QED BY <2>1, <2>2, CallGoesOn
<1>2. CASE CreateCommit(w)
  <2>1. PICK u \in Users \ Born:
          row' = [row EXCEPT ![u] = NewUser("admin", call[w].name, call[w].email)]
    BY <1>2 DEF CreateCommit
  <2> DEFINE r == NewUser("admin", call[w].name, call[w].email)
  <2>2. call[w].name \in Names /\ call[w].email \in Emails
    BY <1>2, CallForms DEF CreateCommit, AccountsInv, TypeOK
  <2>3. r \in UserRow /\ NameIsEmail(r) /\ r.username = call[w].name
    BY <2>2 DEF NewUser, NoRow, UserRow, NameIsEmail
  <2>4. /\ ~NameTaken(call[w].name, NoUser) /\ call' = [call EXCEPT ![w] = Idle]
        /\ UNCHANGED <<identity, account, tokens>>
    BY <1>2 DEF CreateCommit, Finish
  <2>5. ~NameTaken(call[w].name, u)
    BY <2>4, AccountsAssumption DEF AccountsAssumption, NameTaken, Born
  <2>6. identity' \in [Subs -> Users \cup {NoUser}] BY <2>4 DEF AccountsInv, TypeOK
  <2> HIDE DEF r
  <2> QED BY <2>1, <2>3, <2>4, <2>5, <2>6, RowWritten DEF r
<1>3. ASSUME NEW u \in Users, NEW o \in FlagOps \cup {"update"}, AdminRead(w, u, o)
      PROVE  AccountsInv'
  <2> DEFINE x == [op |-> o, user |-> u, copy |-> row[u]]
  <2>1. u \in Born /\ row[u] \in UserRow /\ NameIsEmail(row[u])
    BY <1>3, BornRows DEF AdminRead, AccountsInv, LoginNames
  <2>2. x \in Call BY <2>1 DEF Call
  <2>3. Relies(x) /\ \A z \in Users: ~HoldsBy(x, z)
    BY <2>1 DEF Relies, HoldsBy, FlagOps
  <2>4. call' = [call EXCEPT ![w] = x] /\ Unchanged BY <1>3 DEF AdminRead
  <2> HIDE DEF x
  <2> QED BY <2>2, <2>3, <2>4, CallGoesOn
<1>4. ASSUME call[w].op \in FlagOps \cup {"update"}
      PROVE  /\ call[w].user \in Users /\ call[w].copy \in UserRow
             /\ call[w].user \in Born /\ row[call[w].user] \in UserRow
             /\ NameIsEmail(call[w].copy) /\ NameIsEmail(row[call[w].user])
             /\ ~NameTaken(row[call[w].user].username, call[w].user)
  <2>1. call[w] \in Call /\ Relies(call[w]) BY DEF AccountsInv, TypeOK
  <2>2. call[w].user \in Users /\ call[w].copy \in UserRow BY <1>4, <2>1, CallForms
  <2>3. call[w].user \in Born /\ NameIsEmail(call[w].copy) BY <1>4, <2>1 DEF Relies
  <2>4. row[call[w].user] \in UserRow BY <2>2, <2>3, BornRows DEF AccountsInv
  <2>5. NameIsEmail(row[call[w].user]) BY <2>3 DEF AccountsInv, LoginNames
  <2>6. ~NameTaken(row[call[w].user].username, call[w].user)
    BY <2>3 DEF AccountsInv, NamesUnique, NameTaken
  <2> QED BY <2>2, <2>3, <2>4, <2>5, <2>6
<1>5. CASE AdminFlag(w)
  <2> DEFINE u == call[w].user
             r == FlagWritten(w)
  <2>1. /\ call[w].op \in FlagOps /\ UserFree(w, u) /\ row' = [row EXCEPT ![u] = r]
        /\ call' = [call EXCEPT ![w] = Idle] /\ UNCHANGED <<identity, account, tokens>>
    BY <1>5 DEF AdminFlag, Finish
  <2>2. /\ u \in Users /\ row[u] \in UserRow /\ NameIsEmail(row[u])
        /\ ~NameTaken(row[u].username, u)
    BY <1>4, <2>1
  <2>3. r \in {[row[u] EXCEPT !.banned = TRUE], [row[u] EXCEPT !.banned = FALSE],
               [row[u] EXCEPT !.deleted = TRUE], [row[u] EXCEPT !.deleted = FALSE]}
    BY <2>1 DEF FlagWritten, Flagged, FlagOps
  <2> HIDE DEF r
  <2>4. /\ r \in UserRow /\ r.username = row[u].username /\ r.email = row[u].email
        /\ r.made = row[u].made
    BY <2>2, <2>3 DEF UserRow
  <2>5. NameIsEmail(r) BY <2>2, <2>4 DEF NameIsEmail
  <2>6. identity' \in [Subs -> Users \cup {NoUser}] BY <2>1 DEF AccountsInv, TypeOK
  <2> QED BY <2>1, <2>2, <2>4, <2>5, <2>6, RowWritten
<1>6. CASE AdminUpdate(w)
  <2>1. /\ call[w].op = "update" /\ UserFree(w, call[w].user)
        /\ ~NameTaken(call[w].copy.username, call[w].user)
        /\ row' = [row EXCEPT ![call[w].user] = call[w].copy]
        /\ call' = [call EXCEPT ![w] = Idle] /\ UNCHANGED <<identity, account, tokens>>
    BY <1>6 DEF AdminUpdate, Finish
  <2>2. identity' \in [Subs -> Users \cup {NoUser}] BY <2>1 DEF AccountsInv, TypeOK
  <2> QED BY <1>4, <2>1, <2>2, RowWritten
<1> QED BY <1>1, <1>2, <1>3, <1>5, <1>6
------------------------------------------------------------------------------
LEMMA AccountsInvariant == Spec => []AccountsInv
<1>1. Init => AccountsInv
  <2> SUFFICES ASSUME Init PROVE AccountsInv
    OBVIOUS
  <2>1. TypeOK BY IdleForms DEF Init, TypeOK
  <2>2. Born = {} BY DEF Init, Born
  <2>3. NamesUnique /\ LoginNames BY <2>2 DEF NamesUnique, LoginNames
  <2>4. \A w \in Workers: call[w] = Idle BY DEF Init
  <2>5. OneHolder BY <2>4, IdleForms DEF OneHolder, Holds
  <2> QED BY <2>1, <2>3, <2>4, <2>5, IdleForms DEF AccountsInv
<1>2. AccountsInv /\ [Next]_vars => AccountsInv'
  <2> SUFFICES ASSUME AccountsInv, [Next]_vars PROVE AccountsInv'
    OBVIOUS
  <2>1. CASE UNCHANGED vars
    BY <2>1 DEF vars, AccountsInv, TypeOK, NamesUnique, LoginNames, OneHolder, Holds, Born,
                Relies
  <2>2. ASSUME NEW w \in Workers, Fail(w) PROVE AccountsInv'
    BY <2>2, CallEnds DEF Fail
  <2> QED
    BY <2>1, <2>2, KeycloakKeepsInv, ProvisionKeepsInv, ChangeKeepsInv, AdminKeepsInv DEF Next
<1> QED BY <1>1, <1>2, PTL DEF Spec

(* Rows, identities, tokens and requests are well formed, and what an         *)
(* identity refers to exists.                                               *)
THEOREM AccountsTyped == Spec => []TypeOK
<1>1. AccountsInv => TypeOK BY DEF AccountsInv
<1> QED BY <1>1, AccountsInvariant, PTL

(* However logins, changes of address and administrators overlap, no two      *)
(* users made by logins share an address.                                    *)
THEOREM AddressesUnique == Spec => []OneUserPerEmail
<1>1. AccountsInv => OneUserPerEmail
  BY DEF AccountsInv, NamesUnique, LoginNames, NameIsEmail, OneUserPerEmail
<1> QED BY <1>1, AccountsInvariant, PTL

(* What a request tested under its row lock is still so when it writes.       *)
THEOREM RequestsStillRight == Spec => []CallsStillRight
<1>1. AccountsInv => CallsStillRight
  <2> SUFFICES ASSUME AccountsInv, NEW w \in Workers
               PROVE  /\ call[w].op = "provision" /\ call[w].at # "unknown"
                           /\ call[w].user # NoUser
                           => /\ CanLogin(row[call[w].user])
                              /\ \/ identity[call[w].token.sub] = call[w].user
                                 \/ row[call[w].user].email = call[w].token.email
                      /\ call[w].op = "change" /\ call[w].at = "in_keycloak"
                           => account[call[w].sub] = call[w].new
    BY DEF CallsStillRight
  <2>1. call[w] \in Call /\ Relies(call[w]) BY DEF AccountsInv, TypeOK
  <2> QED BY <2>1, CallForms DEF Relies
<1> QED BY <1>1, AccountsInvariant, PTL

(* A ban or a deletion is undone by nobody but an administrator.              *)
THEOREM BansStay == Spec => OnlyAdminsReinstate
<1>1. AccountsInv /\ [Next]_vars =>
        \A u \in Born:
          /\ row[u].banned /\ ~row'[u].banned => EndsAs("unban", u) \/ EndsAs("update", u)
          /\ row[u].deleted /\ ~row'[u].deleted =>
               EndsAs("restore", u) \/ EndsAs("update", u)
  <2> SUFFICES ASSUME AccountsInv, [Next]_vars, NEW u \in Born
               PROVE  /\ row[u].banned /\ ~row'[u].banned =>
                           EndsAs("unban", u) \/ EndsAs("update", u)
                      /\ row[u].deleted /\ ~row'[u].deleted =>
                           EndsAs("restore", u) \/ EndsAs("update", u)
    OBVIOUS
  <2>1. /\ u \in Users /\ row \in [Users -> UserRow \cup {NoRow}] /\ row[u] \in UserRow
        /\ call \in [Workers -> Call]
    BY BornRows DEF Born, AccountsInv, TypeOK
  <2>2. ASSUME NEW e \in Emails
        PROVE  /\ Synced(row[u], e).banned = row[u].banned
               /\ Synced(row[u], e).deleted = row[u].deleted
    BY <2>1 DEF Synced, UserRow
  <2>3. ASSUME NEW w \in Workers, ProvisionCommit(w)
        PROVE  row'[u].banned = row[u].banned /\ row'[u].deleted = row[u].deleted
    <3>1. call[w].token.email \in Emails BY <2>1, <2>3, CallForms DEF ProvisionCommit
    <3> QED BY <2>1, <2>2, <2>3, <3>1 DEF ProvisionCommit
  <2>4. ASSUME NEW w \in Workers, ChangeCommit(w)
        PROVE  row'[u].banned = row[u].banned /\ row'[u].deleted = row[u].deleted
    <3>1. call[w].new \in Emails BY <2>1, <2>4, CallForms DEF ChangeCommit
    <3> QED BY <2>1, <2>2, <2>4, <3>1 DEF ChangeCommit
  <2>5. ASSUME NEW w \in Workers, CreateCommit(w) PROVE row'[u] = row[u]
    BY <2>1, <2>5 DEF CreateCommit
  <2>6. ASSUME NEW w \in Workers, AdminFlag(w)
        PROVE  /\ row[u].banned /\ ~row'[u].banned => EndsAs("unban", u)
               /\ row[u].deleted /\ ~row'[u].deleted => EndsAs("restore", u)
    <3>1. /\ call[w].op \in FlagOps /\ call'[w] = Idle
          /\ row' = [row EXCEPT ![call[w].user] = Flagged(call[w].op, row[call[w].user])]
      BY <2>1, <2>6 DEF AdminFlag, Finish, FlagWritten
    <3>2. CASE call[w].user # u BY <2>1, <3>1, <3>2
    <3>3. CASE call[w].user = u
      <4>1. row'[u] = Flagged(call[w].op, row[u]) BY <2>1, <3>1, <3>3
      <4>2. /\ row[u].banned /\ ~row'[u].banned => call[w].op = "unban"
            /\ row[u].deleted /\ ~row'[u].deleted => call[w].op = "restore"
        BY <2>1, <3>1, <4>1 DEF Flagged, FlagOps, UserRow
      <4> QED BY <3>1, <3>3, <4>2 DEF EndsAs
    <3> QED BY <3>2, <3>3
  <2>7. ASSUME NEW w \in Workers, AdminUpdate(w)
        PROVE  row'[u] = row[u] \/ EndsAs("update", u)
    BY <2>1, <2>7 DEF AdminUpdate, Finish, EndsAs
  <2>8. CASE UNCHANGED row BY <2>8
  <2> QED
    BY <2>3, <2>4, <2>5, <2>6, <2>7, <2>8
    DEF Next, vars, Unchanged, Issue, Enrol, Expire, ProvisionFind, ProvisionMatch,
        ChangeAsk, ChangeLock, ChangeKeycloak, CreateRead, AdminRead, Fail
<1> QED BY <1>1, AccountsInvariant, PTL DEF Spec, OnlyAdminsReinstate
===============================================================================
