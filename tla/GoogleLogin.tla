------------------------------ MODULE GoogleLogin ------------------------------
(***************************************************************************)
(* Native Google sign-in: an ID token of Google names a Google account and   *)
(* its verified address.  The login finds or makes the Keycloak account of    *)
(* that address, gets tokens for it, authenticates with them as any request   *)
(* does (see Accounts), and links the Google account to the user it found.    *)
(* Nothing is locked from one of these steps to the next.                   *)
(*                                                                         *)
(* Left out: the profile, and the tokens of a login that is refused.          *)
(***************************************************************************)
CONSTANTS
  Accounts,    \* of Keycloak; each stands for the user it signs in, too
  Googles,     \* subjects of Google accounts
  Claims,      \* ID tokens in use: an address may change, or change hands
  Addresses,
  Logins,      \* web workers, as many as log in at a time
  Nobody, NoAddress

ASSUME GoogleAssumption ==
  /\ Nobody \notin Accounts /\ NoAddress \notin Addresses
  /\ Claims \subseteq [sub: Googles, email: Addresses]

VARIABLES
  address,  \* address[k]: of account k, NoAddress before there is one
  users,    \* the accounts whose user is in the database
  barred,   \* those whose user is banned or soft deleted
  linked,   \* linked[g]: the user of g's identity in user_auth_identities
  login     \* login[w]: the login worker w is serving

people == <<address, users, barred>>
googleVars == <<people, linked, login>>

NoLogin == [at |-> "none"]
LoginSteps == {"verified", "missing", "account", "signed_in", "link"}

LoginCall ==
  {NoLogin} \cup [at: LoginSteps, claim: Claims, retried: BOOLEAN,
                  account: Accounts \cup {Nobody}]

GoogleInit ==
  /\ address = [k \in Accounts |-> NoAddress]
  /\ users = {} /\ barred = {}
  /\ linked = [g \in Googles |-> Nobody]
  /\ login = [w \in Logins |-> NoLogin]

Reached(w, step) == login[w].at = step
Go(w, step) == login' = [login EXCEPT ![w].at = step]
GoWith(w, k) == login' = [login EXCEPT ![w].at = "account", ![w].account = k]
EndLogin(w) == login' = [login EXCEPT ![w] = NoLogin]
------------------------------------------------------------------------------
(* The ID token is Google's, for one of the backend's clients, not expired,  *)
(* and its address is verified.                                            *)
VerifyClaim(w, c) ==
  /\ login[w] = NoLogin
  /\ login' = [login EXCEPT ![w] =
       [at |-> "verified", claim |-> c, retried |-> FALSE,
        account |-> Nobody]]
  /\ UNCHANGED <<people, linked>>

WithAddress(e) == {k \in Accounts : address[k] = e}

(* get_or_create_keycloak_user searches for the address ...                 *)
FindAccount(w) ==
  LET found == WithAddress(login[w].claim.email) IN
  /\ Reached(w, "verified")
  /\ \/ \E k \in found: GoWith(w, k)
     \/ found = {} /\ Go(w, "missing")
  /\ UNCHANGED <<people, linked>>

(* ... and adds an account, unless another login has done so (409, see Quit).*)
AddAccount(w) ==
  LET e == login[w].claim.email IN
  /\ Reached(w, "missing")
  /\ WithAddress(e) = {}
  /\ \E k \in WithAddress(NoAddress):
       address' = [address EXCEPT ![k] = e] /\ GoWith(w, k)
  /\ UNCHANGED <<users, barred, linked>>

(* exchange_token_for_user and authenticate_token, which makes the account's *)
(* user at its first login and refuses one who may not sign in.             *)
Authenticate(w) ==
  LET k == login[w].account IN
  /\ Reached(w, "account")
  /\ k \notin barred
  /\ users' = users \cup {k}
  /\ Go(w, "signed_in")
  /\ UNCHANGED <<address, barred, linked>>

(* A token that is refused is exchanged for another one, once.              *)
RetryToken(w) ==
  /\ Reached(w, "account")
  /\ ~login[w].retried
  /\ login' = [login EXCEPT ![w].retried = TRUE]
  /\ UNCHANGED <<people, linked>>

BugMayLink(g, k) == TRUE              \* update_or_create without looking first
MayLink(g, k) == linked[g] \in {Nobody, k}

(* _link_google_identity looks at the identity (Quit when it is another      *)
(* user's) ...                                                             *)
LookAtLink(w) ==
  /\ Reached(w, "signed_in")
  /\ MayLink(login[w].claim.sub, login[w].account)
  /\ Go(w, "link")
  /\ UNCHANGED <<people, linked>>

(* ... and then makes it or sets its user (update_or_create, which after a    *)
(* refused INSERT updates the row that was in its way).                     *)
Link(w) ==
  /\ Reached(w, "link")
  /\ linked' = [linked EXCEPT ![login[w].claim.sub] = login[w].account]
  /\ EndLogin(w)
  /\ UNCHANGED people

(* Every error ends the login: what earlier steps made is left behind.       *)
Quit(w) ==
  /\ login[w] # NoLogin
  /\ EndLogin(w)
  /\ UNCHANGED <<people, linked>>

(* Meanwhile users change their address, and are banned and unbanned (see     *)
(* Accounts).                                                              *)
ChangeAddress(k, new) ==
  /\ k \in users \ barred /\ WithAddress(new) = {}
  /\ address' = [address EXCEPT ![k] = new]
  /\ UNCHANGED <<users, barred, linked, login>>

BarOrUnbar(k) ==
  /\ k \in users
  /\ barred' = IF k \in barred THEN barred \ {k} ELSE barred \cup {k}
  /\ UNCHANGED <<address, users, linked, login>>

GoogleNext ==
  \/ \E k \in Accounts, new \in Addresses: ChangeAddress(k, new)
  \/ \E k \in Accounts: BarOrUnbar(k)
  \/ \E w \in Logins:
       \/ \E c \in Claims: VerifyClaim(w, c)
       \/ FindAccount(w) \/ AddAccount(w)
       \/ Authenticate(w) \/ RetryToken(w)
       \/ LookAtLink(w) \/ Link(w)
       \/ Quit(w)

GoogleSpec == GoogleInit /\ [][GoogleNext]_googleVars
------------------------------------------------------------------------------
(* Rows and logins are well formed; a login that goes on has an account, and  *)
(* two accounts never share an address.                                     *)
GoogleTypeOK ==
  /\ address \in [Accounts -> Addresses \cup {NoAddress}]
  /\ barred \subseteq users /\ users \subseteq Accounts
  /\ linked \in [Googles -> users \cup {Nobody}]
  /\ login \in [Logins -> LoginCall]
  /\ \A w \in Logins: login[w].at \in {"account", "signed_in", "link"}
                      => login[w].account \in Accounts
  /\ \A j, k \in Accounts: address[j] \in Addresses \ {NoAddress}
                            /\ address[j] = address[k] => j = k

(* "Google identity is already linked to another user": two logins that race  *)
(* may take an identity from each other, but once none of those that have     *)
(* looked at it is about to give it to somebody else, no login ever moves it,  *)
(* whatever becomes of addresses, tokens and accounts.                      *)
Settled(g) ==
  /\ linked[g] # Nobody
  /\ \A w \in Logins:
       Reached(w, "link") /\ login[w].claim.sub = g
         => login[w].account = linked[g]

SettledIdentityStays ==
  [][\A g \in Googles:
       Settled(g) => linked'[g] = linked[g] /\ Settled(g)']_googleVars
===============================================================================
