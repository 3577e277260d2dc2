----------------------------- MODULE SignInProofs -----------------------------
(* Theorems about the three ways to sign in: whom a challenge, an               *)
(* authenticator or a Google account signs in, and when a one-time code is     *)
(* used up, for any number of requests at a time.                             *)
EXTENDS OneTimeCodes, Passkeys, GoogleLogin, FiniteSetTheorems, TLAPS

------------------------------------------------------------------------------
(* GoogleLogin                                                              *)

(* A login that goes on has a step, and an account once it has found one.    *)
InProgress == [at: LoginSteps, claim: Claims, retried: BOOLEAN,
               account: Accounts \cup {Nobody}]

LoginOK ==
  /\ login \in [Logins -> LoginCall]
  /\ linked \in [Googles -> Accounts \cup {Nobody}]
  /\ \A w \in Logins : login[w].at \in {"account", "signed_in", "link"}
                        => login[w].account \in Accounts

LEMMA LoginReached ==
  ASSUME LoginOK, NEW w \in Logins, login[w].at # "none"
  PROVE  /\ login[w] \in InProgress
         /\ login[w].at \in LoginSteps /\ login[w].claim \in Claims
         /\ login[w].claim.sub \in Googles
BY GoogleAssumption DEF GoogleAssumption, LoginOK, LoginCall, NoLogin, InProgress

LEMMA LoginTypes == GoogleSpec => []LoginOK
<1> USE GoogleAssumption DEF GoogleAssumption
<1>1. GoogleInit => LoginOK
  BY DEF GoogleInit, LoginOK, LoginCall, NoLogin
<1>2. LoginOK /\ [GoogleNext]_googleVars => LoginOK'
  <2> SUFFICES ASSUME LoginOK, [GoogleNext]_googleVars PROVE LoginOK'
    OBVIOUS
  <2> USE DEF people
  <2>1. CASE UNCHANGED <<linked, login>>
    BY <2>1 DEF LoginOK
  <2>2. ASSUME NEW w \in Logins, NEW new \in LoginCall,
               login' = [login EXCEPT ![w] = new], UNCHANGED linked,
               new.at \in {"account", "signed_in", "link"} => new.account \in Accounts
        PROVE  LoginOK'
    BY <2>2 DEF LoginOK
  <2>3. ASSUME NEW w \in Logins, NEW c \in Claims, VerifyClaim(w, c)
        PROVE  LoginOK'
    <3> DEFINE new == [at |-> "verified", claim |-> c, retried |-> FALSE,
                       account |-> Nobody]
    <3>1. new \in LoginCall BY DEF LoginCall, LoginSteps
    <3>2. login' = [login EXCEPT ![w] = new] /\ UNCHANGED linked
      BY <2>3 DEF VerifyClaim
    <3> QED BY <2>2, <3>1, <3>2
  <2>4. ASSUME NEW w \in Logins, NEW step \in LoginSteps,
               NEW k \in Accounts \cup {Nobody}, login[w].at # "none",
               step \in {"account", "signed_in", "link"} => k \in Accounts,
               login' = [login EXCEPT ![w].at = step, ![w].account = k],
               UNCHANGED linked
        PROVE  LoginOK'
    <3> DEFINE new == [login[w] EXCEPT !.at = step, !.account = k]
    <3>1. new \in LoginCall /\ new.at = step /\ new.account = k
      BY LoginReached, <2>4 DEF LoginCall, InProgress
    <3>2. login' = [login EXCEPT ![w] = new]
      BY <2>4 DEF LoginOK
    <3> HIDE DEF new
    <3> QED BY <2>2, <2>4, <3>1, <3>2
  <2>5. ASSUME NEW w \in Logins, NEW step \in LoginSteps, login[w].at # "none",
               step \in {"account", "signed_in", "link"}
                 => login[w].account \in Accounts,
               Go(w, step), UNCHANGED linked
        PROVE  LoginOK'
    <3> DEFINE new == [login[w] EXCEPT !.at = step]
    <3>1. new \in LoginCall /\ new.at = step /\ new.account = login[w].account
      BY LoginReached, <2>5 DEF LoginCall, InProgress
    <3>2. login' = [login EXCEPT ![w] = new]
      BY <2>5 DEF LoginOK, Go
    <3> HIDE DEF new
    <3> QED BY <2>2, <2>5, <3>1, <3>2
  <2>6. ASSUME NEW w \in Logins, FindAccount(w) \/ AddAccount(w) PROVE LoginOK'
    BY <2>4, <2>5, <2>6 DEF FindAccount, AddAccount, GoWith, WithAddress, Reached,
                            LoginSteps
  <2>7. ASSUME NEW w \in Logins, Authenticate(w) \/ LookAtLink(w) PROVE LoginOK'
    BY <2>5, <2>7 DEF Authenticate, LookAtLink, Reached, LoginSteps, LoginOK
  <2>8. ASSUME NEW w \in Logins, RetryToken(w) PROVE LoginOK'
    <3> DEFINE new == [login[w] EXCEPT !.retried = TRUE]
    <3>1. /\ new \in LoginCall /\ new.at = login[w].at
          /\ new.account = login[w].account
      BY LoginReached, <2>8 DEF LoginCall, InProgress, RetryToken, Reached
    <3>2. login' = [login EXCEPT ![w] = new] /\ UNCHANGED linked
      BY <2>8 DEF LoginOK, RetryToken
    <3> HIDE DEF new
    <3> QED BY <2>2, <3>1, <3>2 DEF LoginOK
  <2>9. ASSUME NEW w \in Logins, Link(w) \/ Quit(w) PROVE LoginOK'
    <3>1. NoLogin \in LoginCall /\ NoLogin.at = "none" BY DEF LoginCall, NoLogin
    <3>2. /\ login' = [login EXCEPT ![w] = NoLogin]
          /\ linked' \in [Googles -> Accounts \cup {Nobody}]
      BY <2>9, LoginReached DEF Link, Quit, EndLogin, Reached, LoginOK
    <3> QED BY <3>1, <3>2 DEF LoginOK
  <2> QED BY <2>1, <2>3, <2>6, <2>7, <2>8, <2>9
          DEF GoogleNext, ChangeAddress, BarOrUnbar, googleVars
<1> QED BY <1>1, <1>2, PTL DEF GoogleSpec

(* Once none of the logins that have looked at it would give a Google          *)
(* identity to somebody else, no later login moves it.                      *)
THEOREM IdentitiesSettle == GoogleSpec => SettledIdentityStays
<1>1. LoginOK /\ [GoogleNext]_googleVars
        => \A g \in Googles :
             Settled(g) => linked'[g] = linked[g] /\ Settled(g)'
  <2> SUFFICES ASSUME LoginOK, [GoogleNext]_googleVars, NEW g \in Googles, Settled(g)
               PROVE  linked'[g] = linked[g] /\ Settled(g)'
    OBVIOUS
  <2> USE DEF LoginOK, Settled, people
  <2>1. CASE UNCHANGED googleVars
    BY <2>1 DEF googleVars, Reached
  <2>2. ASSUME NEW w \in Logins, UNCHANGED linked,
               \A v \in Logins \ {w} : login'[v] = login[v],
               login'[w].at # "link"
        PROVE  linked'[g] = linked[g] /\ Settled(g)'
    BY <2>2 DEF Reached
  <2>3. ASSUME NEW w \in Logins, LookAtLink(w)
        PROVE  linked'[g] = linked[g] /\ Settled(g)'
    <3>1. /\ UNCHANGED linked /\ login' = [login EXCEPT ![w].at = "link"]
          /\ login[w].claim.sub = g => login[w].account = linked[g]
      BY <2>3 DEF LookAtLink, MayLink, Go
    <3> QED BY <3>1 DEF Reached
  <2>4. ASSUME NEW w \in Logins, Link(w)
        PROVE  linked'[g] = linked[g] /\ Settled(g)'
    <3>1. /\ login' = [login EXCEPT ![w] = NoLogin]
          /\ linked' = [linked EXCEPT ![login[w].claim.sub] = login[w].account]
          /\ login[w].claim.sub = g => login[w].account = linked[g]
      BY <2>4 DEF Link, EndLogin, Reached
    <3>2. linked'[g] = linked[g] BY <3>1
    <3> QED BY <3>1, <3>2 DEF Reached, NoLogin
  <2>5. ASSUME NEW w \in Logins,
               \/ \E c \in Claims : VerifyClaim(w, c)
               \/ FindAccount(w) \/ AddAccount(w) \/ Authenticate(w)
               \/ RetryToken(w) \/ Quit(w)
        PROVE  linked'[g] = linked[g] /\ Settled(g)'
    <3>1. /\ UNCHANGED linked /\ \A v \in Logins \ {w} : login'[v] = login[v]
      BY <2>5 DEF VerifyClaim, FindAccount, AddAccount, Authenticate, RetryToken,
                  Quit, Go, GoWith, EndLogin
    <3>2. login'[w].at # "link"
      <4>1. CASE Quit(w) \/ \E c \in Claims : VerifyClaim(w, c)
        BY <4>1 DEF VerifyClaim, Quit, EndLogin, NoLogin
      <4>2. CASE FindAccount(w) \/ AddAccount(w) \/ Authenticate(w)
        BY <4>2, LoginReached DEF FindAccount, AddAccount, Authenticate, Go, GoWith,
           Reached, InProgress
      <4>3. CASE RetryToken(w)
        BY <4>3, LoginReached DEF RetryToken, Reached, InProgress
      <4> QED BY <2>5, <4>1, <4>2, <4>3
    <3> QED BY <2>2, <3>1, <3>2
  <2>6. ASSUME UNCHANGED <<linked, login>>
        PROVE  linked'[g] = linked[g] /\ Settled(g)'
    BY <2>6 DEF Reached
  <2> QED BY <2>1, <2>3, <2>4, <2>5, <2>6 DEF GoogleNext, ChangeAddress, BarOrUnbar
<1> QED BY <1>1, LoginTypes, PTL DEF GoogleSpec, SettledIdentityStays
------------------------------------------------------------------------------
(* Passkeys                                                                 *)

PasskeyTypes ==
  /\ challenge \in [Challenges -> Challenge \cup {NoChallenge}]
  /\ credential \in Credential \cup {NoCredential}
  /\ counts \in BOOLEAN /\ signatures \in Nat
  /\ response \in [Challenges -> Nat \cup {Unsigned}]
  /\ verifying \in [Verifiers -> Verifications]
  /\ tokens \in [Challenges -> Nat] /\ signedIn \in [Challenges -> Nat]

(* No challenge, and not the credential, is locked by two transactions.      *)
PasskeyLocks ==
  \A v, w \in Verifiers :
    v # w /\ verifying[v] # NoVerification /\ verifying[w] # NoVerification
      => /\ verifying[v].of # verifying[w].of
         /\ ~ /\ verifying[v].at \in {"credential", "tokens"}
              /\ verifying[w].at \in {"credential", "tokens"}

(* What a verification has tested under its locks still holds.               *)
VerificationsStillRight ==
  \A w \in Verifiers : verifying[w] # NoVerification =>
    LET c == verifying[w].of IN
    /\ challenge[c] \in Challenge /\ ~challenge[c].used
    /\ response[c] # Unsigned
    /\ verifying[w].at \in {"credential", "tokens"} =>
         /\ credential \in Credential /\ ~credential.revoked
         /\ CounterGrows(response[c], credential.sign_count)
    /\ verifying[w].at = "tokens" => tokens[c] > 0

(* A challenge was answered by no login, or by one that used it.             *)
Answered ==
  \A c \in Challenges :
    \/ signedIn[c] = 0
    \/ /\ signedIn[c] = 1 /\ tokens[c] > 0
       /\ challenge[c] \in Challenge /\ challenge[c].used

(* An authenticator that counts never answers with zero.                     *)
Counted == counts => \A c \in Challenges : response[c] # 0

PasskeyInv ==
  /\ PasskeyTypes /\ PasskeyLocks /\ VerificationsStillRight
  /\ Answered /\ Counted

LEMMA PasskeyFacts ==
  /\ NoCredential \notin Credential /\ NoChallenge \notin Challenge
  /\ \A v \in Verifications :
       /\ v # NoVerification => v.of \in Challenges
       /\ v # NoVerification <=> v.at # "none"
       /\ v # NoVerification => v = [at |-> v.at, of |-> v.of]
BY DEF NoCredential, Credential, NoChallenge, Challenge, Verifications,
   NoVerification

LEMMA PasskeyInitInv == PasskeyInit => PasskeyInv
BY DEF PasskeyInit, PasskeyInv, PasskeyTypes, PasskeyLocks, Answered, Counted,
   VerificationsStillRight, Verifications, NoVerification, Unsigned

(* A challenge is created, answered and expires.                            *)
LEMMA ChallengeKeepsInv ==
  ASSUME PasskeyInv, NEW c \in Challenges
  PROVE  /\ \A ceremony \in Ceremony : BeginCeremony(c, ceremony) => PasskeyInv'
         /\ Sign(c) \/ Expire(c) => PasskeyInv'
<1> USE PasskeyFacts DEF PasskeyInv, device
<1>1. ASSUME NEW ceremony \in Ceremony, BeginCeremony(c, ceremony)
      PROVE  PasskeyInv'
  <2> DEFINE new == [ceremony |-> ceremony, used |-> FALSE, expired |-> FALSE]
  <2>1. new \in Challenge BY DEF Challenge
  <2>2. /\ challenge[c] = NoChallenge /\ challenge' = [challenge EXCEPT ![c] = new]
        /\ UNCHANGED <<credential, counts, signatures, response, verifying,
                       tokens, signedIn>>
    BY <1>1 DEF BeginCeremony
  <2> HIDE DEF new
  <2>3. PasskeyTypes' BY <2>1, <2>2 DEF PasskeyTypes
  <2>4. PasskeyLocks' BY <2>2 DEF PasskeyLocks
  <2>5. VerificationsStillRight'
    BY <2>1, <2>2 DEF VerificationsStillRight, PasskeyTypes, CounterGrows
  <2>6. Answered' /\ Counted' BY <2>1, <2>2 DEF Answered, Counted, PasskeyTypes
  <2> QED BY <2>3, <2>4, <2>5, <2>6
<1>2. ASSUME Sign(c)
      PROVE  PasskeyInv'
  <2>1. /\ response[c] = Unsigned /\ signatures' \in Nat
        /\ response' = [response EXCEPT ![c] = signatures']
        /\ counts => signatures' # 0
        /\ UNCHANGED <<challenge, credential, counts, verifying, tokens, signedIn>>
    BY <1>2 DEF Sign, PasskeyTypes
  <2>2. PasskeyTypes' BY <2>1 DEF PasskeyTypes
  <2>3. PasskeyLocks' BY <2>1 DEF PasskeyLocks
  <2>4. VerificationsStillRight'
    BY <2>1 DEF VerificationsStillRight, PasskeyTypes, CounterGrows
  <2>5. Answered' /\ Counted' BY <2>1 DEF Answered, Counted, PasskeyTypes
  <2> QED BY <2>2, <2>3, <2>4, <2>5
<1>3. ASSUME Expire(c)
      PROVE  PasskeyInv'
  <2> DEFINE new == [challenge[c] EXCEPT !.expired = TRUE]
  <2>1. challenge[c] \in Challenge BY <1>3 DEF Expire, PasskeyTypes
  <2>2. new \in Challenge /\ new.used = challenge[c].used
    BY <2>1 DEF Challenge
  <2>3. /\ challenge' = [challenge EXCEPT ![c] = new]
        /\ UNCHANGED <<credential, counts, signatures, response, verifying,
                       tokens, signedIn>>
    BY <1>3 DEF Expire, PasskeyTypes
  <2> HIDE DEF new
  <2>4. PasskeyTypes' BY <2>2, <2>3 DEF PasskeyTypes
  <2>5. PasskeyLocks' BY <2>3 DEF PasskeyLocks
  <2>6. VerificationsStillRight'
    BY <2>2, <2>3 DEF VerificationsStillRight, PasskeyTypes, CounterGrows
  <2>7. Answered' /\ Counted' BY <2>2, <2>3 DEF Answered, Counted, PasskeyTypes
  <2> QED BY <2>4, <2>5, <2>6, <2>7
<1> QED BY <1>1, <1>2, <1>3

(* The steps that take a lock, or end a transaction with nothing written.    *)
LEMMA LocksKeepInv ==
  ASSUME PasskeyInv, NEW w \in Verifiers
  PROVE  /\ \A c \in Challenges : LockChallenge(w, c) => PasskeyInv'
         /\ LockCredential(w) \/ IssueTokens(w) \/ Fail(w) => PasskeyInv'
<1> USE PasskeyFacts DEF PasskeyInv, device
<1>1. ASSUME NEW c \in Challenges, LockChallenge(w, c)
      PROVE  PasskeyInv'
  <2> DEFINE new == [at |-> "challenge", of |-> c]
  <2>1. /\ new \in Verifications /\ new # NoVerification
        /\ new.of = c /\ new.at = "challenge"
    BY DEF Verifications, NoVerification
  <2>2. /\ verifying' = [verifying EXCEPT ![w] = new]
        /\ UNCHANGED <<challenge, credential, counts, signatures, response,
                       tokens, signedIn>>
        /\ challenge[c] \in Challenge /\ ~challenge[c].used
        /\ response[c] # Unsigned
        /\ \A v \in Verifiers : verifying[v] # NoVerification => verifying[v].of # c
    BY <1>1 DEF LockChallenge, PasskeyTypes, ChallengeFree, Usable
  <2> HIDE DEF new
  <2>3. PasskeyTypes' BY <2>1, <2>2 DEF PasskeyTypes
  <2>4. PasskeyLocks' BY <2>1, <2>2 DEF PasskeyLocks, PasskeyTypes
  <2>5. VerificationsStillRight'
    BY <2>1, <2>2 DEF VerificationsStillRight, PasskeyTypes, CounterGrows
  <2>6. Answered' /\ Counted' BY <2>2 DEF Answered, Counted
  <2> QED BY <2>3, <2>4, <2>5, <2>6
<1>2. ASSUME LockCredential(w)
      PROVE  PasskeyInv'
  <2> DEFINE c == verifying[w].of
             new == [verifying[w] EXCEPT !.at = "credential"]
  <2>1. /\ verifying[w].at = "challenge" /\ verifying[w] # NoVerification
        /\ c \in Challenges /\ verifying[w] \in Verifications
    BY <1>2 DEF LockCredential, Is, PasskeyTypes
  <2>2. /\ new \in Verifications /\ new # NoVerification
        /\ new.of = c /\ new.at = "credential"
    BY <2>1 DEF Verifications, NoVerification
  <2>3. /\ verifying' = [verifying EXCEPT ![w] = new]
        /\ UNCHANGED <<challenge, credential, counts, signatures, response,
                       tokens, signedIn>>
        /\ \A v \in Verifiers: verifying[v].at \notin {"credential", "tokens"}
        /\ credential \in Credential /\ ~credential.revoked
        /\ CounterGrows(response[c], credential.sign_count)
    BY <1>2 DEF LockCredential, At, CredentialFree, Active, Registered, PasskeyTypes
  <2> HIDE DEF new, c
  <2>4. PasskeyTypes' BY <2>2, <2>3 DEF PasskeyTypes
  <2>5. PasskeyLocks' BY <2>1, <2>2, <2>3 DEF PasskeyLocks, PasskeyTypes, c
  <2>6. VerificationsStillRight'
    BY <2>1, <2>2, <2>3 DEF VerificationsStillRight, PasskeyTypes, CounterGrows, c
  <2>7. Answered' /\ Counted' BY <2>3 DEF Answered, Counted
  <2> QED BY <2>4, <2>5, <2>6, <2>7
<1>3. ASSUME IssueTokens(w)
      PROVE  PasskeyInv'
  <2> DEFINE c == verifying[w].of
             new == [verifying[w] EXCEPT !.at = "tokens"]
  <2>1. /\ verifying[w].at = "credential" /\ verifying[w] # NoVerification
        /\ c \in Challenges /\ verifying[w] \in Verifications
    BY <1>3 DEF IssueTokens, PasskeyTypes
  <2>2. /\ new \in Verifications /\ new # NoVerification
        /\ new.of = c /\ new.at = "tokens"
    BY <2>1 DEF Verifications, NoVerification
  <2>3. /\ verifying' = [verifying EXCEPT ![w] = new]
        /\ tokens' = [tokens EXCEPT ![c] = @ + 1]
        /\ UNCHANGED <<challenge, credential, counts, signatures, response, signedIn>>
    BY <1>3 DEF IssueTokens, At, PasskeyTypes
  <2> HIDE DEF new, c
  <2>4. PasskeyTypes' BY <2>1, <2>2, <2>3 DEF PasskeyTypes
  <2>5. PasskeyLocks' BY <2>1, <2>2, <2>3 DEF PasskeyLocks, PasskeyTypes, c
  <2>6. VerificationsStillRight'
    BY <2>1, <2>2, <2>3 DEF VerificationsStillRight, PasskeyTypes, CounterGrows, c
  <2>7. Answered' /\ Counted' BY <2>1, <2>3 DEF Answered, Counted, PasskeyTypes
  <2> QED BY <2>4, <2>5, <2>6, <2>7
<1>4. ASSUME Fail(w)
      PROVE  PasskeyInv'
  <2>1. NoVerification \in Verifications BY DEF Verifications
  <2>2. /\ verifying' = [verifying EXCEPT ![w] = NoVerification]
        /\ UNCHANGED <<challenge, credential, counts, signatures, response,
                       tokens, signedIn>>
    BY <1>4 DEF Fail, EndVerification
  <2>3. PasskeyTypes' /\ PasskeyLocks' /\ Answered' /\ Counted'
    BY <2>1, <2>2 DEF PasskeyTypes, PasskeyLocks, Answered, Counted
  <2>4. VerificationsStillRight'
    BY <2>2 DEF VerificationsStillRight, PasskeyTypes, CounterGrows
  <2> QED BY <2>3, <2>4
<1> QED BY <1>1, <1>2, <1>3, <1>4

(* The steps that write: a registration, a login and a revocation.           *)
LEMMA WritesKeepInv ==
  ASSUME PasskeyInv
  PROVE  /\ \A w \in Verifiers : RegisterCommit(w) \/ LoginCommit(w) => PasskeyInv'
         /\ Revoke \/ RevokeByAdmin => PasskeyInv'
<1> USE PasskeyFacts DEF PasskeyInv, device
<1>1. NoVerification \in Verifications BY DEF Verifications
<1>2. ASSUME NEW w \in Verifiers, verifying[w] # NoVerification
      PROVE  /\ verifying[w].of \in Challenges
             /\ [challenge[verifying[w].of] EXCEPT !.used = TRUE] \in Challenge
             /\ [challenge[verifying[w].of] EXCEPT !.used = TRUE].used
             /\ response[verifying[w].of] \in Nat
             /\ signedIn[verifying[w].of] = 0
  <2>1. verifying[w].of \in Challenges BY <1>2 DEF PasskeyTypes
  <2>2. challenge[verifying[w].of] \in Challenge /\ ~challenge[verifying[w].of].used
    BY <1>2 DEF VerificationsStillRight
  <2>3. response[verifying[w].of] \in Nat
    BY <1>2, <2>1 DEF VerificationsStillRight, PasskeyTypes
  <2> QED BY <2>1, <2>2, <2>3 DEF Challenge, Answered
<1>3. ASSUME NEW w \in Verifiers, RegisterCommit(w)
      PROVE  PasskeyInv'
  <2> DEFINE c == verifying[w].of
             new == [challenge[c] EXCEPT !.used = TRUE]
             key == [sign_count |-> response[c], revoked |-> FALSE]
  <2>1. verifying[w] # NoVerification BY <1>3 DEF RegisterCommit, Is, NoVerification
  <2>2. /\ c \in Challenges /\ new \in Challenge /\ new.used
        /\ response[c] \in Nat /\ signedIn[c] = 0
    BY <1>2, <2>1
  <2>3. key \in Credential BY <2>2 DEF Credential
  <2>4. /\ challenge' = [challenge EXCEPT ![c] = new]
        /\ credential = NoCredential /\ credential' = key
        /\ verifying' = [verifying EXCEPT ![w] = NoVerification]
        /\ UNCHANGED <<counts, signatures, response, tokens, signedIn>>
    BY <1>3 DEF RegisterCommit, Registrable, Registered, EndVerification, PasskeyTypes
  <2> HIDE DEF new, key
  <2>5. PasskeyTypes' BY <1>1, <2>2, <2>3, <2>4 DEF PasskeyTypes
  <2>6. PasskeyLocks' BY <2>4 DEF PasskeyLocks, PasskeyTypes
  <2>7. ASSUME NEW v \in Verifiers, verifying'[v] # NoVerification
        PROVE  /\ v # w /\ verifying'[v] = verifying[v] /\ verifying[v].of # c
               /\ verifying[v].at \notin {"credential", "tokens"}
               /\ challenge'[verifying[v].of] = challenge[verifying[v].of]
    BY <2>1, <2>2, <2>4, <2>7 DEF PasskeyTypes, PasskeyLocks, VerificationsStillRight
  <2>8. VerificationsStillRight'
    BY <2>4, <2>7 DEF VerificationsStillRight
  <2>9. Answered' /\ Counted' BY <2>2, <2>4 DEF Answered, Counted, PasskeyTypes
  <2> QED BY <2>5, <2>6, <2>8, <2>9
<1>4. ASSUME NEW w \in Verifiers, LoginCommit(w)
      PROVE  PasskeyInv'
  <2> DEFINE c == verifying[w].of
             new == [challenge[c] EXCEPT !.used = TRUE]
             key == [credential EXCEPT !.sign_count = response[c]]
  <2>1. verifying[w] # NoVerification BY <1>4 DEF LoginCommit, NoVerification
  <2>2. /\ c \in Challenges /\ new \in Challenge /\ new.used
        /\ response[c] \in Nat /\ signedIn[c] = 0
    BY <1>2, <2>1
  <2>3. /\ credential \in Credential /\ tokens[c] > 0
    BY <1>4, <2>1 DEF LoginCommit, VerificationsStillRight
  <2>4. key \in Credential BY <2>2, <2>3 DEF Credential
  <2>5. /\ challenge' = [challenge EXCEPT ![c] = new]
        /\ credential' = key
        /\ signedIn' = [signedIn EXCEPT ![c] = 1]
        /\ verifying' = [verifying EXCEPT ![w] = NoVerification]
        /\ UNCHANGED <<counts, signatures, response, tokens>>
    BY <1>4, <2>2 DEF LoginCommit, Used, EndVerification, PasskeyTypes
  <2> HIDE DEF new, key
  <2>6. PasskeyTypes' BY <1>1, <2>2, <2>4, <2>5 DEF PasskeyTypes
  <2>7. PasskeyLocks' BY <2>5 DEF PasskeyLocks, PasskeyTypes
  <2>8. ASSUME NEW v \in Verifiers, verifying'[v] # NoVerification
        PROVE  /\ v # w /\ verifying'[v] = verifying[v] /\ verifying[v].of # c
               /\ verifying[v].at \notin {"credential", "tokens"}
               /\ challenge'[verifying[v].of] = challenge[verifying[v].of]
    BY <1>4, <2>1, <2>2, <2>5, <2>8 DEF LoginCommit, PasskeyTypes, PasskeyLocks
  <2>9. VerificationsStillRight'
    BY <2>5, <2>8 DEF VerificationsStillRight
  <2>10. Answered' /\ Counted' BY <2>2, <2>3, <2>5 DEF Answered, Counted, PasskeyTypes
  <2> QED BY <2>6, <2>7, <2>9, <2>10
<1>5. ASSUME Revoke \/ RevokeByAdmin
      PROVE  PasskeyInv'
  <2>1. /\ credential \in Credential
        /\ credential' = [credential EXCEPT !.revoked = TRUE]
        /\ \A w \in Verifiers: verifying[w].at \notin {"credential", "tokens"}
        /\ UNCHANGED <<challenge, counts, signatures, response, verifying,
                       tokens, signedIn>>
    BY <1>5 DEF Revoke, RevokeByAdmin, Active, Registered, CredentialFree, PasskeyTypes
  <2>2. credential' \in Credential BY <2>1 DEF Credential
  <2>3. PasskeyTypes' /\ PasskeyLocks' /\ Answered' /\ Counted'
    BY <2>1, <2>2 DEF PasskeyTypes, PasskeyLocks, Answered, Counted
  <2>4. VerificationsStillRight'
    BY <2>1 DEF VerificationsStillRight
  <2> QED BY <2>3, <2>4
<1> QED BY <1>3, <1>4, <1>5

LEMMA PasskeyStepInv == PasskeyInv /\ [PasskeyNext]_passkeyVars => PasskeyInv'
<1> SUFFICES ASSUME PasskeyInv, [PasskeyNext]_passkeyVars PROVE PasskeyInv'
  OBVIOUS
<1>1. CASE UNCHANGED passkeyVars
  BY <1>1 DEF passkeyVars, device, PasskeyInv, PasskeyTypes, PasskeyLocks,
     VerificationsStillRight, Answered, Counted, CounterGrows
<1>2. CASE PasskeyNext
  BY <1>2, ChallengeKeepsInv, LocksKeepInv, WritesKeepInv DEF PasskeyNext
<1> QED BY <1>1, <1>2

LEMMA PasskeyInvariance == PasskeySpec => []PasskeyInv
<1> QED BY PasskeyInitInv, PasskeyStepInv, PTL DEF PasskeySpec

(* A challenge is answered by one login at most, whatever is tried again.    *)
THEOREM ChallengesAnsweredOnce == PasskeySpec => []OneLoginPerChallenge
<1>1. PasskeyInv => OneLoginPerChallenge
  BY DEF PasskeyInv, PasskeyTypes, Answered, OneLoginPerChallenge
<1> QED BY <1>1, PasskeyInvariance, PTL

(* Who writes the credential, and what was true of it.                       *)
LEMMA CredentialSteps ==
  ASSUME PasskeyInv, [PasskeyNext]_passkeyVars
  PROVE  \/ UNCHANGED <<credential, signedIn>>
         \/ credential = NoCredential /\ UNCHANGED signedIn
         \/ /\ credential \in Credential /\ UNCHANGED signedIn
            /\ credential' = [credential EXCEPT !.revoked = TRUE]
         \/ /\ credential \in Credential /\ ~credential.revoked
            /\ \E c \in Challenges :
                 /\ response[c] \in Nat
                 /\ CounterGrows(response[c], credential.sign_count)
                 /\ credential' = [credential EXCEPT !.sign_count = response[c]]
<1> USE PasskeyFacts DEF PasskeyInv, device
<1>1. ASSUME NEW w \in Verifiers, LoginCommit(w)
      PROVE  /\ credential \in Credential /\ ~credential.revoked
             /\ \E c \in Challenges :
                  /\ response[c] \in Nat
                  /\ CounterGrows(response[c], credential.sign_count)
                  /\ credential' = [credential EXCEPT !.sign_count = response[c]]
  <2> DEFINE c == verifying[w].of
  <2>1. verifying[w].at = "tokens" /\ verifying[w] # NoVerification
    BY <1>1 DEF LoginCommit, NoVerification
  <2>2. /\ credential \in Credential /\ ~credential.revoked
        /\ CounterGrows(response[c], credential.sign_count)
        /\ c \in Challenges /\ response[c] \in Nat
    BY <2>1 DEF VerificationsStillRight, PasskeyTypes
  <2>3. credential' = [credential EXCEPT !.sign_count = response[c]]
    BY <1>1 DEF LoginCommit
  <2> QED BY <2>2, <2>3
<1>2. ASSUME NEW w \in Verifiers, RegisterCommit(w)
      PROVE  credential = NoCredential /\ UNCHANGED signedIn
  BY <1>2 DEF RegisterCommit, Registrable, Registered
<1>3. ASSUME Revoke \/ RevokeByAdmin
      PROVE  /\ credential \in Credential /\ UNCHANGED signedIn
             /\ credential' = [credential EXCEPT !.revoked = TRUE]
  BY <1>3 DEF Revoke, RevokeByAdmin, Active, Registered, PasskeyTypes
<1> QED BY <1>1, <1>2, <1>3 DEF PasskeyNext, passkeyVars, BeginCeremony, Sign, Expire,
           LockChallenge, LockCredential, IssueTokens, Fail

(* A passkey that was revoked signs nobody in and never comes back.          *)
THEOREM RevocationsHold == PasskeySpec => RevokedSignsNobodyIn
<1>1. PasskeyInv /\ [PasskeyNext]_passkeyVars
        => /\ signedIn' # signedIn => Active
           /\ Registered /\ credential.revoked => credential'.revoked
  BY CredentialSteps, PasskeyFacts DEF Active, Registered, Credential
<1> QED BY <1>1, PasskeyInvariance, PTL DEF PasskeySpec, RevokedSignsNobodyIn

(* A counter never goes back, and one that is kept grows with every login.    *)
THEOREM CountersGrow == PasskeySpec => CounterNeverBack
<1>1. PasskeyInv /\ [PasskeyNext]_passkeyVars
        => (Registered => /\ credential'.sign_count >= credential.sign_count
                          /\ signedIn' # signedIn /\ counts =>
                               credential'.sign_count > credential.sign_count)
  <2> SUFFICES ASSUME PasskeyInv, [PasskeyNext]_passkeyVars, Registered
               PROVE  /\ credential'.sign_count >= credential.sign_count
                      /\ signedIn' # signedIn /\ counts =>
                           credential'.sign_count > credential.sign_count
    OBVIOUS
  <2>1. credential \in Credential /\ credential.sign_count \in Nat
    BY PasskeyFacts DEF Registered, PasskeyInv, PasskeyTypes, Credential
  <2>2. counts => \A c \in Challenges : response[c] # 0
    BY DEF PasskeyInv, Counted
  <2> QED BY <2>1, <2>2, CredentialSteps DEF Registered, CounterGrows, Credential
<1> QED BY <1>1, PasskeyInvariance, PTL DEF PasskeySpec, CounterNeverBack

------------------------------------------------------------------------------
(* OneTimeCodes.  A code is on its way to the cache only once: a request that *)
(* has just drawn one holds a number that nobody has stored, read or spent.   *)
(* From the moment a request deletes the code it used, the cache holds        *)
(* another one.                                                              *)

Sends == [at: {"drawn", "code_set", "attempts_set"}, code: Codes]
Enters == [at: {"read", "accepted", "logged_in", "code_gone", "attempts_gone"},
           entry: Codes \cup {WrongCode}, stored: Codes]

KeysOK == /\ code.value # 0 => code.value <= drawn
          /\ code.value = 0 => code.until = 0
          /\ \A c \in spent: c <= drawn
          /\ \A w \in Workers: /\ call[w] \in Sends => call[w].code <= drawn
                               /\ call[w] \in Enters => call[w].stored <= drawn

FreshOnce ==
  \A w \in Workers: call[w].at = "drawn" =>
    /\ code.value # call[w].code /\ call[w].code \notin spent
    /\ \A v \in Workers \ {w}: call[v].at = "drawn" => call[v].code # call[w].code
    /\ \A v \in Workers: call[v] \in Enters => call[v].stored # call[w].code

UsedUp ==
  \A w \in Workers: call[w].at \in {"code_gone", "attempts_gone"}
                      => code.value # call[w].stored

CodeInv == TypeOK /\ KeysOK /\ FreshOnce /\ UsedUp /\ SpentCodeGone
------------------------------------------------------------------------------
LEMMA CallForms ==
  /\ \A x \in Call: /\ x.at \in {"drawn", "code_set", "attempts_set"} <=> x \in Sends
                    /\ x.at \in {"read", "accepted", "logged_in", "code_gone",
                                 "attempts_gone"} <=> x \in Enters
  /\ Idle \in Call /\ Idle \notin Sends /\ Idle \notin Enters /\ Idle.at = "idle"
  /\ Sends \subseteq Call /\ Enters \subseteq Call /\ Sends \cap Enters = {}
BY DEF Call, Sends, Enters, Idle

LEMMA AdvancedSends ==
  ASSUME NEW x \in Sends, NEW s \in {"drawn", "code_set", "attempts_set"}
  PROVE  /\ [x EXCEPT !.at = s] \in Sends
         /\ [x EXCEPT !.at = s].at = s /\ [x EXCEPT !.at = s].code = x.code
BY DEF Sends

LEMMA AdvancedEnters ==
  ASSUME NEW x \in Enters,
         NEW s \in {"read", "accepted", "logged_in", "code_gone", "attempts_gone"}
  PROVE  /\ [x EXCEPT !.at = s] \in Enters
         /\ [x EXCEPT !.at = s].at = s /\ [x EXCEPT !.at = s].stored = x.stored
BY DEF Enters

LEMMA Numbers ==
  /\ MaxCodes \in Nat /\ MaxAttempts \in Nat /\ MaxAttempts > 0 /\ MaxTime \in Nat
  /\ CodeTTL \in Nat /\ CodeTTL > 0 /\ CoolDown \in Nat /\ Codes \subseteq Nat
  /\ 0 \notin Codes /\ WrongCode = 0
BY CodesAssumption DEF CodesAssumption, Codes, WrongCode

(* A request that goes on in its call, or starts or ends it, while the code   *)
(* that the cache holds, what was drawn and what is spent stay as they are.   *)
LEMMA RequestGoesOn ==
  ASSUME CodeInv, NEW w \in Workers, NEW x \in Call, call' = [call EXCEPT ![w] = x],
         UNCHANGED <<code, drawn, spent>>,
         x.at # "drawn",
         x \in Sends => call[w] \in Sends /\ x.code = call[w].code,
         x \in Enters => \/ call[w] \in Enters /\ x.stored = call[w].stored
                         \/ x.stored = code.value,
         x.at \in {"code_gone", "attempts_gone"} => code.value # x.stored
  PROVE  KeysOK' /\ FreshOnce' /\ UsedUp' /\ SpentCodeGone' /\ call' \in [Workers -> Call]
<1> USE DEF CodeInv
<1>1. call' \in [Workers -> Call] BY DEF TypeOK
<1>2. call'[w] = x /\ \A v \in Workers \ {w}: call'[v] = call[v] BY DEF TypeOK
<1>3. x \in Enters => x.stored # 0 BY Numbers DEF Enters
<1>4. KeysOK' BY <1>2, <1>3 DEF KeysOK
<1>5. FreshOnce' BY <1>2 DEF FreshOnce
<1>6. UsedUp' BY <1>2 DEF UsedUp
<1>7. SpentCodeGone' BY DEF SpentCodeGone
<1> QED BY <1>1, <1>4, <1>5, <1>6, <1>7

LEMMA SendKeepsInv ==
  ASSUME CodeInv, NEW w \in Workers,
         SendCheck(w) \/ SendCode(w) \/ SendAttempts(w) \/ SendCoolDown(w)
  PROVE  CodeInv'
<1> USE Numbers DEF keys, history
<1>1. CASE SendCheck(w)
  <2> DEFINE x == [at |-> "drawn", code |-> drawn + 1]
  <2>1. /\ drawn \in Nat /\ drawn < MaxCodes /\ drawn' = drawn + 1
        /\ call' = [call EXCEPT ![w] = x]
        /\ UNCHANGED <<now, code, attempts, cooldown, mailbox, logins, spent, wrong>>
    BY <1>1 DEF SendCheck, CodeInv, TypeOK
  <2>2. x \in Sends /\ x \in Call /\ x \notin Enters /\ x.at = "drawn" /\ x.code = drawn + 1
    BY <2>1, CallForms DEF Sends, Codes, Enters
  <2> HIDE DEF x
  <2>3. call' \in [Workers -> Call] /\ call'[w] = x
        /\ \A v \in Workers \ {w}: call'[v] = call[v]
    BY <2>1, <2>2 DEF CodeInv, TypeOK
  <2>4. TypeOK' BY <2>1, <2>3 DEF CodeInv, TypeOK
  <2>5. \A v \in Workers: /\ call[v] \in Sends => call[v].code \in Nat
                          /\ call[v] \in Enters => call[v].stored \in Nat
    BY DEF Sends, Enters
  <2>6. code.value \in Nat /\ spent \subseteq Nat
    <3>1. code.value \in Codes \cup {0} /\ spent \subseteq Codes BY DEF CodeInv, TypeOK
    <3> QED BY <3>1 DEF Codes
  <2>7. KeysOK' BY <2>1, <2>2, <2>3, <2>5, <2>6 DEF CodeInv, KeysOK
  <2>8. FreshOnce'
    <3>1. code.value # drawn + 1 /\ drawn + 1 \notin spent
      BY <2>1, <2>6 DEF CodeInv, KeysOK
    <3>2. \A v \in Workers: /\ call[v].at = "drawn" => call[v].code # drawn + 1
                            /\ call[v] \in Enters => call[v].stored # drawn + 1
      BY <2>1, <2>5, CallForms DEF CodeInv, KeysOK, TypeOK
    <3> QED BY <2>1, <2>2, <2>3, <3>1, <3>2 DEF CodeInv, FreshOnce
  <2>9. UsedUp' /\ SpentCodeGone'
    BY <2>1, <2>2, <2>3 DEF CodeInv, UsedUp, SpentCodeGone
  <2> QED BY <2>4, <2>7, <2>8, <2>9 DEF CodeInv
<1>2. CASE SendCode(w)
  <2> DEFINE x == [call[w] EXCEPT !.at = "code_set"]
             c == call[w].code
  <2>1. call[w] \in Sends /\ call[w].at = "drawn" /\ c \in Codes
    BY <1>2, CallForms DEF SendCode, CodeInv, TypeOK, Sends
  <2>2. /\ code' = [value |-> c, until |-> now + CodeTTL]
        /\ call' = [call EXCEPT ![w] = x]
        /\ UNCHANGED <<now, attempts, cooldown, drawn, mailbox, logins, spent, wrong>>
    BY <1>2 DEF SendCode, Key, Advance, CodeInv, TypeOK
  <2>3. x \in Sends /\ x \in Call /\ x \notin Enters /\ x.at = "code_set" /\ x.code = c
    BY <2>1, AdvancedSends, CallForms
  <2>4. /\ code'.value = c /\ c # 0 /\ now + CodeTTL \in Nat
        /\ code' \in [value: Codes \cup {0}, until: Nat]
    BY <2>1, <2>2 DEF CodeInv, TypeOK
  <2> HIDE DEF x
  <2>5. call' \in [Workers -> Call] /\ call'[w] = x
        /\ \A v \in Workers \ {w}: call'[v] = call[v]
    BY <2>2, <2>3 DEF CodeInv, TypeOK
  <2>6. TypeOK' BY <2>2, <2>4, <2>5 DEF CodeInv, TypeOK
  <2>7. KeysOK' BY <2>1, <2>2, <2>3, <2>4, <2>5 DEF CodeInv, KeysOK
  <2>8. FreshOnce' BY <2>1, <2>2, <2>3, <2>4, <2>5 DEF CodeInv, FreshOnce
  <2>9. UsedUp'
    <3>1. \A v \in Workers: call[v] \in Enters => call[v].stored # c
      BY <2>1 DEF CodeInv, FreshOnce
    <3>2. \A v \in Workers: call[v].at \in {"code_gone", "attempts_gone"}
                              => call[v] \in Enters
      BY CallForms DEF CodeInv, TypeOK
    <3> QED BY <2>3, <2>4, <2>5, <3>1, <3>2 DEF UsedUp
  <2>10. SpentCodeGone' BY <2>1, <2>2, <2>4 DEF CodeInv, FreshOnce, SpentCodeGone
  <2> QED BY <2>6, <2>7, <2>8, <2>9, <2>10 DEF CodeInv
<1>3. CASE SendAttempts(w)
  <2> DEFINE x == [call[w] EXCEPT !.at = "attempts_set"]
  <2>1. call[w] \in Sends
    BY <1>3, CallForms DEF SendAttempts, CodeInv, TypeOK
  <2>2. /\ attempts' = [value |-> 0, until |-> now + CodeTTL] /\ wrong' = 0
        /\ call' = [call EXCEPT ![w] = x]
        /\ UNCHANGED <<now, code, cooldown, drawn, mailbox, logins, spent>>
    BY <1>3 DEF SendAttempts, Key, Advance, CodeInv, TypeOK
  <2>3. x \in Sends /\ x \in Call /\ x \notin Enters /\ x.at = "attempts_set"
        /\ x.code = call[w].code
    BY <2>1, AdvancedSends, CallForms
  <2> HIDE DEF x
  <2>4. KeysOK' /\ FreshOnce' /\ UsedUp' /\ SpentCodeGone' /\ call' \in [Workers -> Call]
    BY <2>1, <2>2, <2>3, RequestGoesOn
  <2>5. attempts' \in [value: 0..MaxAttempts, until: Nat]
    BY <2>2 DEF CodeInv, TypeOK
  <2>6. TypeOK' BY <2>2, <2>4, <2>5 DEF CodeInv, TypeOK
  <2> QED BY <2>4, <2>6 DEF CodeInv
<1>4. CASE SendCoolDown(w)
  <2>1. call[w] \in Sends /\ call[w].code \in Codes /\ call[w].code <= drawn
    BY <1>4, CallForms DEF SendCoolDown, CodeInv, TypeOK, KeysOK, Sends
  <2>2. /\ cooldown' = [value |-> 1, until |-> now + CoolDown]
        /\ mailbox' \in {mailbox, mailbox \cup {call[w].code}}
        /\ call' = [call EXCEPT ![w] = Idle]
        /\ UNCHANGED <<now, code, attempts, drawn, logins, spent, wrong>>
    BY <1>4 DEF SendCoolDown, Key, Finish
  <2>3. KeysOK' /\ FreshOnce' /\ UsedUp' /\ SpentCodeGone' /\ call' \in [Workers -> Call]
    BY <2>2, CallForms, RequestGoesOn
  <2>4. cooldown' \in [value: {0, 1}, until: Nat] BY <2>2 DEF CodeInv, TypeOK
  <2>5. mailbox' \subseteq 1..drawn
    <3>1. call[w].code \in 1..drawn
      <4>1. call[w].code \in Nat /\ call[w].code >= 1 /\ drawn \in Nat
        BY <2>1 DEF CodeInv, TypeOK, Codes
      <4> QED BY <2>1, <4>1
    <3>2. mailbox \subseteq 1..drawn BY DEF CodeInv, TypeOK
    <3> QED BY <2>2, <3>1, <3>2
  <2>6. TypeOK' BY <2>2, <2>3, <2>4, <2>5 DEF CodeInv, TypeOK
  <2> QED BY <2>3, <2>6 DEF CodeInv
<1> QED BY <1>1, <1>2, <1>3, <1>4

LEMMA EntryKeepsInv ==
  ASSUME CodeInv, NEW w \in Workers,
         \/ \E entry \in mailbox \cup {WrongCode}: VerifyRead(w, entry)
         \/ VerifyCompare(w) \/ CountWrong(w) \/ Succeed(w) \/ KeepCode(w) \/ OnlyChecked(w)
  PROVE  CodeInv'
<1> USE Numbers DEF keys, history
<1>1. ASSUME NEW entry \in mailbox \cup {WrongCode}, VerifyRead(w, entry)
      PROVE  CodeInv'
  <2> DEFINE x == [at |-> "read", entry |-> entry, stored |-> code.value]
  <2>1. /\ code.until > now /\ call' = [call EXCEPT ![w] = x]
        /\ UNCHANGED <<now, code, attempts, cooldown, drawn, mailbox, logins, spent, wrong>>
    BY <1>1 DEF VerifyRead, Live
  <2>2. code.value \in Codes
    BY <2>1 DEF CodeInv, TypeOK, KeysOK
  <2>3. entry \in Codes \cup {WrongCode}
    BY DEF CodeInv, TypeOK, Codes
  <2>4. x \in Enters /\ x \in Call /\ x \notin Sends /\ x.at = "read" /\ x.stored = code.value
    BY <2>2, <2>3, CallForms DEF Enters, Sends
  <2> HIDE DEF x
  <2>5. KeysOK' /\ FreshOnce' /\ UsedUp' /\ SpentCodeGone' /\ call' \in [Workers -> Call]
    BY <2>1, <2>4, RequestGoesOn
  <2>6. TypeOK' BY <2>1, <2>5 DEF CodeInv, TypeOK
  <2> QED BY <2>5, <2>6 DEF CodeInv
<1>2. ASSUME NEW x \in Call, call' = [call EXCEPT ![w] = x],
             UNCHANGED <<now, code, attempts, cooldown, drawn, mailbox, logins, spent, wrong>>,
             \/ x.at \in {"idle", "wrong"}
             \/ x.at = "accepted" /\ call[w] \in Enters /\ x.stored = call[w].stored
      PROVE  CodeInv'
  <2>1. KeysOK' /\ FreshOnce' /\ UsedUp' /\ SpentCodeGone' /\ call' \in [Workers -> Call]
    BY <1>2, CallForms, RequestGoesOn
  <2>2. TypeOK' BY <1>2, <2>1 DEF CodeInv, TypeOK
  <2> QED BY <2>1, <2>2 DEF CodeInv
<1>3. CASE VerifyCompare(w)
  <2>1. call[w] \in Enters /\ call[w].at = "read"
    BY <1>3, CallForms DEF VerifyCompare, CodeInv, TypeOK
  <2>2. UNCHANGED <<now, code, attempts, cooldown, drawn, mailbox, logins, spent, wrong>>
    BY <1>3 DEF VerifyCompare
  <2>3. CASE Finish(w) BY <1>2, <2>2, <2>3, CallForms DEF Finish
  <2>4. CASE Advance(w, "accepted")
    <3> DEFINE x == [call[w] EXCEPT !.at = "accepted"]
    <3>1. x \in Enters /\ x.at = "accepted" /\ x.stored = call[w].stored
      BY <2>1, AdvancedEnters
    <3>2. call' = [call EXCEPT ![w] = x] /\ x \in Call
      BY <2>4, <3>1, CallForms DEF Advance, CodeInv, TypeOK
    <3> HIDE DEF x
    <3> QED BY <1>2, <2>1, <2>2, <3>1, <3>2
  <2>5. CASE ~TooMany /\ call' = [call EXCEPT ![w] = [at |-> "wrong", seen |-> AttemptsSeen]]
    <3>1. AttemptsSeen \in 0..(MaxAttempts - 1)
      BY <2>5 DEF TooMany, AttemptsSeen, CodeInv, TypeOK
    <3> DEFINE x == [at |-> "wrong", seen |-> AttemptsSeen]
    <3>2. x \in Call /\ x.at = "wrong" BY <3>1 DEF Call
    <3> HIDE DEF x
    <3> QED BY <1>2, <2>2, <2>5, <3>2 DEF x
  <2> QED BY <1>3, <2>3, <2>4, <2>5 DEF VerifyCompare
<1>4. CASE CountWrong(w)
  <2>1. /\ attempts' = [value |-> call[w].seen + 1, until |-> now + CodeTTL]
        /\ wrong' = wrong + 1 /\ call' = [call EXCEPT ![w] = Idle]
        /\ UNCHANGED <<now, code, cooldown, drawn, mailbox, logins, spent>>
    BY <1>4 DEF CountWrong, Key, Finish
  <2>2. KeysOK' /\ FreshOnce' /\ UsedUp' /\ SpentCodeGone' /\ call' \in [Workers -> Call]
    BY <2>1, CallForms, RequestGoesOn
  <2>3. call[w] \in Call /\ call[w].at = "wrong"
    BY <1>4 DEF CountWrong, CodeInv, TypeOK
  <2>4. call[w].seen \in 0..(MaxAttempts - 1) BY <2>3 DEF Call, Idle
  <2>5. attempts' \in [value: 0..MaxAttempts, until: Nat]
    BY <2>1, <2>4 DEF CodeInv, TypeOK
  <2>6. TypeOK' BY <2>1, <2>2, <2>5 DEF CodeInv, TypeOK
  <2> QED BY <2>2, <2>6 DEF CodeInv
<1>5. CASE Succeed(w)
  <2> DEFINE x == [call[w] EXCEPT !.at = "logged_in"]
  <2>1. call[w] \in Enters /\ call[w].stored \in Codes
    BY <1>5, CallForms DEF Succeed, CodeInv, TypeOK, Enters
  <2>2. x \in Enters /\ x \in Call /\ x \notin Sends /\ x.at = "logged_in"
        /\ x.stored = call[w].stored
    BY <2>1, AdvancedEnters, CallForms
  <2>3. /\ logins' = [logins EXCEPT ![call[w].stored] = @ + 1]
        /\ call' = [call EXCEPT ![w] = x]
        /\ UNCHANGED <<now, code, attempts, cooldown, drawn, mailbox, spent, wrong>>
    BY <1>5 DEF Succeed, Advance, CodeInv, TypeOK
  <2> HIDE DEF x
  <2>4. KeysOK' /\ FreshOnce' /\ UsedUp' /\ SpentCodeGone' /\ call' \in [Workers -> Call]
    BY <2>1, <2>2, <2>3, RequestGoesOn
  <2>5. logins' \in [Codes -> Nat]
    <3>1. logins \in [Codes -> Nat] BY DEF CodeInv, TypeOK
    <3>2. logins[call[w].stored] \in Nat BY <2>1, <3>1, Zenon
    <3> DEFINE n == logins[call[w].stored] + 1
    <3>3. n \in Nat BY <3>2
    <3>4. logins' = [logins EXCEPT ![call[w].stored] = n] BY <2>3
    <3> HIDE DEF n
    <3> QED BY <3>1, <3>3, <3>4, Zenon
  <2>6. TypeOK' BY <2>3, <2>4, <2>5 DEF CodeInv, TypeOK
  <2> QED BY <2>4, <2>6 DEF CodeInv
<1>6. CASE KeepCode(w) \/ OnlyChecked(w)
  BY <1>2, <1>6, CallForms DEF KeepCode, OnlyChecked, Finish
<1> QED BY <1>1, <1>3, <1>4, <1>5, <1>6

LEMMA ConsumptionKeepsInv ==
  ASSUME CodeInv, NEW w \in Workers,
         ConsumeCode(w) \/ ConsumeAttempts(w) \/ ConsumeCoolDown(w)
  PROVE  CodeInv'
<1> USE Numbers DEF keys, history
<1>1. /\ call[w] \in Enters /\ call[w].stored \in Codes /\ call[w].stored <= drawn
      /\ call[w].stored # 0
  BY CallForms DEF ConsumeCode, ConsumeAttempts, ConsumeCoolDown, CodeInv, TypeOK, KeysOK,
                   Enters
<1>2. Missing.value = 0 /\ Missing.until = 0 BY DEF Missing
<1>3. CASE ConsumeCode(w)
  <2> DEFINE x == [call[w] EXCEPT !.at = "code_gone"]
  <2>1. x \in Enters /\ x \in Call /\ x \notin Sends /\ x.at = "code_gone"
        /\ x.stored = call[w].stored
    BY <1>1, AdvancedEnters, CallForms
  <2>2. /\ code' = Missing /\ call' = [call EXCEPT ![w] = x]
        /\ UNCHANGED <<now, attempts, cooldown, drawn, mailbox, logins, spent, wrong>>
    BY <1>3 DEF ConsumeCode, Advance, CodeInv, TypeOK
  <2> HIDE DEF x
  <2>3. call' \in [Workers -> Call] /\ call'[w] = x
        /\ \A v \in Workers \ {w}: call'[v] = call[v]
    BY <2>1, <2>2 DEF CodeInv, TypeOK
  <2>4. code' \in [value: Codes \cup {0}, until: Nat] BY <2>2 DEF Missing
  <2>5. TypeOK' BY <2>2, <2>3, <2>4 DEF CodeInv, TypeOK
  <2>6. KeysOK' BY <1>1, <1>2, <2>1, <2>2, <2>3 DEF CodeInv, KeysOK
  <2>7. \A v \in Workers: /\ call[v] \in Enters => call[v].stored # 0
                          /\ call[v] \in Sends => call[v].code # 0
    BY DEF Enters, Sends
  <2>8. FreshOnce'
    <3>1. \A v \in Workers: call[v].at = "drawn" => call[v] \in Sends
      BY CallForms DEF CodeInv, TypeOK
    <3> QED BY <1>1, <1>2, <2>1, <2>2, <2>3, <2>7, <3>1 DEF CodeInv, FreshOnce
  <2>9. UsedUp'
    <3>1. \A v \in Workers: call[v].at \in {"code_gone", "attempts_gone"}
                              => call[v] \in Enters
      BY CallForms DEF CodeInv, TypeOK
    <3> QED BY <1>1, <1>2, <2>1, <2>2, <2>3, <2>7, <3>1 DEF UsedUp
  <2>10. SpentCodeGone' BY <1>2, <2>2 DEF CodeInv, TypeOK, SpentCodeGone
  <2> QED BY <2>5, <2>6, <2>8, <2>9, <2>10 DEF CodeInv
<1>4. CASE ConsumeAttempts(w)
  <2> DEFINE x == [call[w] EXCEPT !.at = "attempts_gone"]
  <2>1. x \in Enters /\ x \in Call /\ x \notin Sends /\ x.at = "attempts_gone"
        /\ x.stored = call[w].stored
    BY <1>1, AdvancedEnters, CallForms
  <2>2. /\ attempts' = Missing /\ wrong' = 0 /\ call' = [call EXCEPT ![w] = x]
        /\ UNCHANGED <<now, code, cooldown, drawn, mailbox, logins, spent>>
        /\ call[w].at = "code_gone"
    BY <1>4 DEF ConsumeAttempts, Advance, CodeInv, TypeOK
  <2>3. code.value # x.stored BY <2>1, <2>2 DEF CodeInv, UsedUp
  <2> HIDE DEF x
  <2>4. KeysOK' /\ FreshOnce' /\ UsedUp' /\ SpentCodeGone' /\ call' \in [Workers -> Call]
    BY <1>1, <2>1, <2>2, <2>3, RequestGoesOn
  <2>5. attempts' \in [value: 0..MaxAttempts, until: Nat] BY <2>2 DEF Missing
  <2>6. TypeOK' BY <2>2, <2>4, <2>5 DEF CodeInv, TypeOK
  <2> QED BY <2>4, <2>6 DEF CodeInv
<1>5. CASE ConsumeCoolDown(w)
  <2> DEFINE c == call[w].stored
  <2>1. /\ cooldown' = Missing /\ spent' = spent \cup {c} /\ call' = [call EXCEPT ![w] = Idle]
        /\ UNCHANGED <<now, code, attempts, drawn, mailbox, logins, wrong>>
        /\ call[w].at = "attempts_gone"
    BY <1>5 DEF ConsumeCoolDown, Finish
  <2>2. code.value # c BY <2>1 DEF CodeInv, UsedUp
  <2>3. call' \in [Workers -> Call] /\ call'[w] = Idle
        /\ \A v \in Workers \ {w}: call'[v] = call[v]
    BY <2>1, CallForms DEF CodeInv, TypeOK
  <2>4. cooldown' \in [value: {0, 1}, until: Nat] BY <2>1 DEF Missing
  <2>5. TypeOK' BY <1>1, <2>1, <2>3, <2>4 DEF CodeInv, TypeOK
  <2>6. KeysOK' BY <1>1, <2>1, <2>3, CallForms DEF CodeInv, KeysOK
  <2>7. FreshOnce' BY <1>1, <2>1, <2>3, CallForms DEF CodeInv, FreshOnce
  <2>8. UsedUp' BY <2>1, <2>3, CallForms DEF CodeInv, UsedUp
  <2>9. SpentCodeGone' BY <2>1, <2>2 DEF CodeInv, SpentCodeGone
  <2> QED BY <2>5, <2>6, <2>7, <2>8, <2>9 DEF CodeInv
<1> QED BY <1>3, <1>4, <1>5
------------------------------------------------------------------------------
LEMMA CodesInvariant == Spec => []CodeInv
<1>1. Init => CodeInv
  <2> SUFFICES ASSUME Init PROVE CodeInv
    OBVIOUS
  <2> USE Numbers DEF Init
  <2>1. \A w \in Workers: call[w] = Idle /\ call[w] \notin Sends /\ call[w] \notin Enters
                          /\ call[w].at = "idle"
    BY CallForms
  <2>2. TypeOK BY CallForms DEF TypeOK, Missing
  <2>3. KeysOK BY <2>1 DEF KeysOK, Missing
  <2>4. FreshOnce /\ UsedUp BY <2>1 DEF FreshOnce, UsedUp
  <2>5. SpentCodeGone BY DEF SpentCodeGone
  <2> QED BY <2>2, <2>3, <2>4, <2>5 DEF CodeInv
<1>2. CodeInv /\ [Next]_vars => CodeInv'
  <2> SUFFICES ASSUME CodeInv, [Next]_vars PROVE CodeInv'
    OBVIOUS
  <2>1. CASE UNCHANGED vars
    BY <2>1 DEF vars, keys, history, CodeInv, TypeOK, KeysOK, FreshOnce, UsedUp,
                SpentCodeGone
  <2>2. CASE Tick
    <3>1. UNCHANGED <<code, attempts, cooldown, drawn, mailbox, logins, spent, call>>
      BY <2>2 DEF Tick, keys
    <3>2. now' \in 0..MaxTime /\ wrong' \in Nat
      BY <2>2, Numbers DEF Tick, CodeInv, TypeOK
    <3>3. TypeOK' BY <3>1, <3>2 DEF CodeInv, TypeOK
    <3>4. KeysOK' /\ FreshOnce' /\ UsedUp' /\ SpentCodeGone'
      BY <3>1 DEF CodeInv, KeysOK, FreshOnce, UsedUp, SpentCodeGone
    <3> QED BY <3>3, <3>4 DEF CodeInv
  <2> QED
    BY <2>1, <2>2, SendKeepsInv, EntryKeepsInv, ConsumptionKeepsInv DEF Next
<1> QED BY <1>1, <1>2, PTL DEF Spec

(* The keys of the cache and the requests are well formed, and nobody knows  *)
(* a code that was never drawn.                                              *)
THEOREM CodesTyped == Spec => []TypeOK
<1>1. CodeInv => TypeOK BY DEF CodeInv
<1> QED BY <1>1, CodesInvariant, PTL

(* However the requests of one address overlap, a code that one of them used  *)
(* and consumed is not in the cache again.                                   *)
THEOREM SpentCodesStayGone == Spec => []SpentCodeGone
<1>1. CodeInv => SpentCodeGone BY DEF CodeInv
<1> QED BY <1>1, CodesInvariant, PTL
------------------------------------------------------------------------------
(* The bound on wrong entries is a binomial coefficient.  The provers have no   *)
(* induction; every set of numbers has a least element, which serves.         *)
LEMMA LeastNumber ==
  ASSUME NEW T, T \subseteq Nat, T # {}
  PROVE  \E n \in T: \A m \in T: n <= m
<1>1. PICK n \in T: \A m \in T: <<m, n>> \notin OpToRel(<, Nat)
  BY NatLessThanWellFounded, WFMin
<1>2. \A m \in T: ~(m < n) BY <1>1 DEF OpToRel
<1> QED BY <1>2

LEMMA AllNumbers ==
  ASSUME NEW T, 0 \in T, \A n \in Nat: n \in T => n + 1 \in T
  PROVE  Nat \subseteq T
<1> SUFFICES ASSUME Nat \ T # {} PROVE FALSE
  OBVIOUS
<1>1. PICK n \in Nat \ T: \A m \in Nat \ T: n <= m BY LeastNumber
<1>2. n - 1 \in Nat \ T BY <1>1
<1> QED BY <1>1, <1>2

(* The factorials up to n: there is one such function for every n, two of them  *)
(* agree, and so the recursive definition of factorial has a solution.        *)
Factorials(n) ==
  {f \in [0..n -> Nat \ {0}] : f[0] = 1 /\ \A i \in 1..n: f[i] = i * f[i - 1]}

LEMMA FactorialsExist == \A n \in Nat: Factorials(n) # {}
<1> DEFINE T == {n \in Nat : Factorials(n) # {}}
<1>1. 0 \in T
  <2>1. [i \in 0..0 |-> 1] \in Factorials(0) BY DEF Factorials
  <2> QED BY <2>1
<1>2. ASSUME NEW n \in Nat, n \in T PROVE n + 1 \in T
  <2>1. PICK f \in Factorials(n): TRUE BY <1>2
  <2> DEFINE g == [i \in 0..(n + 1) |-> IF i = n + 1 THEN (n + 1) * f[n] ELSE f[i]]
  <2>2. f[n] \in Nat \ {0} BY <2>1 DEF Factorials
  <2>3. (n + 1) * f[n] \in Nat \ {0}
    <3> DEFINE a == f[n]
    <3>1. a \in Nat /\ a # 0 BY <2>2
    <3> HIDE DEF a
    <3>2. (n + 1) * a \in Nat BY <3>1
    <3>3. (n + 1) * a = n * a + a BY <3>1
    <3>4. n * a \in Nat BY <3>1
    <3> QED BY <3>1, <3>2, <3>3, <3>4 DEF a
  <2>4. g \in [0..(n + 1) -> Nat \ {0}] /\ g[0] = 1 BY <2>1, <2>3 DEF Factorials
  <2>5. ASSUME NEW i \in 1..(n + 1) PROVE g[i] = i * g[i - 1]
    BY <2>1 DEF Factorials
  <2> HIDE DEF g
  <2>6. g \in Factorials(n + 1) BY <2>4, <2>5 DEF Factorials
  <2> QED BY <2>6
<1> HIDE DEF T
<1>3. Nat \subseteq T BY <1>1, <1>2, AllNumbers
<1> QED BY <1>3 DEF T

LEMMA FactorialsAgree ==
  ASSUME NEW n \in Nat, NEW m \in Nat, NEW f \in Factorials(n), NEW g \in Factorials(m),
         n <= m
  PROVE  \A i \in 0..n: f[i] = g[i]
<1> DEFINE T == {i \in 0..n : f[i] # g[i]}
<1> SUFFICES ASSUME T # {} PROVE FALSE
  OBVIOUS
<1>1. PICK i \in T: \A j \in T: i <= j
  <2>1. T \subseteq Nat OBVIOUS
  <2> HIDE DEF T
  <2> QED BY <2>1, LeastNumber
<1>2. i # 0 BY <1>1 DEF Factorials
<1>3. i - 1 \in 0..n /\ i - 1 \notin T BY <1>1, <1>2
<1>4. f[i] = i * f[i - 1] /\ g[i] = i * g[i - 1] BY <1>1, <1>2 DEF Factorials
<1> QED BY <1>1, <1>3, <1>4

LEMMA FactorialForms ==
  /\ factorial[0] = 1
  /\ \A n \in Nat: /\ factorial[n] \in Nat \ {0}
                   /\ factorial[n + 1] = (n + 1) * factorial[n]
<1> DEFINE c(n) == CHOOSE f \in Factorials(n): TRUE
           F == [n \in Nat |-> c(n)[n]]
<1>1. ASSUME NEW n \in Nat PROVE c(n) \in Factorials(n)
  BY FactorialsExist
<1> HIDE DEF c
<1>2. \A n \in Nat: F[n] \in Nat \ {0} BY <1>1 DEF Factorials
<1>3. F[0] = 1 BY <1>1 DEF Factorials
<1>4. ASSUME NEW n \in Nat, n # 0 PROVE F[n] = n * F[n - 1]
  <2>1. n - 1 \in Nat BY <1>4
  <2>2. c(n)[n] = n * c(n)[n - 1] BY <1>1, <1>4 DEF Factorials
  <2>3. c(n - 1)[n - 1] = c(n)[n - 1] BY <1>1, <2>1, FactorialsAgree
  <2> QED BY <2>1, <2>2, <2>3
<1>5. F = [n \in Nat |-> IF n = 0 THEN 1 ELSE n * F[n - 1]]
  BY <1>3, <1>4
<1> HIDE DEF F
<1>6. factorial = CHOOSE f: f = [n \in Nat |-> IF n = 0 THEN 1 ELSE n * f[n - 1]]
  BY DEF factorial
<1>7. factorial = [n \in Nat |-> IF n = 0 THEN 1 ELSE n * factorial[n - 1]]
  BY <1>5, <1>6
<1> DEFINE T == {n \in Nat : factorial[n] \in Nat \ {0}}
<1>8. factorial[0] = 1 BY <1>7
<1>9. ASSUME NEW n \in Nat PROVE factorial[n + 1] = (n + 1) * factorial[n]
  <2>1. n + 1 \in Nat /\ n + 1 # 0 /\ (n + 1) - 1 = n OBVIOUS
  <2> QED BY <1>7, <2>1
<1>10. ASSUME NEW n \in Nat, n \in T PROVE n + 1 \in T
  <2> DEFINE a == factorial[n]
  <2>1. a \in Nat /\ a # 0 BY <1>10
  <2>2. factorial[n + 1] = (n + 1) * a BY <1>9
  <2> HIDE DEF a
  <2>3. (n + 1) * a = n * a + a BY <2>1
  <2>4. n * a \in Nat BY <2>1
  <2> QED BY <2>1, <2>2, <2>3, <2>4
<1>11. Nat \subseteq T
  <2>1. 0 \in T BY <1>8
  <2> HIDE DEF T
  <2> QED BY <1>10, <2>1, AllNumbers
<1> QED BY <1>8, <1>9, <1>11

(* A profile: how many of k requests have seen a count below 1, 2, ..., m.     *)
(* There are as many as ways to choose k of m + k (Pascal's rule).            *)
Profiles(m, k) == {e \in [1..m -> 0..k] : \A i, j \in 1..m: i <= j => e[i] <= e[j]}

LEMMA ProfilesFew ==
  ASSUME NEW m \in Nat, NEW k \in Nat, m = 0 \/ k = 0
  PROVE  IsFiniteSet(Profiles(m, k)) /\ Cardinality(Profiles(m, k)) = 1
<1> DEFINE z == [i \in 1..m |-> 0]
<1>1. z \in Profiles(m, k) BY DEF Profiles
<1>2. ASSUME NEW e \in Profiles(m, k) PROVE e = z
  <2>1. e \in [1..m -> 0..k] BY DEF Profiles
  <2>2. CASE m = 0
    <3>1. 1..m = {} BY <2>2
    <3> QED BY <2>1, <3>1
  <2>3. CASE k = 0 BY <2>1, <2>3
  <2> QED BY <2>2, <2>3
<1> HIDE DEF z
<1>3. Profiles(m, k) = {z} BY <1>1, <1>2
<1> QED BY <1>3, FS_Singleton

(* Either the last is below k, or it is k and says nothing of the others.     *)
LEMMA ProfilesSplit ==
  ASSUME NEW m \in Nat \ {0}, NEW k \in Nat \ {0},
         IsFiniteSet(Profiles(m, k - 1)), IsFiniteSet(Profiles(m - 1, k))
  PROVE  /\ IsFiniteSet(Profiles(m, k))
         /\ Cardinality(Profiles(m, k)) =
              Cardinality(Profiles(m, k - 1)) + Cardinality(Profiles(m - 1, k))
<1> DEFINE L == Profiles(m, k - 1)
           B == {e \in Profiles(m, k) : e[m] = k}
           S == Profiles(m - 1, k)
           Longer(d) == [i \in 1..m |-> IF i = m THEN k ELSE d[i]]
           f == [d \in S |-> Longer(d)]
<1>1. Profiles(m, k) = L \cup B /\ L \cap B = {}
  <2>1. ASSUME NEW e \in Profiles(m, k), e[m] # k PROVE e \in L
    <3>1. e \in [1..m -> 0..k] /\ \A i \in 1..m: e[i] <= e[m] BY DEF Profiles
    <3>2. e[m] \in 0..(k - 1) BY <2>1, <3>1
    <3>3. \A i \in 1..m: e[i] \in 0..(k - 1) BY <3>1, <3>2
    <3> QED BY <3>1, <3>3 DEF Profiles
  <2>2. ASSUME NEW e \in L PROVE e \in Profiles(m, k) /\ e[m] # k
    <3>1. e \in [1..m -> 0..(k - 1)] BY DEF Profiles
    <3>2. e \in [1..m -> 0..k] /\ e[m] # k BY <3>1
    <3> QED BY <3>2 DEF Profiles
  <2> QED BY <2>1, <2>2
<1>2. \A d \in S: Longer(d) \in B
  <2> SUFFICES ASSUME NEW d \in S PROVE Longer(d) \in B
    OBVIOUS
  <2>1. d \in [1..(m - 1) -> 0..k]
        /\ \A i, j \in 1..(m - 1): i <= j => d[i] <= d[j]
    BY DEF Profiles
  <2>2. Longer(d) \in [1..m -> 0..k] /\ Longer(d)[m] = k BY <2>1
  <2>3. ASSUME NEW i \in 1..m, NEW j \in 1..m, i <= j
        PROVE  Longer(d)[i] <= Longer(d)[j]
    <3>1. CASE j = m BY <2>2, <3>1
    <3>2. CASE j # m BY <2>1, <2>3, <3>2
    <3> QED BY <3>1, <3>2
  <2> QED BY <2>2, <2>3 DEF Profiles
<1>3. \A c, d \in S: Longer(c) = Longer(d) => c = d
  <2> SUFFICES ASSUME NEW c \in S, NEW d \in S, Longer(c) = Longer(d) PROVE c = d
    OBVIOUS
  <2>1. c \in [1..(m - 1) -> 0..k] /\ d \in [1..(m - 1) -> 0..k] BY DEF Profiles
  <2>2. \A i \in 1..(m - 1): Longer(c)[i] = c[i] /\ Longer(d)[i] = d[i] OBVIOUS
  <2> QED BY <2>1, <2>2
<1>4. \A e \in B: \E d \in S: Longer(d) = e
  <2> SUFFICES ASSUME NEW e \in B PROVE \E d \in S: Longer(d) = e
    OBVIOUS
  <2> DEFINE d == [i \in 1..(m - 1) |-> e[i]]
  <2>1. /\ e \in [1..m -> 0..k] /\ e[m] = k
        /\ \A i, j \in 1..m: i <= j => e[i] <= e[j]
    BY DEF Profiles
  <2>2. d \in S BY <2>1 DEF Profiles
  <2>3. Longer(d) = e BY <2>1
  <2> QED BY <2>2, <2>3
<1>5. f \in Bijection(S, B)
  <2> HIDE DEF Longer, S, B
  <2>1. f \in [S -> B] BY <1>2
  <2> QED BY <1>3, <1>4, <2>1 DEF Bijection, Injection, Surjection, IsInjective
<1>6. IsFiniteSet(B) /\ Cardinality(B) = Cardinality(S)
  <2> HIDE DEF f, S, B
  <2>1. ExistsBijection(S, B) BY <1>5 DEF ExistsBijection
  <2>2. IsFiniteSet(S) BY DEF S
  <2> QED BY <2>1, <2>2, FS_Bijection
<1> HIDE DEF B
<1>7. Cardinality(L \cup B) = Cardinality(L) + Cardinality(B) - Cardinality({})
      /\ IsFiniteSet(L \cup B)
  BY <1>1, <1>6, FS_Union
<1>8. Cardinality(L) \in Nat /\ Cardinality(B) \in Nat BY <1>6, FS_CardinalityType
<1> QED BY <1>1, <1>6, <1>7, <1>8, FS_EmptySet

LEMMA PascalStep ==
  ASSUME NEW m \in Nat, NEW k \in Nat, NEW a \in Nat, NEW b \in Nat, NEW x \in Nat,
         NEW y \in Nat, NEW F \in Nat, F = a * (x * (m * y)), F = b * ((k * x) * y)
  PROVE  (m + k) * F = (a + b) * ((k * x) * (m * y))
<1>1. k * F = a * ((k * x) * (m * y)) OBVIOUS
<1>2. m * F = b * ((k * x) * (m * y)) OBVIOUS
<1>3. (m + k) * F = m * F + k * F OBVIOUS
<1> DEFINE p == (k * x) * (m * y)
<1>4. p \in Nat OBVIOUS
<1> HIDE DEF p
<1>5. (a + b) * p = a * p + b * p BY <1>4
<1>6. k * F = a * p /\ m * F = b * p BY <1>1, <1>2 DEF p
<1>7. k * F \in Nat /\ m * F \in Nat OBVIOUS
<1> QED BY <1>3, <1>5, <1>6, <1>7 DEF p

CountOK(m, k) ==
  /\ IsFiniteSet(Profiles(m, k))
  /\ factorial[m + k] = Cardinality(Profiles(m, k)) * (factorial[k] * factorial[m])

LEMMA ProfilesCounted == \A m, k \in Nat: CountOK(m, k)
<1> DEFINE T == {n \in Nat : \A m, k \in Nat: m + k = n => CountOK(m, k)}
<1>1. ASSUME NEW m \in Nat, NEW k \in Nat, m = 0 \/ k = 0
      PROVE  CountOK(m, k)
  <2>1. factorial[k] \in Nat /\ factorial[m] \in Nat BY FactorialForms
  <2>2. factorial[m + k] = factorial[k] * factorial[m]
    <3>1. CASE m = 0 BY <2>1, <3>1, FactorialForms
    <3>2. CASE k = 0 BY <2>1, <3>2, FactorialForms
    <3> QED BY <1>1, <3>1, <3>2
  <2>3. factorial[k] * factorial[m] \in Nat BY <2>1
  <2> QED BY <1>1, <2>2, <2>3, ProfilesFew DEF CountOK
<1>2. 0 \in T BY <1>1
<1>3. ASSUME NEW n \in Nat, n \in T PROVE n + 1 \in T
  <2> SUFFICES ASSUME NEW m \in Nat \ {0}, NEW k \in Nat \ {0}, m + k = n + 1
               PROVE  CountOK(m, k)
    BY <1>1
  <2>1. CountOK(m, k - 1) /\ CountOK(m - 1, k) BY <1>3
  <2> DEFINE a == Cardinality(Profiles(m, k - 1))
             b == Cardinality(Profiles(m - 1, k))
             x == factorial[k - 1]
             y == factorial[m - 1]
             F == factorial[n]
  <2>2. a \in Nat /\ b \in Nat /\ x \in Nat /\ y \in Nat /\ F \in Nat
    <3>1. IsFiniteSet(Profiles(m, k - 1)) /\ IsFiniteSet(Profiles(m - 1, k))
      BY <2>1 DEF CountOK
    <3>2. a \in Nat /\ b \in Nat BY <3>1, FS_CardinalityType
    <3>3. k - 1 \in Nat /\ m - 1 \in Nat OBVIOUS
    <3> QED BY <3>2, <3>3, FactorialForms
  <2>3. factorial[k] = k * x /\ factorial[m] = m * y /\ factorial[m + k] = (m + k) * F
    <3>1. (k - 1) \in Nat /\ (m - 1) \in Nat /\ (k - 1) + 1 = k /\ (m - 1) + 1 = m
      OBVIOUS
    <3> QED BY <3>1, FactorialForms
  <2>4. F = a * (x * (m * y)) /\ F = b * ((k * x) * y)
    <3>1. m + (k - 1) = n /\ (m - 1) + k = n OBVIOUS
    <3> QED BY <2>1, <2>3, <3>1 DEF CountOK
  <2>5. /\ IsFiniteSet(Profiles(m, k))
        /\ Cardinality(Profiles(m, k)) = a + b
    BY <2>1, ProfilesSplit DEF CountOK
  <2> HIDE DEF a, b, x, y, F
  <2> QED BY <2>2, <2>3, <2>4, <2>5, PascalStep DEF CountOK
<1> HIDE DEF T
<1>4. Nat \subseteq T BY <1>2, <1>3, AllNumbers
<1> SUFFICES ASSUME NEW m \in Nat, NEW k \in Nat PROVE CountOK(m, k)
  OBVIOUS
<1>5. m + k \in T BY <1>4
<1> QED BY <1>5 DEF T

LEMMA ProfilesChosen ==
  ASSUME NEW m \in Nat, NEW k \in Nat
  PROVE  /\ IsFiniteSet(Profiles(m, k))
         /\ Cardinality(Profiles(m, k)) = choose(m + k, k)
<1> DEFINE c == Cardinality(Profiles(m, k))
           q == factorial[k] * factorial[m]
<1>1. CountOK(m, k) BY ProfilesCounted
<1>2. c \in Nat BY <1>1, FS_CardinalityType DEF CountOK
<1>3. factorial[k] \in Nat \ {0} /\ factorial[m] \in Nat \ {0} BY FactorialForms
<1>4. q \in Nat /\ q > 0
  <2> DEFINE u == factorial[k]
             v == factorial[m]
  <2>1. u \in Nat /\ v \in Nat /\ u > 0 /\ v > 0 BY <1>3
  <2> HIDE DEF u, v
  <2>2. u * v \in Nat /\ u * v > 0 BY <2>1
  <2> QED BY <2>2 DEF u, v
<1>5. choose(m + k, k) = (c * q) \div q
  <2>1. (m + k) - k = m OBVIOUS
  <2> QED BY <1>1, <2>1 DEF choose, CountOK
<1> HIDE DEF c, q
<1>6. (c * q) \div q = c BY <1>2, <1>4
<1> QED BY <1>1, <1>5, <1>6 DEF CountOK, c

------------------------------------------------------------------------------
(* The count a request will go on from: the one it has read, or the present one. *)
SeenBy(w) == IF call[w].at = "wrong" THEN call[w].seen ELSE AttemptsSeen

(* How many requests will go on from a count below j.                         *)
Seen == [j \in 1..MaxAttempts |-> Cardinality({w \in Workers : SeenBy(w) < j})]

SeenProfiles == Profiles(MaxAttempts, Cardinality(Workers))

(* The profiles that come after d in the lexicographic order.  They cannot be    *)
(* seen again before the counter is reset, so they count the wrong entries.    *)
Beyond(d) ==
  {e \in SeenProfiles : \E j \in 1..MaxAttempts:
                          e[j] > d[j] /\ \A i \in 1..(j - 1): e[i] = d[i]}

LimitInv ==
  /\ ~Live(attempts) => wrong = 0
  /\ wrong <= Cardinality(Beyond(Seen))

SeenInv == TypeOK /\ Seen \in SeenProfiles

LEMMA BeyondCounted ==
  ASSUME NEW d
  PROVE  IsFiniteSet(Beyond(d)) /\ Cardinality(Beyond(d)) \in Nat
<1>1. Cardinality(Workers) \in Nat
  BY CodesAssumption, FS_CardinalityType DEF CodesAssumption
<1>2. IsFiniteSet(SeenProfiles) BY <1>1, Numbers, ProfilesChosen DEF SeenProfiles
<1>3. IsFiniteSet(Beyond(d))
  <2>1. Beyond(d) \subseteq SeenProfiles BY DEF Beyond
  <2> QED BY <1>2, <2>1, FS_Subset
<1> QED BY <1>3, FS_CardinalityType

LEMMA SeenForms ==
  ASSUME TypeOK
  PROVE  /\ \A w \in Workers: SeenBy(w) \in 0..MaxAttempts
         /\ \A w \in Workers: call[w].at = "wrong" => call[w].seen \in 0..(MaxAttempts - 1)
         /\ Seen \in SeenProfiles
<1>1. ASSUME NEW w \in Workers, call[w].at = "wrong"
      PROVE  call[w].seen \in 0..(MaxAttempts - 1)
  BY <1>1 DEF TypeOK, Call, Idle
<1>2. AttemptsSeen \in 0..MaxAttempts BY Numbers DEF AttemptsSeen, TypeOK
<1>3. \A w \in Workers: SeenBy(w) \in 0..MaxAttempts
  BY <1>1, <1>2, Numbers DEF SeenBy
<1> DEFINE S(j) == {w \in Workers : SeenBy(w) < j}
<1>4. ASSUME NEW j \in 1..MaxAttempts
      PROVE  IsFiniteSet(S(j)) /\ Cardinality(S(j)) \in 0..Cardinality(Workers)
  <2>1. S(j) \subseteq Workers /\ IsFiniteSet(Workers)
    BY CodesAssumption DEF CodesAssumption
  <2> HIDE DEF S
  <2>2. IsFiniteSet(S(j)) /\ Cardinality(S(j)) <= Cardinality(Workers) BY <2>1, FS_Subset
  <2> QED BY <2>1, <2>2, FS_CardinalityType
<1>5. ASSUME NEW i \in 1..MaxAttempts, NEW j \in 1..MaxAttempts, i <= j
      PROVE  Cardinality(S(i)) <= Cardinality(S(j))
  <2>1. S(i) \subseteq S(j) BY <1>3, <1>5
  <2> HIDE DEF S
  <2> QED BY <1>4, <2>1, FS_Subset
<1>6. Seen = [j \in 1..MaxAttempts |-> Cardinality(S(j))] BY DEF Seen
<1> HIDE DEF S
<1>7. Seen \in [1..MaxAttempts -> 0..Cardinality(Workers)]
      /\ \A i, j \in 1..MaxAttempts: i <= j => Seen[i] <= Seen[j]
  BY <1>4, <1>5, <1>6
<1>8. Seen \in SeenProfiles BY <1>7 DEF SeenProfiles, Profiles
<1> QED BY <1>1, <1>3, <1>8

(* A profile that is smaller at k and not larger before k has more beyond it.   *)
LEMMA SmallerIsLess ==
  ASSUME NEW d \in SeenProfiles, NEW e \in SeenProfiles, NEW k \in 1..MaxAttempts,
         e[k] < d[k], \A i \in 1..(k - 1): e[i] <= d[i]
  PROVE  Cardinality(Beyond(d)) + 1 <= Cardinality(Beyond(e))
<1> DEFINE T == {i \in 1..MaxAttempts : e[i] # d[i]}
<1>1. /\ d \in [1..MaxAttempts -> 0..Cardinality(Workers)]
      /\ e \in [1..MaxAttempts -> 0..Cardinality(Workers)]
      /\ MaxAttempts \in Nat /\ Cardinality(Workers) \in Nat
  BY Numbers, CodesAssumption, FS_CardinalityType DEF SeenProfiles, Profiles, CodesAssumption
<1>2. PICK j \in T: \A i \in T: j <= i
  <2>1. T \subseteq Nat /\ k \in T BY <1>1
  <2> HIDE DEF T
  <2> QED BY <2>1, LeastNumber
<1>3. k \in T BY <1>1
<1>4. j \in 1..MaxAttempts /\ j <= k BY <1>2, <1>3
<1>5. e[j] < d[j] /\ \A i \in 1..(j - 1): e[i] = d[i]
  <2>1. e[j] # d[j] /\ e[j] \in Nat /\ d[j] \in Nat BY <1>1, <1>2
  <2>2. e[j] <= d[j]
    <3>1. CASE j = k BY <1>1, <3>1
    <3>2. CASE j # k
      <4>1. j \in 1..(k - 1) BY <1>4, <3>2
      <4> QED BY <4>1
    <3> QED BY <3>1, <3>2
  <2>3. ASSUME NEW i \in 1..(j - 1) PROVE e[i] = d[i]
    <3>1. i \in 1..MaxAttempts /\ ~(j <= i) BY <1>1, <1>4
    <3> QED BY <1>2, <3>1
  <2> QED BY <2>1, <2>2, <2>3
<1> HIDE DEF T
<1>6. d \in Beyond(e) BY <1>4, <1>5 DEF Beyond
<1>7. d \notin Beyond(d) BY <1>1 DEF Beyond
<1>8. Beyond(d) \subseteq Beyond(e)
  <2> SUFFICES ASSUME NEW f \in Beyond(d) PROVE f \in Beyond(e)
    OBVIOUS
  <2>1. f \in SeenProfiles /\ f \in [1..MaxAttempts -> 0..Cardinality(Workers)]
    BY DEF Beyond, SeenProfiles, Profiles
  <2>2. PICK l \in 1..MaxAttempts: f[l] > d[l] /\ \A i \in 1..(l - 1): f[i] = d[i]
    BY DEF Beyond
  <2>3. CASE l < j
    <3>1. f[l] > e[l] /\ \A i \in 1..(l - 1): f[i] = e[i]
      BY <1>1, <1>4, <1>5, <2>2, <2>3
    <3> QED BY <2>1, <3>1 DEF Beyond
  <2>4. CASE ~(l < j)
    <3>1. f[j] >= d[j]
      <4>1. CASE l = j BY <1>1, <2>1, <2>2, <4>1
      <4>2. CASE l # j
        <5>1. j \in 1..(l - 1) BY <1>4, <2>4, <4>2
        <5>2. f[j] = d[j] BY <2>2, <5>1
        <5> QED BY <1>1, <1>4, <5>2
      <4> QED BY <4>1, <4>2
    <3>2. f[j] > e[j] BY <1>1, <1>4, <1>5, <2>1, <3>1
    <3>3. \A i \in 1..(j - 1): f[i] = e[i] BY <1>4, <1>5, <2>2, <2>4
    <3> QED BY <1>4, <2>1, <3>2, <3>3 DEF Beyond
  <2> QED BY <2>3, <2>4
<1>9. Cardinality(Beyond(d) \cup {d}) = Cardinality(Beyond(d)) + 1
  BY <1>7, BeyondCounted, FS_AddElement
<1>10. Beyond(d) \cup {d} \subseteq Beyond(e) BY <1>6, <1>8
<1> QED BY <1>9, <1>10, BeyondCounted, FS_Subset

(* Requests go on: the counter is left alone, and so is what they saw.        *)
LEMMA CountStays ==
  ASSUME LimitInv, UNCHANGED <<attempts, wrong>>, Live(attempts)' <=> Live(attempts),
         \A w \in Workers: SeenBy(w)' = SeenBy(w)
  PROVE  LimitInv'
<1>1. \A j \in 1..MaxAttempts:
        {w \in Workers : SeenBy(w) < j}' = {w \in Workers : SeenBy(w) < j}
  OBVIOUS
<1>2. Seen' = Seen BY <1>1 DEF Seen
<1>3. Beyond(Seen)' = Beyond(Seen) BY <1>2 DEF Beyond, SeenProfiles
<1> QED BY <1>3 DEF LimitInv

LEMMA CountReset == ASSUME wrong' = 0 PROVE LimitInv'
<1>1. Cardinality(Beyond(Seen')) \in Nat BY BeyondCounted
<1>2. Beyond(Seen)' = Beyond(Seen') BY DEF Beyond, SeenProfiles
<1> QED BY <1>1, <1>2 DEF LimitInv

(* A wrong entry sets the counter to k.  Fewer requests go on from a count below *)
(* k than before, and not more from a count below any smaller one.            *)
LEMMA CountGrows ==
  ASSUME SeenInv, SeenInv', LimitInv, NEW w \in Workers, CountWrong(w)
  PROVE  LimitInv'
<1> USE DEF SeenInv
<1> DEFINE k == call[w].seen + 1
           S(j) == {v \in Workers : SeenBy(v) < j}
<1>1. k \in 1..MaxAttempts /\ call[w].at = "wrong" /\ SeenBy(w) = k - 1
  BY SeenForms, Numbers DEF CountWrong, SeenBy
<1>2. /\ attempts' = [value |-> k, until |-> now + CodeTTL] /\ now' = now
      /\ call' = [call EXCEPT ![w] = Idle] /\ wrong' = wrong + 1
  BY DEF CountWrong, Key, Finish
<1> HIDE DEF k
<1>3. now \in Nat /\ wrong \in Nat BY Numbers DEF TypeOK
<1>4. Live(attempts)' /\ AttemptsSeen' = k
  <2>1. attempts'.until > now' BY <1>2, <1>3, Numbers
  <2> QED BY <1>2, <2>1 DEF Live, AttemptsSeen
<1>5. ASSUME NEW v \in Workers, v = w \/ call[v].at # "wrong" PROVE SeenBy(v)' = k
  <2>1. call'[v].at # "wrong" BY <1>2, <1>5 DEF TypeOK, Idle
  <2> QED BY <1>4, <2>1 DEF SeenBy
<1>6. ASSUME NEW v \in Workers, v # w, call[v].at = "wrong" PROVE SeenBy(v)' = SeenBy(v)
  <2>1. call'[v] = call[v] BY <1>2, <1>6 DEF TypeOK
  <2> QED BY <1>6, <2>1 DEF SeenBy
<1>7. Seen \in SeenProfiles /\ Seen' \in SeenProfiles BY DEF SeenProfiles
<1>8. ASSUME NEW j \in 1..k
      PROVE  /\ S(j)' \subseteq S(j) \ {w}
             /\ Seen'[j] = Cardinality(S(j)') /\ Seen[j] = Cardinality(S(j))
  <2>1. ASSUME NEW v \in Workers, SeenBy(v)' < j
        PROVE  v # w /\ SeenBy(v) < j
    <3>1. SeenBy(v)' # k BY <1>1, <1>8, <2>1
    <3> QED BY <1>5, <1>6, <2>1, <3>1
  <2>2. j \in 1..MaxAttempts BY <1>1, <1>8, Numbers
  <2> QED BY <2>1, <2>2 DEF Seen
<1>9. ASSUME NEW j \in 1..k
      PROVE  Seen'[j] <= Seen[j] /\ (w \in S(j) => Seen'[j] < Seen[j])
  <2>1. S(j) \subseteq Workers /\ IsFiniteSet(Workers)
    BY CodesAssumption DEF CodesAssumption
  <2> DEFINE A == S(j)
             B == S(j)'
  <2>2. Seen'[j] = Cardinality(B) /\ B \subseteq A \ {w} /\ Seen[j] = Cardinality(A)
    BY <1>8
  <2>3. A \subseteq Workers /\ (w \in S(j) <=> w \in A) BY <2>1
  <2> HIDE DEF S, A, B
  <2>4. IsFiniteSet(A) /\ Cardinality(A) \in Nat BY <2>1, <2>3, FS_Subset, FS_CardinalityType
  <2>5. /\ IsFiniteSet(A \ {w}) /\ Cardinality(A \ {w}) \in Nat
        /\ Cardinality(A \ {w}) = IF w \in A THEN Cardinality(A) - 1 ELSE Cardinality(A)
    BY <2>4, FS_RemoveElement, FS_CardinalityType
  <2>6. Cardinality(B) <= Cardinality(A \ {w}) /\ IsFiniteSet(B) BY <2>2, <2>5, FS_Subset
  <2>7. Cardinality(B) \in Nat BY <2>6, FS_CardinalityType
  <2> QED BY <2>2, <2>3, <2>4, <2>5, <2>6, <2>7
<1>10. w \in S(k) BY <1>1
<1> HIDE DEF S
<1>11. /\ Seen'[k] < Seen[k]
       /\ \A j \in 1..(k - 1): Seen'[j] <= Seen[j]
  <2>1. k \in 1..k /\ \A j \in 1..(k - 1): j \in 1..k BY <1>1
  <2> QED BY <1>9, <1>10, <2>1
<1>12. Cardinality(Beyond(Seen)) + 1 <= Cardinality(Beyond(Seen'))
  BY <1>1, <1>7, <1>11, SmallerIsLess
<1>13. wrong + 1 <= Cardinality(Beyond(Seen'))
  <2>1. Cardinality(Beyond(Seen)) \in Nat /\ Cardinality(Beyond(Seen')) \in Nat
    BY BeyondCounted
  <2> QED BY <1>3, <1>12, <2>1 DEF LimitInv
<1>14. Beyond(Seen)' = Beyond(Seen') BY DEF Beyond, SeenProfiles
<1> QED BY <1>2, <1>4, <1>13, <1>14 DEF LimitInv

LEMMA LimitStep ==
  ASSUME SeenInv, SeenInv', LimitInv, [Next]_vars
  PROVE  LimitInv'
<1> USE DEF SeenInv
<1>1. CASE UNCHANGED vars
  <2>1. \A w \in Workers: SeenBy(w)' = SeenBy(w)
    BY <1>1 DEF vars, keys, history, SeenBy, AttemptsSeen, Live
  <2> QED BY <1>1, <2>1, CountStays DEF vars, keys, history, Live
<1>2. ASSUME NEW w \in Workers, NEW x, x.at # "wrong" \/ x.seen = AttemptsSeen,
             call[w].at # "wrong", call' = [call EXCEPT ![w] = x],
             UNCHANGED <<now, attempts, wrong>>
      PROVE  LimitInv'
  <2>1. Live(attempts)' = Live(attempts) /\ AttemptsSeen' = AttemptsSeen
    BY <1>2 DEF Live, AttemptsSeen
  <2>2. ASSUME NEW v \in Workers PROVE SeenBy(v)' = SeenBy(v)
    <3>1. CASE v = w
      <4>1. call'[v] = x BY <1>2, <3>1 DEF TypeOK
      <4> QED BY <1>2, <2>1, <3>1, <4>1 DEF SeenBy
    <3>2. CASE v # w
      <4>1. call'[v] = call[v] BY <1>2, <3>2 DEF TypeOK
      <4> QED BY <2>1, <4>1 DEF SeenBy
    <3> QED BY <3>1, <3>2
  <2> QED BY <1>2, <2>1, <2>2, CountStays
<1>3. ASSUME NEW w \in Workers, NEW s \in {"code_set", "accepted", "logged_in", "code_gone"},
             call[w].at # "wrong", Advance(w, s), UNCHANGED <<now, attempts, wrong>>
      PROVE  LimitInv'
  <2> DEFINE x == [call[w] EXCEPT !.at = s]
  <2>1. call' = [call EXCEPT ![w] = x] BY <1>3 DEF Advance
  <2>2. x.at # "wrong"
    <3>1. "at" \in DOMAIN call[w] BY DEF TypeOK, Call, Idle
    <3> QED BY <3>1
  <2> HIDE DEF x
  <2> QED BY <1>2, <1>3, <2>1, <2>2
<1>4. ASSUME NEW w \in Workers, call[w].at # "wrong", Finish(w),
             UNCHANGED <<now, attempts, wrong>>
      PROVE  LimitInv'
  BY <1>2, <1>4 DEF Finish, Idle
<1>5. ASSUME NEW w \in Workers, SendCheck(w) PROVE LimitInv'
  <2> DEFINE x == [at |-> "drawn", code |-> drawn + 1]
  <2>1. call' = [call EXCEPT ![w] = x] /\ x.at # "wrong" BY <1>5 DEF SendCheck
  <2> HIDE DEF x
  <2>2. call[w].at # "wrong" /\ UNCHANGED <<now, attempts, wrong>>
    BY <1>5 DEF SendCheck, Idle, keys, history
  <2> QED BY <1>2, <2>1, <2>2
<1>6. ASSUME NEW w \in Workers, SendCode(w) PROVE LimitInv'
  BY <1>3, <1>6 DEF SendCode, history
<1>7. ASSUME NEW w \in Workers, SendAttempts(w) \/ ConsumeAttempts(w) PROVE LimitInv'
  BY <1>7, CountReset DEF SendAttempts, ConsumeAttempts
<1>8. ASSUME NEW w \in Workers, SendCoolDown(w) PROVE LimitInv'
  BY <1>4, <1>8 DEF SendCoolDown, history
<1>9. ASSUME NEW w \in Workers, NEW entry, VerifyRead(w, entry) PROVE LimitInv'
  <2> DEFINE x == [at |-> "read", entry |-> entry, stored |-> code.value]
  <2>1. call' = [call EXCEPT ![w] = x] /\ x.at # "wrong" BY <1>9 DEF VerifyRead
  <2> HIDE DEF x
  <2>2. call[w].at # "wrong" /\ UNCHANGED <<now, attempts, wrong>>
    BY <1>9 DEF VerifyRead, Idle, keys, history
  <2> QED BY <1>2, <2>1, <2>2
<1>10. ASSUME NEW w \in Workers, VerifyCompare(w) PROVE LimitInv'
  <2>1. call[w].at # "wrong" /\ UNCHANGED <<now, attempts, wrong>>
    BY <1>10 DEF VerifyCompare, keys, history
  <2>2. CASE Finish(w) BY <1>4, <2>1, <2>2
  <2>3. CASE Advance(w, "accepted") BY <1>3, <2>1, <2>3
  <2>4. CASE call' = [call EXCEPT ![w] = [at |-> "wrong", seen |-> AttemptsSeen]]
    <3> DEFINE x == [at |-> "wrong", seen |-> AttemptsSeen]
    <3>1. x.seen = AttemptsSeen /\ call' = [call EXCEPT ![w] = x] BY <2>4
    <3> HIDE DEF x
    <3> QED BY <1>2, <2>1, <3>1
  <2> QED BY <1>10, <2>2, <2>3, <2>4 DEF VerifyCompare
<1>11. ASSUME NEW w \in Workers, CountWrong(w) PROVE LimitInv'
  BY <1>11, CountGrows
<1>12. ASSUME NEW w \in Workers, Succeed(w) PROVE LimitInv'
  BY <1>3, <1>12 DEF Succeed, keys
<1>13. ASSUME NEW w \in Workers, KeepCode(w) \/ OnlyChecked(w) PROVE LimitInv'
  BY <1>4, <1>13 DEF KeepCode, OnlyChecked, keys, history
<1>14. ASSUME NEW w \in Workers, ConsumeCode(w) PROVE LimitInv'
  BY <1>3, <1>14 DEF ConsumeCode, history
<1>15. ASSUME NEW w \in Workers, ConsumeCoolDown(w) PROVE LimitInv'
  BY <1>4, <1>15 DEF ConsumeCoolDown
<1>16. CASE Tick
  <2>1. CASE wrong' = 0 BY <2>1, CountReset
  <2>2. CASE wrong' # 0
    <3>1. attempts.until > now' /\ now' = now + 1 /\ now \in Nat
          /\ attempts.until \in Nat /\ UNCHANGED <<attempts, wrong, call>>
      BY <1>16, <2>2 DEF Tick, keys, TypeOK
    <3>2. Live(attempts) /\ Live(attempts)' BY <3>1 DEF Live
    <3>3. \A w \in Workers: SeenBy(w)' = SeenBy(w)
      BY <3>1, <3>2 DEF SeenBy, AttemptsSeen
    <3> QED BY <3>1, <3>2, <3>3, CountStays
  <2> QED BY <2>1, <2>2
<1> QED
  BY <1>1, <1>5, <1>6, <1>7, <1>8, <1>9, <1>10, <1>11, <1>12, <1>13, <1>14, <1>15, <1>16
     DEF Next

(* However many requests overlap, wrong entries are bounded by the ways in    *)
(* which they can: verify_otp's counter loses updates, but each wrong entry    *)
(* leaves a profile of the counts that is smaller than before.               *)
THEOREM WrongEntriesBounded == Spec => []WrongEntriesLimited
<1>1. TypeOK => SeenInv BY SeenForms DEF SeenInv
<1>2. Init => LimitInv
  <2> SUFFICES ASSUME Init PROVE LimitInv
    OBVIOUS
  <2>1. Cardinality(Beyond(Seen)) \in Nat BY BeyondCounted
  <2> QED BY <2>1 DEF Init, LimitInv
<1>3. SeenInv /\ LimitInv => WrongEntriesLimited
  <2> SUFFICES ASSUME SeenInv, LimitInv PROVE WrongEntriesLimited
    OBVIOUS
  <2> DEFINE W == Cardinality(Workers)
  <2>1. W \in Nat BY CodesAssumption, FS_CardinalityType DEF CodesAssumption
  <2>2. /\ IsFiniteSet(SeenProfiles)
        /\ Cardinality(SeenProfiles) = choose(MaxAttempts + W, W)
    BY <2>1, Numbers, ProfilesChosen DEF SeenProfiles
  <2>3. /\ Beyond(Seen) \subseteq SeenProfiles /\ Seen \in SeenProfiles
        /\ Seen \notin Beyond(Seen)
    <3>1. \A j \in 1..MaxAttempts: Seen[j] \in Nat
      BY <2>1 DEF SeenInv, SeenProfiles, Profiles
    <3> QED BY <3>1 DEF SeenInv, Beyond
  <2>4. Cardinality(Beyond(Seen)) < Cardinality(SeenProfiles)
    <3>1. Cardinality(Beyond(Seen)) <= Cardinality(SeenProfiles)
          /\ Cardinality(Beyond(Seen)) # Cardinality(SeenProfiles)
      BY <2>2, <2>3, FS_Subset
    <3>2. Cardinality(SeenProfiles) \in Nat BY <2>2, FS_CardinalityType
    <3> QED BY <3>1, <3>2, BeyondCounted
  <2>5. wrong \in Nat /\ wrong <= Cardinality(Beyond(Seen))
        /\ Cardinality(Beyond(Seen)) \in Nat /\ Cardinality(SeenProfiles) \in Nat
    BY <2>2, BeyondCounted, FS_CardinalityType DEF SeenInv, TypeOK, LimitInv
  <2> QED BY <2>2, <2>4, <2>5 DEF WrongEntriesLimited
<1>4. SeenInv /\ SeenInv' /\ LimitInv /\ [Next]_vars => LimitInv' BY LimitStep
<1> QED BY <1>1, <1>2, <1>3, <1>4, CodesTyped, PTL DEF Spec
==============================================================================
