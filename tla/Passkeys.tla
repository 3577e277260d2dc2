------------------------------- MODULE Passkeys -------------------------------
(***************************************************************************)
(* The passkey of ONE authenticator of one user: it is registered, signs the *)
(* user in and is revoked.  Each registration and each login answers a       *)
(* challenge of the server, which expires and may be used once.             *)
(*                                                                         *)
(* A verification is one transaction.  It locks the challenge, a login then   *)
(* locks the credential, and asks Keycloak for tokens before the COMMIT: it   *)
(* is cut before each lock, before the tokens and before the COMMIT, and may  *)
(* fail everywhere.                                                         *)
(*                                                                         *)
(* Left out: what WebAuthn signs apart from the counter, addresses, names,    *)
(* and the account that the token's user is (see Accounts).                 *)
(***************************************************************************)
EXTENDS Integers, FiniteSets

CONSTANTS
  Challenges,   \* bound: the challenges that may be created
  MaxTokens,    \* bound: tokens issued for one challenge
  Verifiers     \* web workers, as many as verify at a time

VARIABLES
  challenge,  \* challenge[c]: the row of c, NoChallenge before it is created
  credential, \* the row of the authenticator, NoCredential without one
  counts,     \* whether the authenticator counts its signatures
  signatures, \* its counter
  response,   \* response[c]: the counter it signed c with, Unsigned before
  verifying,  \* verifying[w]: the verification worker w is in
  tokens,     \* tokens[c]: tokens issued by Keycloak for the login with c
  signedIn    \* signedIn[c]: logins that c was used for

device == <<counts, signatures, response>>
passkeyVars == <<challenge, credential, device, verifying, tokens, signedIn>>

Ceremony == {"registration", "authentication"}
NoChallenge == [ceremony |-> "none"]
Challenge == [ceremony: Ceremony, used: BOOLEAN, expired: BOOLEAN]
NoCredential == [sign_count |-> -1]
Credential == [sign_count: Nat, revoked: BOOLEAN]
Unsigned == -1

NoVerification == [at |-> "none"]
Verifications ==
  {NoVerification}
  \cup [at: {"challenge", "credential", "tokens"}, of: Challenges]

PasskeyInit ==
  /\ challenge = [c \in Challenges |-> NoChallenge]
  /\ credential = NoCredential
  /\ counts \in BOOLEAN /\ signatures = 0
  /\ response = [c \in Challenges |-> Unsigned]
  /\ verifying = [w \in Verifiers |-> NoVerification]
  /\ tokens = [c \in Challenges |-> 0] /\ signedIn = [c \in Challenges |-> 0]
------------------------------------------------------------------------------
(* begin_registration and begin_authentication.                             *)
Registered == credential # NoCredential
Active == Registered /\ ~credential.revoked

BeginCeremony(c, ceremony) ==
  /\ challenge[c] = NoChallenge
  /\ challenge' = [challenge EXCEPT ![c] =
       [ceremony |-> ceremony, used |-> FALSE, expired |-> FALSE]]
  /\ UNCHANGED <<credential, device, verifying, tokens, signedIn>>

(* An authenticator that is excluded does not register again.  A counter      *)
(* that is not kept stays at zero.                                          *)
Sign(c) ==
  /\ challenge[c] # NoChallenge /\ response[c] = Unsigned
  /\ signatures' = IF counts THEN signatures + 1 ELSE 0
  /\ response' = [response EXCEPT ![c] = signatures']
  /\ UNCHANGED <<challenge, credential, counts, verifying, tokens, signedIn>>

Expire(c) ==
  /\ challenge[c] # NoChallenge /\ ~challenge[c].expired
  /\ challenge' = [challenge EXCEPT ![c].expired = TRUE]
  /\ UNCHANGED <<credential, device, verifying, tokens, signedIn>>
------------------------------------------------------------------------------
(* Row locks, held until the end of the transaction.                        *)
BugChallengeFree(c) == TRUE
ChallengeFree(c) ==
  \A w \in Verifiers: verifying[w] # NoVerification => verifying[w].of # c
BugCredentialFree == TRUE
CredentialFree ==
  \A w \in Verifiers: verifying[w].at \notin {"credential", "tokens"}

BugUsable(c) == ~challenge[c].expired
Usable(c) == ~challenge[c].used /\ ~challenge[c].expired

At(w, step) == verifying' = [verifying EXCEPT ![w].at = step]
EndVerification(w) == verifying' = [verifying EXCEPT ![w] = NoVerification]

LockChallenge(w, c) ==
  /\ verifying[w] = NoVerification
  /\ challenge[c] # NoChallenge /\ response[c] # Unsigned
  /\ ChallengeFree(c) /\ Usable(c)
  /\ verifying' = [verifying EXCEPT ![w] = [at |-> "challenge", of |-> c]]
  /\ UNCHANGED <<challenge, credential, device, tokens, signedIn>>

Is(w, ceremony) ==
  verifying[w].at = "challenge" /\ challenge[verifying[w].of].ceremony = ceremony

(* verify_registration refuses an active credential, and the unique index     *)
(* refuses a revoked one (see Fail).                                        *)
BugRegistrable == ~Active                      \* a revoked row is taken over
Registrable == ~Registered

RegisterCommit(w) ==
  LET c == verifying[w].of IN
  /\ Is(w, "registration")
  /\ Registrable
  /\ credential' = [sign_count |-> response[c], revoked |-> FALSE]
  /\ challenge' = [challenge EXCEPT ![c].used = TRUE]
  /\ EndVerification(w)
  /\ UNCHANGED <<device, tokens, signedIn>>

(* py_webauthn refuses a counter that does not grow, unless both are zero.    *)
CounterGrows(new, old) == new > old \/ (new = 0 /\ old = 0)

LockCredential(w) ==
  /\ Is(w, "authentication")
  /\ CredentialFree /\ Active
  /\ CounterGrows(response[verifying[w].of], credential.sign_count)
  /\ At(w, "credential")
  /\ UNCHANGED <<challenge, credential, device, tokens, signedIn>>

(* _issue_tokens.                                                           *)
IssueTokens(w) ==
  /\ verifying[w].at = "credential" /\ tokens[verifying[w].of] < MaxTokens
  /\ tokens' = [tokens EXCEPT ![verifying[w].of] = @ + 1]
  /\ At(w, "tokens")
  /\ UNCHANGED <<challenge, credential, device, signedIn>>

BugUsed(c) == challenge                        \* mark_used is not called
Used(c) == [challenge EXCEPT ![c].used = TRUE]

LoginCommit(w) ==
  LET c == verifying[w].of IN
  /\ verifying[w].at = "tokens"
  /\ credential' = [credential EXCEPT !.sign_count = response[c]]
  /\ challenge' = Used(c)
  /\ signedIn' = [signedIn EXCEPT ![c] = @ + 1]
  /\ EndVerification(w)
  /\ UNCHANGED <<device, tokens>>

(* A refusal, an error of Keycloak or the database, or a lost worker: the     *)
(* transaction is rolled back, and tokens that were issued reach nobody.     *)
Fail(w) ==
  /\ verifying[w] # NoVerification
  /\ EndVerification(w)
  /\ UNCHANGED <<challenge, credential, device, tokens, signedIn>>

(* revoke_credential reads the row, and writes one column when it is free.     *)
Revoke ==
  /\ Registered /\ CredentialFree
  /\ credential' = [credential EXCEPT !.revoked = TRUE]
  /\ UNCHANGED <<challenge, device, verifying, tokens, signedIn>>

(* An administrator's transaction locks the row, then looks whether it is      *)
(* revoked already.                                                         *)
RevokeByAdmin ==
  /\ Active /\ CredentialFree
  /\ credential' = [credential EXCEPT !.revoked = TRUE]
  /\ UNCHANGED <<challenge, device, verifying, tokens, signedIn>>

PasskeyNext ==
  \/ \E c \in Challenges:
       \/ \E ceremony \in Ceremony: BeginCeremony(c, ceremony)
       \/ Sign(c) \/ Expire(c)
       \/ \E w \in Verifiers: LockChallenge(w, c)
  \/ \E w \in Verifiers:
       \/ RegisterCommit(w)
       \/ LockCredential(w) \/ IssueTokens(w) \/ LoginCommit(w)
       \/ Fail(w)
  \/ Revoke \/ RevokeByAdmin

PasskeySpec == PasskeyInit /\ [][PasskeyNext]_passkeyVars
------------------------------------------------------------------------------
(* A challenge is answered by one login at most, and then it is used.  Tokens *)
(* that were issued for an attempt that failed reach nobody.                 *)
OneLoginPerChallenge ==
  \A c \in Challenges:
    /\ signedIn[c] <= 1 /\ signedIn[c] <= tokens[c]
    /\ signedIn[c] = 1 => challenge[c].used

(* Nobody signs in with a passkey that has been revoked, also when it is      *)
(* revoked while the login waits for Keycloak; and no passkey comes back.     *)
RevokedSignsNobodyIn ==
  [][/\ signedIn' # signedIn => Active
     /\ Registered /\ credential.revoked => credential'.revoked]_passkeyVars

(* The counter that is kept grows with every login, whatever the order in     *)
(* which responses arrive: a copied authenticator is noticed.                *)
CounterNeverBack ==
  [][Registered => /\ credential'.sign_count >= credential.sign_count
                   /\ signedIn' # signedIn /\ counts =>
                        credential'.sign_count > credential.sign_count]_passkeyVars
==============================================================================
