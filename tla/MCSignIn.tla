------------------------------ MODULE MCSignIn ------------------------------
(* Signing in with a one-time code, with a passkey or with Google, for TLC.  *)
(* The three share no state of theirs: TLC explores each of them while the    *)
(* others rest in their initial state.                                      *)
EXTENDS OneTimeCodes, Passkeys, GoogleLogin, TLC

CONSTANTS g1, g2, a1, a2

(* The address of g1 changed from a1 to a2, which g2 had and has given up.    *)
MovedAddress == {[sub |-> g1, email |-> a1], [sub |-> g1, email |-> a2],
                 [sub |-> g2, email |-> a2]}
TwoGoogles == {g1, g2}
TwoAddresses == {a1, a2}

CodesRest == keys = <<Missing, Missing, Missing>> /\ drawn = 0 /\ now = 0
PasskeysRest == ~counts /\ \A c \in Challenges: challenge[c] = NoChallenge
GoogleRests == /\ \A k \in Accounts: address[k] = NoAddress
               /\ \A w \in Logins: login[w] = NoLogin

MCInit == Init /\ PasskeyInit /\ GoogleInit
MCNext ==
  \/ PasskeysRest /\ GoogleRests /\ Next /\ UNCHANGED <<passkeyVars, googleVars>>
  \/ CodesRest /\ GoogleRests /\ PasskeyNext /\ UNCHANGED <<vars, googleVars>>
  \/ CodesRest /\ PasskeysRest /\ GoogleNext /\ UNCHANGED <<vars, passkeyVars>>
MCSpec == MCInit /\ [][MCNext]_<<vars, passkeyVars, googleVars>>

Symmetry == Permutations(Workers) \cup Permutations(Verifiers)
=============================================================================
