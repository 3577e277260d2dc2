\* Codes: two attempts; a code lives for two ticks, the cool-down for one.
\* Passkeys: three challenges, two verifications at a time, two tries of a login.
\* Google: two logins at a time, two of its accounts, three users.
CONSTANTS
  Workers = {w1, w2, w3}
  MaxCodes = 2
  MaxAttempts = 2
  CodeTTL = 2
  CoolDown = 1
  MaxTime = 2
  Challenges = {c1, c2, c3}
  Verifiers = {v1, v2}
  MaxTokens = 2
  Accounts = {k1, k2, k3}
  Googles <- TwoGoogles
  Addresses <- TwoAddresses
  Claims <- MovedAddress
  Logins = {l1, l2}
  g1 = g1
  g2 = g2
  a1 = a1
  a2 = a2
  Nobody = Nobody
  NoAddress = NoAddress
SPECIFICATION MCSpec
SYMMETRY Symmetry
INVARIANTS SpentCodeGone WrongEntriesLimited OneLoginPerChallenge
PROPERTIES RevokedSignsNobodyIn CounterNeverBack SettledIdentityStays
\* The bounds on codes, time and challenges end every behaviour.
CHECK_DEADLOCK FALSE
