----------------------------- MODULE OneTimeCodes -----------------------------
(***************************************************************************)
(* The one-time codes sent to ONE e-mail address.  They live in three keys *)
(* of the cache: the code, the count of wrong entries and the cool-down.    *)
(* Every cache call is atomic, nothing else is: a request is cut before    *)
(* each of them.                                                           *)
(*                                                                         *)
(* Login, the change of an address (which checks and consumes a code of    *)
(* the old and one of the new address) and the request of a code for the    *)
(* new address all go through verify_otp(consume=False), and through       *)
(* consume_otp once the work the code was entered for is done.              *)
(*                                                                         *)
(* Left out: two codes drawn at random that happen to be equal.            *)
(***************************************************************************)
EXTENDS Integers, FiniteSets, Combinatorics

CONSTANTS
  Workers,      \* web workers
  MaxCodes,     \* bound: codes that may be drawn
  MaxAttempts,  \* settings.OTP_MAX_ATTEMPTS
  CodeTTL,      \* settings.OTP_TTL_SECONDS
  CoolDown,     \* settings.OTP_COOLDOWN_SECONDS
  MaxTime       \* bound on the clock

VARIABLES
  now,       \* the cache's clock
  code,      \* otp:{email}:code
  attempts,  \* otp:{email}:attempts
  cooldown,  \* otp:{email}:cooldown
  drawn,     \* how many codes were drawn; the n-th is the number n
  mailbox,   \* codes that reached the user
  logins,    \* logins[c]: how often the work c was entered for was done
  spent,     \* codes a request has used and consumed to the end
  wrong,     \* wrong entries since the counter was last reset
  call       \* call[w]: the request worker w is serving

keys == <<code, attempts, cooldown>>
history == <<logins, spent, wrong>>
vars == <<now, keys, drawn, mailbox, history, call>>

Codes == 1..MaxCodes
WrongCode == 0

ASSUME CodesAssumption ==
  /\ IsFiniteSet(Workers)
  /\ MaxCodes \in Nat /\ MaxAttempts \in Nat \ {0} /\ MaxTime \in Nat
  /\ CodeTTL \in Nat \ {0} /\ CoolDown \in Nat \ {0}

(* A key of the cache: missing, or a value that lives until a given time.   *)
Missing == [value |-> 0, until |-> 0]
Key(value, ttl) == [value |-> value, until |-> now + ttl]
Live(key) == key.until > now

Idle == [at |-> "idle"]
Call ==
  {Idle}
  \cup [at: {"drawn", "code_set", "attempts_set"}, code: Codes]
  \cup [at: {"read", "accepted", "logged_in", "code_gone", "attempts_gone"},
        entry: Codes \cup {WrongCode}, stored: Codes]
  \cup [at: {"wrong"}, seen: 0..(MaxAttempts - 1)]

Init ==
  /\ now = 0
  /\ code = Missing /\ attempts = Missing /\ cooldown = Missing
  /\ drawn = 0 /\ mailbox = {}
  /\ logins = [c \in Codes |-> 0] /\ spent = {} /\ wrong = 0
  /\ call = [w \in Workers |-> Idle]

Finish(w) == call' = [call EXCEPT ![w] = Idle]
Advance(w, step) == call' = [call EXCEPT ![w].at = step]
------------------------------------------------------------------------------
(* send_otp: the cool-down is tested, then three keys are set one by one.   *)
SendCheck(w) ==
  /\ call[w] = Idle /\ drawn < MaxCodes
  /\ ~Live(cooldown)
  /\ drawn' = drawn + 1
  /\ call' = [call EXCEPT ![w] = [at |-> "drawn", code |-> drawn + 1]]
  /\ UNCHANGED <<now, keys, mailbox, history>>

SendCode(w) ==
  /\ call[w].at = "drawn"
  /\ code' = Key(call[w].code, CodeTTL)
  /\ Advance(w, "code_set")
  /\ UNCHANGED <<now, attempts, cooldown, drawn, mailbox, history>>

SendAttempts(w) ==
  /\ call[w].at = "code_set"
  /\ attempts' = Key(0, CodeTTL)
  /\ wrong' = 0
  /\ Advance(w, "attempts_set")
  /\ UNCHANGED <<now, code, cooldown, drawn, mailbox, logins, spent>>

(* The mail is sent last; the request fails when the mail server does.      *)
SendCoolDown(w) ==
  /\ call[w].at = "attempts_set"
  /\ cooldown' = Key(1, CoolDown)
  /\ mailbox' \in {mailbox, mailbox \cup {call[w].code}}
  /\ Finish(w)
  /\ UNCHANGED <<now, code, attempts, drawn, history>>
------------------------------------------------------------------------------
(* verify_otp: two reads, then the counter is written with the value read   *)
(* plus one.  A request that finds no code is refused at once.              *)
VerifyRead(w, entry) ==
  /\ call[w] = Idle
  /\ Live(code)
  /\ call' = [call EXCEPT ![w] = [at |-> "read", entry |-> entry,
                                  stored |-> code.value]]
  /\ UNCHANGED <<now, keys, drawn, mailbox, history>>

BugAttemptsSeen == 0                         \* a counter that is never read
AttemptsSeen == IF Live(attempts) THEN attempts.value ELSE 0

BugTooMany == AttemptsSeen > MaxAttempts     \* one wrong entry too many
TooMany == AttemptsSeen >= MaxAttempts

VerifyCompare(w) ==
  /\ call[w].at = "read"
  /\ IF TooMany THEN Finish(w)
     ELSE IF call[w].entry = call[w].stored THEN Advance(w, "accepted")
     ELSE call' = [call EXCEPT ![w] = [at |-> "wrong", seen |-> AttemptsSeen]]
  /\ UNCHANGED <<now, keys, drawn, mailbox, history>>

CountWrong(w) ==
  /\ call[w].at = "wrong"
  /\ attempts' = Key(call[w].seen + 1, CodeTTL)
  /\ wrong' = wrong + 1
  /\ Finish(w)
  /\ UNCHANGED <<now, code, cooldown, drawn, mailbox, logins, spent>>
------------------------------------------------------------------------------
(* What the code was entered for: Keycloak's token exchange, or the new     *)
(* address in Keycloak and in the database.                                 *)
Succeed(w) ==
  /\ call[w].at = "accepted"
  /\ logins' = [logins EXCEPT ![call[w].stored] = @ + 1]
  /\ Advance(w, "logged_in")
  /\ UNCHANGED <<now, keys, drawn, mailbox, spent, wrong>>

(* Keycloak refuses or is down: the code is kept.                           *)
KeepCode(w) ==
  /\ call[w].at = "accepted"
  /\ Finish(w)
  /\ UNCHANGED <<now, keys, drawn, mailbox, history>>

(* A code of the present address is checked and kept before one is sent to   *)
(* the new address, and used with that one later.                           *)
OnlyChecked(w) ==
  /\ call[w].at = "accepted"
  /\ Finish(w)
  /\ UNCHANGED <<now, keys, drawn, mailbox, history>>

(* consume_otp: three deletions, whatever the keys hold by now.             *)
BugConsumeCode(w) == /\ call[w].at = "logged_in"   \* the code is left alone
                     /\ Advance(w, "code_gone")
                     /\ UNCHANGED <<now, keys, drawn, mailbox, history>>
ConsumeCode(w) ==
  /\ call[w].at = "logged_in"
  /\ code' = Missing
  /\ Advance(w, "code_gone")
  /\ UNCHANGED <<now, attempts, cooldown, drawn, mailbox, history>>

ConsumeAttempts(w) ==
  /\ call[w].at = "code_gone"
  /\ attempts' = Missing
  /\ wrong' = 0
  /\ Advance(w, "attempts_gone")
  /\ UNCHANGED <<now, code, cooldown, drawn, mailbox, logins, spent>>

ConsumeCoolDown(w) ==
  /\ call[w].at = "attempts_gone"
  /\ cooldown' = Missing
  /\ spent' = spent \cup {call[w].stored}
  /\ Finish(w)
  /\ UNCHANGED <<now, code, attempts, drawn, mailbox, logins, wrong>>

(* Time passes; a counter that expires is as good as reset.                 *)
Tick ==
  /\ now < MaxTime
  /\ now' = now + 1
  /\ wrong' = IF attempts.until > now' THEN wrong ELSE 0
  /\ UNCHANGED <<keys, drawn, mailbox, logins, spent, call>>

Next ==
  \/ \E w \in Workers:
       \/ SendCheck(w) \/ SendCode(w) \/ SendAttempts(w) \/ SendCoolDown(w)
       \/ \E entry \in mailbox \cup {WrongCode}: VerifyRead(w, entry)
       \/ VerifyCompare(w) \/ CountWrong(w)
       \/ Succeed(w) \/ KeepCode(w) \/ OnlyChecked(w)
       \/ ConsumeCode(w) \/ ConsumeAttempts(w) \/ ConsumeCoolDown(w)
  \/ Tick

Spec == Init /\ [][Next]_vars
------------------------------------------------------------------------------
(* The keys hold a code and a count, and a request remembers what its kind  *)
(* of request has read.                                                     *)
TypeOK ==
  /\ now \in 0..MaxTime
  /\ code \in [value: Codes \cup {0}, until: Nat]
  /\ attempts \in [value: 0..MaxAttempts, until: Nat]
  /\ cooldown \in [value: {0, 1}, until: Nat]
  /\ drawn \in 0..MaxCodes /\ mailbox \subseteq 1..drawn
  /\ logins \in [Codes -> Nat] /\ spent \subseteq Codes /\ wrong \in Nat
  /\ call \in [Workers -> Call]

(* A code that a request has used to its end is not in the cache any more,  *)
(* and no request puts it back: entering it again later never works.        *)
SpentCodeGone == code.value \notin spent

(* The counter loses updates: a request that read it long ago sets it back. *)
(* It still bounds the wrong entries, by all the ways in which W requests   *)
(* can overlap (5 for two requests and two attempts, 2 for a single one).   *)
WrongEntriesLimited ==
  LET W == Cardinality(Workers)
  IN wrong < choose(MaxAttempts + W, W)

(* "xoá cache để mã chỉ dùng được một lần": a code works once.              *)
UsedOnce == \A c \in Codes: logins[c] <= 1
==============================================================================
