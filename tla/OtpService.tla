------------------------------ MODULE OtpService ------------------------------
(***************************************************************************)
(* The one-time codes of the Node service: auth/otp.js over the table      *)
(* auth_otps of auth/store.js, as /signup, /login, /verify-otp and         *)
(* /resend-otp of auth/routes.js call it.                                  *)
(*                                                                         *)
(* Every query is awaited, so the handlers of several requests interleave  *)
(* between any two queries.  Each query names one e-mail address and       *)
(* nothing relates two addresses, so the module has one account: one row,  *)
(* which the program keys by e-mail alone.                                 *)
(*                                                                         *)
(* Codes are numbered in the order of generateOtpCode: two codes differ,   *)
(* and a code is its hash.  Sending the mail changes no state.             *)
(***************************************************************************)
EXTENDS Integers, FiniteSets

CONSTANTS
    Requests,       \* concurrent invocations of the handlers
    MaxAttempts,    \* OTP_MAX_ATTEMPTS
    Expiry,         \* OTP_EXPIRY_MINUTES, in ticks
    Cooldown,       \* OTP_RESEND_COOLDOWN_SECONDS, in ticks
    MaxCodes,       \* bound: codes generated
    MaxTime         \* bound: ticks of the clock

ASSUME OtpConstants ==
    /\ IsFiniteSet(Requests)
    /\ MaxAttempts \in Nat \ {0}
    /\ Expiry \in Nat
    /\ Cooldown \in Nat
    /\ MaxCodes \in Nat
    /\ MaxTime \in Nat

Codes == 1 .. MaxCodes

Wrong == 0      \* a submitted code that is none of those issued so far

VARIABLES
    auth_otps,  \* the row of the account, or NoRow
    now,        \* Date.now()
    issued,     \* how many codes have been generated
    handler,    \* handler[r] = where request r stands and what it has loaded
    guesses,    \* guesses[c] = wrong guesses that were counted against code c
    successes,  \* successes[c] = verifications that succeeded with code c
    signed      \* codes for which a token has been signed

vars == <<auth_otps, now, issued, handler, guesses, successes, signed>>

-----------------------------------------------------------------------------
Row(code, expires, left, sent) ==
    [otp_hash |-> code, expires_at |-> expires, attempts_left |-> left,
     last_sent_at |-> sent]

\* No row: it has no attempt left and the code of no submission.
NoRow == Row(-1, 0, 0, 0)

Idle == [pc |-> "idle"]

Init ==
    /\ auth_otps = NoRow
    /\ now = 0
    /\ issued = 0
    /\ handler = [r \in Requests |-> Idle]
    /\ guesses = [c \in Codes |-> 0]
    /\ successes = [c \in Codes |-> 0]
    /\ signed = {}

Goto(r, state) == handler' = [handler EXCEPT ![r] = state]

Tick ==
    /\ now < MaxTime
    /\ now' = now + 1
    /\ UNCHANGED <<auth_otps, issued, handler, guesses, successes, signed>>

-----------------------------------------------------------------------------
\* issueOtp reads the row.  Only /resend-otp asks for the cooldown.
StartIssue(r, enforceCooldown) ==
    /\ handler[r] = Idle
    /\ Goto(r, [pc |-> "issue", cool |-> enforceCooldown, existing |-> auth_otps])
    /\ UNCHANGED <<auth_otps, now, issued, guesses, successes, signed>>

\* Lines 39-41.
CoolingDown(k) ==
    k.cool /\ k.existing # NoRow /\ now - k.existing.last_sent_at < Cooldown

RefuseIssue(r) ==
    /\ handler[r].pc = "issue"
    /\ CoolingDown(handler[r])
    /\ Goto(r, Idle)
    /\ UNCHANGED <<auth_otps, now, issued, guesses, successes, signed>>

\* Mutant of GenerateCode: while a code is stored, it is sent again.
GenerateCodeOnce(r) ==
    LET k == handler[r]
        c == IF k.existing # NoRow THEN k.existing.otp_hash ELSE issued + 1
    IN  /\ k.pc = "issue"
        /\ ~CoolingDown(k)
        /\ issued < MaxCodes
        /\ issued' = IF c > issued THEN c ELSE issued
        /\ Goto(r, [pc |-> "set", cool |-> k.cool,
                    row |-> Row(c, now + Expiry, MaxAttempts, now)])
        /\ UNCHANGED <<auth_otps, now, guesses, successes, signed>>

GenerateCode(r) ==
    LET k == handler[r] IN
    /\ k.pc = "issue"
    /\ ~CoolingDown(k)
    /\ issued < MaxCodes
    /\ issued' = issued + 1
    /\ Goto(r, [pc |-> "set", cool |-> k.cool,
                row |-> Row(issued + 1, now + Expiry, MaxAttempts, now)])
    /\ UNCHANGED <<auth_otps, now, guesses, successes, signed>>

\* setOtp: INSERT ... ON CONFLICT (email) DO UPDATE of all the columns.
SetOtp(r) ==
    /\ handler[r].pc = "set"
    /\ auth_otps' = handler[r].row
    /\ Goto(r, Idle)
    /\ UNCHANGED <<now, issued, guesses, successes, signed>>

-----------------------------------------------------------------------------
\* verifyOtp reads the row.
StartVerify(r, code) ==
    /\ handler[r] = Idle
    /\ auth_otps # NoRow
    /\ Goto(r, [pc |-> "check", record |-> auth_otps, submitted |-> code])
    /\ UNCHANGED <<auth_otps, now, issued, guesses, successes, signed>>

\* Mutant of Unusable: the attempts left are not looked at.
UnusableIfExpired(record) == now > record.expires_at

\* Mutant of Unusable: a code is dropped at its deadline.
UnusableAtDeadline(record) == now >= record.expires_at \/ record.attempts_left <= 0

\* Lines 78 and 83.
Unusable(record) == now > record.expires_at \/ record.attempts_left <= 0

RefuseVerify(r) ==
    /\ handler[r].pc = "check"
    /\ Unusable(handler[r].record)
    /\ Goto(r, [pc |-> "clear", code |-> handler[r].record.otp_hash])
    /\ UNCHANGED <<auth_otps, now, issued, guesses, successes, signed>>

\* Lines 88-98: the code submitted is compared with the one loaded.
Compare(r) ==
    LET k == handler[r] IN
    /\ k.pc = "check"
    /\ ~Unusable(k.record)
    /\ Goto(r, [pc |-> IF k.submitted = k.record.otp_hash
                       THEN "consume" ELSE "decrement",
                code |-> k.record.otp_hash])
    /\ UNCHANGED <<auth_otps, now, issued, guesses, successes, signed>>

\* attempts_left = GREATEST(0, attempts_left - 1): no change where no row is.
Decremented(row) ==
    Row(row.otp_hash, row.expires_at,
        IF row.attempts_left > 0 THEN row.attempts_left - 1 ELSE 0,
        row.last_sent_at)

\* decrementOtpAttempts, on the row that the account has now, and line 99.
Decrement(r) ==
    LET c == handler[r].code IN
    /\ handler[r].pc = "decrement"
    /\ auth_otps' = Decremented(auth_otps)
    /\ guesses' = [guesses EXCEPT ![c] = @ + 1]
    /\ Goto(r, IF Decremented(auth_otps).attempts_left <= 0
               THEN [pc |-> "clear", code |-> c] ELSE Idle)
    /\ UNCHANGED <<now, issued, successes, signed>>

\* clearOtp of a verification that fails (lines 79, 84 and 100): whatever code
\* the row has by now is removed, not the code that was loaded.
ClearOtp(r) ==
    /\ handler[r].pc = "clear"
    /\ auth_otps' = NoRow
    /\ Goto(r, Idle)
    /\ UNCHANGED <<now, issued, guesses, successes, signed>>

\* Mutant of Consume: the row is left to be overwritten by the next code.
ConsumeKept(r) ==
    LET c == handler[r].code IN
    /\ handler[r].pc = "consume"
    /\ successes' = [successes EXCEPT ![c] = @ + 1]
    /\ Goto(r, [pc |-> "sign", code |-> c])
    /\ UNCHANGED <<auth_otps, now, issued, guesses, signed>>

\* clearOtp of a verification that succeeds (line 92).
Consume(r) ==
    LET c == handler[r].code IN
    /\ handler[r].pc = "consume"
    /\ auth_otps' = NoRow
    /\ successes' = [successes EXCEPT ![c] = @ + 1]
    /\ Goto(r, [pc |-> "sign", code |-> c])
    /\ UNCHANGED <<now, issued, guesses, signed>>

\* markUserVerified (line 93), and the token of the route.
SignToken(r) ==
    /\ handler[r].pc = "sign"
    /\ signed' = signed \cup {handler[r].code}
    /\ Goto(r, Idle)
    /\ UNCHANGED <<auth_otps, now, issued, guesses, successes>>

\* A query is rejected, or the service stops.
Fail(r) ==
    /\ handler[r] # Idle
    /\ Goto(r, Idle)
    /\ UNCHANGED <<auth_otps, now, issued, guesses, successes, signed>>

Step(r) ==
    \/ \E cool \in BOOLEAN : StartIssue(r, cool)
    \/ RefuseIssue(r)
    \/ GenerateCode(r)
    \/ SetOtp(r)
    \/ \E code \in {Wrong} \cup 1 .. issued : StartVerify(r, code)
    \/ RefuseVerify(r)
    \/ Compare(r)
    \/ Decrement(r)
    \/ ClearOtp(r)
    \/ Consume(r)
    \/ SignToken(r)
    \/ Fail(r)

Next == Tick \/ \E r \in Requests : Step(r)

Spec == Init /\ [][Next]_vars

-----------------------------------------------------------------------------
Rows == [otp_hash : Codes, expires_at : Nat, attempts_left : 0 .. MaxAttempts,
         last_sent_at : Nat] \cup {NoRow}

HandlerStates ==
    {Idle}
    \cup [pc : {"issue"}, cool : BOOLEAN, existing : Rows]
    \cup [pc : {"set"}, cool : BOOLEAN, row : Rows \ {NoRow}]
    \cup [pc : {"check"}, record : Rows \ {NoRow}, submitted : {Wrong} \cup Codes]
    \cup [pc : {"consume", "decrement", "clear", "sign"}, code : Codes]

\* Type invariant of the row, the clock, the handlers and the counts.
TypeOK ==
    /\ auth_otps \in Rows
    /\ now \in 0 .. MaxTime
    /\ issued \in 0 .. MaxCodes
    /\ handler \in [Requests -> HandlerStates]
    /\ guesses \in [Codes -> Nat]
    /\ successes \in [Codes -> Nat]
    /\ signed \subseteq Codes

\* The quota of a code survives concurrency but for one guess per further
\* request: those that loaded the row before the last attempt was taken off.
GuessesBounded ==
    \A c \in Codes : guesses[c] <= MaxAttempts - 1 + Cardinality(Requests)

\* A code succeeds at most once per request that had loaded it before the first
\* success deleted it; a later submission of it finds nothing.
SuccessesBounded ==
    \A c \in Codes :
        /\ successes[c] <= Cardinality(Requests)
        /\ successes[c] > 0 => auth_otps.otp_hash # c

\* A code that enters the table has never been tried: neither a slow setOtp
\* nor a resend brings back a code that was guessed at, used or cleared.
StoredCodeIsNew ==
    [][\A c \in Codes :
         auth_otps'.otp_hash = c /\ auth_otps.otp_hash # c
           => guesses[c] = 0 /\ successes[c] = 0]_vars

\* A code that could still be used is removed only by a request that had loaded
\* another one (lines 74-79: the row was replaced meanwhile).  Whoever loaded
\* the code itself, however late its queries come and whatever happened in
\* between, removes it only past its deadline, without attempts, or used.
RemovedByCauseOrStale ==
    [][auth_otps # NoRow /\ auth_otps' = NoRow
         => \/ now > auth_otps.expires_at
            \/ auth_otps.attempts_left <= 0
            \/ successes'[auth_otps.otp_hash] > 0
            \/ \E r \in Requests :
                 /\ handler[r].pc \in {"clear", "consume"}
                 /\ handler'[r].pc # handler[r].pc
                 /\ handler[r].code # auth_otps.otp_hash]_vars

-----------------------------------------------------------------------------
\* Statements of the documents that overlapping requests refute; the README
\* says how.  None of them is checked.

\* "Max: 3 tries" (AUTH_README line 51): no code is tried wrongly more often.
QuotaHolds == \A c \in Codes : guesses[c] <= MaxAttempts

\* "Your single-use verification code" (mailer.js line 59).
SingleUse == \A c \in Codes : successes[c] <= 1

\* "Remove OTP after successful use or expiration" (store.js line 217), or when
\* its attempts are used up: a code is not removed for the sake of another one.
RemovedForCause ==
    [][auth_otps # NoRow /\ auth_otps' = NoRow
         => \/ now > auth_otps.expires_at
            \/ auth_otps.attempts_left <= 0
            \/ successes'[auth_otps.otp_hash] > 0]_vars

=============================================================================
