----------------------------- MODULE LoginLockout -----------------------------
(***************************************************************************)
(* The lockout of the Node service: the first factor of auth/routes.js     *)
(* (/login) over the columns failed_login_attempts and locked_until of the *)
(* table auth_users of auth/store.js.                                      *)
(*                                                                         *)
(* Every query and the comparison of the password are awaited, so the      *)
(* handlers of several requests interleave between any two of them.  As no *)
(* query relates two addresses, the module has one account, which exists.  *)
(* The second factor is the module OtpService; its success is here only as *)
(* the UPDATE of markUserVerified, which clears both columns.              *)
(***************************************************************************)
EXTENDS Integers, FiniteSets

CONSTANTS
    Requests,       \* concurrent invocations of the handlers
    Verifying,      \* those of them that may be a successful /verify-otp
    MaxFailures,    \* maxAttempts of recordFailedLogin
    LockTime,       \* lockoutMinutes, in ticks
    MaxTime         \* bound: ticks of the clock

ASSUME LockoutConstants ==
    /\ IsFiniteSet(Requests)
    /\ Verifying \subseteq Requests
    /\ MaxFailures \in Nat \ {0}
    /\ LockTime \in Nat \ {0}
    /\ MaxTime \in Nat

VARIABLES
    failed_login_attempts,
    locked_until,   \* 0 where there is no lock
    now,            \* Date.now()
    handler         \* handler[r] = where request r stands and what it has loaded

vars == <<failed_login_attempts, locked_until, now, handler>>

-----------------------------------------------------------------------------
Idle == [pc |-> "idle"]

Init ==
    /\ failed_login_attempts = 0
    /\ locked_until = 0
    /\ now = 0
    /\ handler = [r \in Requests |-> Idle]

Goto(r, state) == handler' = [handler EXCEPT ![r] = state]

Tick ==
    /\ now < MaxTime
    /\ now' = now + 1
    /\ UNCHANGED <<failed_login_attempts, locked_until, handler>>

\* isAccountLocked reads the user.
ReadLock(r) ==
    /\ handler[r] = Idle
    /\ Goto(r, [pc |-> "check", lockedUntil |-> locked_until])
    /\ UNCHANGED <<failed_login_attempts, locked_until, now>>

\* Mutant of CheckLock: an expired lock is not reset, as if the next success
\* would do.
CheckLockOnly(r) ==
    LET until == handler[r].lockedUntil IN
    /\ handler[r].pc = "check"
    /\ Goto(r, IF until > now THEN Idle ELSE [pc |-> "compare"])
    /\ UNCHANGED <<failed_login_attempts, locked_until, now>>

\* Lines 324-337: locked (423), an expired lock to reset, or no lock.
CheckLock(r) ==
    LET until == handler[r].lockedUntil IN
    /\ handler[r].pc = "check"
    /\ Goto(r, IF until > now THEN Idle
               ELSE [pc |-> IF until > 0 THEN "expired" ELSE "compare"])
    /\ UNCHANGED <<failed_login_attempts, locked_until, now>>

\* Mutant of Reset: the counter keeps counting.
UnlockOnly ==
    /\ locked_until' = 0
    /\ UNCHANGED failed_login_attempts

\* resetFailedLogins, and the same columns in markUserVerified.
Reset ==
    /\ failed_login_attempts' = 0
    /\ locked_until' = 0

ResetExpired(r) ==
    /\ handler[r].pc = "expired"
    /\ Reset
    /\ Goto(r, [pc |-> "compare"])
    /\ UNCHANGED now

\* comparePassword finds a wrong password; recordFailedLogin takes the time
\* before its UPDATE is executed.
WrongPassword(r) ==
    /\ handler[r].pc = "compare"
    /\ Goto(r, [pc |-> "record", lockoutUntil |-> now + LockTime])
    /\ UNCHANGED <<failed_login_attempts, locked_until, now>>

\* The UPDATE of recordFailedLogin: the columns on the right are the old ones.
Failed(until) ==
    /\ failed_login_attempts' = failed_login_attempts + 1
    /\ locked_until' = IF failed_login_attempts + 1 >= MaxFailures
                       THEN until ELSE locked_until

RecordFailedLogin(r) ==
    /\ handler[r].pc = "record"
    /\ Failed(handler[r].lockoutUntil)
    /\ Goto(r, Idle)
    /\ UNCHANGED now

\* comparePassword finds the right password (line 170 of the routes follows).
RightPassword(r) ==
    /\ handler[r].pc = "compare"
    /\ Goto(r, [pc |-> "succeed"])
    /\ UNCHANGED <<failed_login_attempts, locked_until, now>>

ResetFailedLogins(r) ==
    /\ handler[r].pc = "succeed"
    /\ Reset
    /\ Goto(r, Idle)
    /\ UNCHANGED now

\* verifyOtp has succeeded: markUserVerified does not look at the lock.
MarkUserVerified(r) ==
    /\ r \in Verifying
    /\ handler[r] = Idle
    /\ Reset
    /\ UNCHANGED <<now, handler>>

\* A query is rejected, or the service stops.
Fail(r) ==
    /\ handler[r] # Idle
    /\ Goto(r, Idle)
    /\ UNCHANGED <<failed_login_attempts, locked_until, now>>

\* What a request does once it has been let in.
Continue(r) ==
    \/ CheckLock(r) \/ ResetExpired(r)
    \/ WrongPassword(r) \/ RecordFailedLogin(r)
    \/ RightPassword(r) \/ ResetFailedLogins(r)
    \/ MarkUserVerified(r)
    \/ Fail(r)

Step(r) == ReadLock(r) \/ Continue(r)

Next == Tick \/ \E r \in Requests : Step(r)

Spec == Init /\ [][Next]_vars

-----------------------------------------------------------------------------
HandlerStates ==
    [pc : {"idle", "expired", "compare", "succeed"}]
    \cup [pc : {"check"}, lockedUntil : Nat]
    \cup [pc : {"record"}, lockoutUntil : Nat \ {0}]

\* Type invariant of the two columns, the clock and the handlers.
TypeOK ==
    /\ failed_login_attempts \in Nat
    /\ locked_until \in Nat
    /\ now \in 0 .. MaxTime
    /\ handler \in [Requests -> HandlerStates]

\* The two columns agree, whoever resets or records in between: the account has
\* a lock exactly if it has the failures for one.  So an account with too many
\* failures can never be left open, nor one without them be left locked.
LockedIffFailed ==
    locked_until > 0 <=> failed_login_attempts >= MaxFailures

\* The failures that an account can collect are those for the lock and one for
\* each further request that had passed the check before the lock was set.
FailuresBounded ==
    failed_login_attempts <= MaxFailures - 1 + Cardinality(Requests)

-----------------------------------------------------------------------------
\* A statement of the documents that other requests refute, and one that they
\* refute in part; the README says how.  Neither is checked.

\* "locks account for 15 minutes after 10 consecutive wrong password attempts"
\* (AUTH_README line 33): as long as a lock lasts, it is not lifted or shortened.
LockHolds ==
    [][locked_until > now => locked_until' >= locked_until]_vars

\* "Lock expired, reset if needed" (store.js line 332): what is reset has
\* expired; only a right password lifts a lock that lasts.
OnlySuccessUnlocks ==
    [][locked_until > now /\ locked_until' = 0
         => \E r \in Requests : handler[r].pc = "succeed"
                               /\ handler'[r] = Idle]_vars

=============================================================================
