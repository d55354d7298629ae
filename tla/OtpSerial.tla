------------------------------ MODULE OtpSerial ------------------------------
(***************************************************************************)
(* The one-time codes when the requests of an account run one after the    *)
(* other: the situation that auth/test/auth.test.js exercises.  A request  *)
(* may still fail between two queries, and time passes between them.       *)
(***************************************************************************)
EXTENDS OtpService

\* No two requests run at once.
OneRequest == \A r, s \in Requests : r = s

\* A row stands for a usable code as long as it has attempts left.
Usable == auth_otps.attempts_left > 0

OneTime ==
    INSTANCE OneTimeCode
        WITH NoCode <- -1,
             live <- IF Usable THEN auth_otps.otp_hash ELSE -1,
             left <- auth_otps.attempts_left,
             deadline <- IF Usable THEN auth_otps.expires_at ELSE 0,
             time <- now,
             accepted <- {c \in Codes : successes[c] > 0}

\* Under OneRequest the service implements the one-time code: the exact quota,
\* one success, and no end of a code without a cause.
ImplementsOneTimeCode == OneTime!Spec

=============================================================================
