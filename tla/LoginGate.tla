------------------------------ MODULE LoginGate ------------------------------
(***************************************************************************)
(* The route /login of the Node service as a whole: the rate limiter of    *)
(* auth/routes.js lets a request in, or not, before the handlers of module *)
(* LoginLockout look at the account.                                       *)
(*                                                                         *)
(* The limiter runs to its end without an await.  Its buckets, one for     *)
(* each address a request comes from and one for the account, are in the   *)
(* memory of the process: a restart empties them, and ends the handlers,   *)
(* but leaves the columns of the account.                                  *)
(***************************************************************************)
EXTENDS LoginLockout, Sequences

CONSTANTS
    Ips,            \* addresses that requests come from
    WindowTime,     \* windowMs, in ticks
    MaxPerIp,
    MaxPerEmail

ASSUME GateConstants ==
    /\ WindowTime \in Nat
    /\ MaxPerIp \in Nat \ {0}
    /\ MaxPerEmail \in Nat \ {0}

VARIABLES
    ipBucket,       \* rateLimitBuckets: ip:login:<address>
    emailBucket,    \* rateLimitBuckets: email:login:<account>
    admitted        \* history: the times at which requests were let in, since the start

buckets == <<ipBucket, emailBucket, admitted>>
gateVars == <<vars, buckets>>

-----------------------------------------------------------------------------
\* No bucket is one whose window is over.
NoBucket == [count |-> 0, resetAt |-> -1]

GateInit ==
    /\ Init
    /\ ipBucket = [ip \in Ips |-> NoBucket]
    /\ emailBucket = NoBucket
    /\ admitted = <<>>

\* Counts are kept up to one past the limit: only that is ever asked.
Capped(n, max) == IF n > max THEN max + 1 ELSE n

\* Mutant of Counted: every request begins a new window.
CountedSliding(bucket, max) ==
    [count |-> IF now > bucket.resetAt THEN 1 ELSE Capped(bucket.count + 1, max),
     resetAt |-> now + WindowTime]

\* Mutant of Counted: a window is renewed at once when it is full.
CountedRenewing(bucket, max) ==
    IF now > bucket.resetAt \/ bucket.count > max
    THEN [count |-> 1, resetAt |-> now + WindowTime]
    ELSE [bucket EXCEPT !.count = Capped(@ + 1, max)]

\* The bucket after a request at this moment, which may begin a new window.
Counted(bucket, max) ==
    IF now > bucket.resetAt THEN [count |-> 1, resetAt |-> now + WindowTime]
    ELSE [bucket EXCEPT !.count = Capped(@ + 1, max)]

CountIp(ip) == ipBucket' = [ipBucket EXCEPT ![ip] = Counted(@, MaxPerIp)]

IpPasses(ip) == Counted(ipBucket[ip], MaxPerIp).count <= MaxPerIp

EmailPasses == Counted(emailBucket, MaxPerEmail).count <= MaxPerEmail

\* 429 for the address: the account's bucket is not touched.
RefuseIp(ip) ==
    /\ ~ IpPasses(ip)
    /\ CountIp(ip)
    /\ UNCHANGED <<vars, emailBucket, admitted>>

\* 429 for the account.
RefuseEmail(ip) ==
    /\ IpPasses(ip)
    /\ ~ EmailPasses
    /\ CountIp(ip)
    /\ emailBucket' = Counted(emailBucket, MaxPerEmail)
    /\ UNCHANGED <<vars, admitted>>

\* A request without an address of an account passes, and gets 400.
NoEmail(ip) ==
    /\ IpPasses(ip)
    /\ CountIp(ip)
    /\ UNCHANGED <<vars, emailBucket, admitted>>

\* The request is let in, and its handler reads the lock.
Admit(r, ip) ==
    /\ IpPasses(ip)
    /\ EmailPasses
    /\ CountIp(ip)
    /\ emailBucket' = Counted(emailBucket, MaxPerEmail)
    /\ admitted' = Append(admitted, now)
    /\ ReadLock(r)

\* resetRateLimits has the same effect on the buckets, in the tests.
Restart ==
    /\ handler' = [r \in Requests |-> Idle]
    /\ ipBucket' = [ip \in Ips |-> NoBucket]
    /\ emailBucket' = NoBucket
    /\ admitted' = <<>>
    /\ UNCHANGED <<failed_login_attempts, locked_until, now>>

GateNext ==
    \/ \E ip \in Ips : RefuseIp(ip) \/ RefuseEmail(ip) \/ NoEmail(ip)
    \/ \E r \in Requests, ip \in Ips : Admit(r, ip)
    \/ \E r \in Requests : Continue(r) /\ UNCHANGED buckets
    \/ Tick /\ UNCHANGED buckets
    \/ Restart

GateSpec == GateInit /\ [][GateNext]_gateVars

-----------------------------------------------------------------------------
\* Type invariant of the buckets and of the history.
GateTypeOK ==
    /\ ipBucket \in [Ips -> [count : 0 .. MaxPerIp + 1, resetAt : Int]]
    /\ emailBucket \in [count : 0 .. MaxPerEmail + 1, resetAt : Int]
    /\ admitted \in Seq(0 .. MaxTime)

AdmittedSince(t) == Cardinality({i \in DOMAIN admitted : admitted[i] >= t})

\* From the restart on, no stretch of time as long as a window lets in more
\* than the quota of two windows, those that it may overlap.
AdmissionsBounded ==
    AdmittedSince(now - WindowTime) <= 2 * MaxPerEmail

\* Whoever is refused for the account has had the quota: as many requests as
\* are allowed were let in during the last window, whatever was refused or came
\* without an account in between.
RefusedHadQuota ==
    [][\A ip \in Ips :
         RefuseEmail(ip) => AdmittedSince(now - WindowTime) >= MaxPerEmail]_gateVars

=============================================================================
