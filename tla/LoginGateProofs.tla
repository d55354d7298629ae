--------------------------- MODULE LoginGateProofs ---------------------------
(***************************************************************************)
(* Proofs about the route /login, for any number of requests, addresses,   *)
(* failures and any times and limits.  First the lockout by itself: that   *)
(* the two columns agree is inductive, and the bound on the failures       *)
(* counts, with those recorded, the requests that are past the check or    *)
(* that have loaded a user without a lock.  Then the same behind the rate  *)
(* limiter, whose restarts end all handlers at once; and what the limiter  *)
(* lets in, by counting the admissions of the current and the last window. *)
(***************************************************************************)
EXTENDS LoginGate, FiniteSetTheorems, SequenceTheorems, TLAPS

\* A request in state k may record a failure without any further look at the
\* lock and without resetting the columns first.
MayFail(k) ==
    \/ k.pc \in {"compare", "record"}
    \/ k.pc = "check" /\ k.lockedUntil = 0

InFlight == {r \in Requests : MayFail(handler[r])}

FailuresToCome ==
    failed_login_attempts + Cardinality(InFlight)
        <= MaxFailures - 1 + Cardinality(Requests)

IInv == TypeOK /\ LockedIffFailed /\ FailuresToCome

-----------------------------------------------------------------------------
\* The type invariant and the agreement of the columns are inductive.
LEMMA ColumnsStep ==
    TypeOK /\ LockedIffFailed /\ [Next]_vars => TypeOK' /\ LockedIffFailed'
<1> SUFFICES ASSUME TypeOK, LockedIffFailed, [Next]_vars
             PROVE  TypeOK' /\ LockedIffFailed'
  OBVIOUS
<1> USE LockoutConstants DEF TypeOK
<1>1. CASE UNCHANGED vars
  BY <1>1 DEF vars, LockedIffFailed
<1>2. CASE Tick
  BY <1>2 DEF Tick, LockedIffFailed
<1>3. ASSUME NEW r \in Requests, Step(r) PROVE TypeOK' /\ LockedIffFailed'
  <2>1. handler[r] \in HandlerStates
    OBVIOUS
  <2>2. \A p \in {"idle", "expired", "compare", "succeed"} :
          [pc |-> p] \in HandlerStates
    BY DEF HandlerStates
  <2>3. CASE ReadLock(r)
    BY <2>3 DEF ReadLock, Goto, HandlerStates, LockedIffFailed
  <2>4. CASE CheckLock(r)
    <3>1. handler' \in [Requests -> HandlerStates]
      BY <2>2, <2>4 DEF CheckLock, Goto, Idle
    <3> QED  BY <2>4, <3>1 DEF CheckLock, LockedIffFailed
  <2>5. CASE ResetExpired(r) \/ ResetFailedLogins(r) \/ MarkUserVerified(r)
    <3>1. handler' \in [Requests -> HandlerStates]
      BY <2>2, <2>5 DEF ResetExpired, ResetFailedLogins, MarkUserVerified,
         Goto, Idle
    <3>2. now' = now /\ Reset
      BY <2>5 DEF ResetExpired, ResetFailedLogins, MarkUserVerified
    <3> QED  BY <3>1, <3>2 DEF Reset, LockedIffFailed
  <2>6. CASE WrongPassword(r)
    <3>1. [pc |-> "record", lockoutUntil |-> now + LockTime] \in HandlerStates
      BY DEF HandlerStates
    <3> QED  BY <2>6, <3>1 DEF WrongPassword, Goto, LockedIffFailed
  <2>7. CASE RecordFailedLogin(r)
    <3>1. handler[r].lockoutUntil \in Nat \ {0}
      BY <2>1, <2>7 DEF RecordFailedLogin, HandlerStates
    <3>2. handler' \in [Requests -> HandlerStates]
      BY <2>2, <2>7 DEF RecordFailedLogin, Goto, Idle
    <3> QED  BY <2>7, <3>1, <3>2 DEF RecordFailedLogin, Failed, LockedIffFailed
  <2>8. CASE RightPassword(r)
    BY <2>2, <2>8 DEF RightPassword, Goto, LockedIffFailed
  <2>9. CASE Fail(r)
    BY <2>2, <2>9 DEF Fail, Goto, Idle, LockedIffFailed
  <2> QED  BY <1>3, <2>3, <2>4, <2>5, <2>6, <2>7, <2>8, <2>9 DEF Step, Continue
<1> QED  BY <1>1, <1>2, <1>3 DEF Next

\* A set of requests is finite and counts no more than a larger one.
LEMMA Counts ==
    ASSUME NEW S \in SUBSET Requests
    PROVE  /\ IsFiniteSet(S)
           /\ Cardinality(S) \in Nat
           /\ Cardinality(Requests) \in Nat
           /\ Cardinality(S) <= Cardinality(Requests)
           /\ \A T \in SUBSET S : Cardinality(T) <= Cardinality(S)
BY LockoutConstants, FS_Subset, FS_CardinalityType

\* A step keeps the failures had and to come in bounds.
LEMMA FailuresStep == IInv /\ [Next]_vars => FailuresToCome'
<1> SUFFICES ASSUME IInv, [Next]_vars
             PROVE  failed_login_attempts' + Cardinality(InFlight')
                      <= MaxFailures - 1 + Cardinality(Requests)
  BY DEF FailuresToCome
<1> DEFINE G == InFlight
           H == InFlight'
           Bounded == failed_login_attempts' + Cardinality(H)
                        <= MaxFailures - 1 + Cardinality(Requests)
<1>0. /\ TypeOK
      /\ TypeOK'
      /\ LockedIffFailed
      /\ handler \in [Requests -> HandlerStates]
      /\ failed_login_attempts \in Nat
      /\ failed_login_attempts' \in Nat
      /\ MaxFailures \in Nat \ {0}
      /\ failed_login_attempts + Cardinality(G)
           <= MaxFailures - 1 + Cardinality(Requests)
  BY ColumnsStep, LockoutConstants DEF IInv, TypeOK, FailuresToCome
<1>1. /\ G \in SUBSET Requests
      /\ H = {s \in Requests : MayFail(handler'[s])}
  BY DEF InFlight
<1>2. H \in SUBSET Requests
  BY <1>1
<1>3. /\ Cardinality(G) \in Nat
      /\ Cardinality(H) \in Nat
      /\ Cardinality(H) <= Cardinality(Requests)
      /\ Cardinality(Requests) \in Nat
      /\ IsFiniteSet(G)
      /\ \A T \in SUBSET G : Cardinality(T) <= Cardinality(G)
  <2> HIDE DEF G, H
  <2> QED  BY <1>1, <1>2, Counts
\* Nothing is recorded, and no request joins those in flight.
<1>4. ASSUME failed_login_attempts' <= failed_login_attempts,
             \A s \in Requests : MayFail(handler'[s]) => MayFail(handler[s])
      PROVE  Bounded
  <2>1. H \in SUBSET G
    BY <1>1, <1>4 DEF InFlight
  <2> HIDE DEF G, H
  <2> QED  BY <1>0, <1>3, <1>4, <2>1
\* Fewer failures than those for a lock: whoever is in flight, they fit.
<1>5. ASSUME failed_login_attempts' < MaxFailures PROVE Bounded
  <2> HIDE DEF G, H
  <2> QED  BY <1>0, <1>3, <1>5
<1>6. ASSUME UNCHANGED vars \/ Tick PROVE Bounded
  BY <1>0, <1>4, <1>6 DEF vars, Tick
<1>7. ASSUME NEW r \in Requests, Step(r) PROVE Bounded
  <2> HIDE DEF G, H
  <2>1. ASSUME NEW st, Goto(r, st), failed_login_attempts' = failed_login_attempts,
               MayFail(st) => MayFail(handler[r])
        PROVE  Bounded
    BY <1>0, <1>4, <2>1 DEF Goto
  <2>2. CASE ReadLock(r)
    <3>1. CASE locked_until = 0
      BY <1>0, <1>5, <2>2, <3>1 DEF ReadLock, LockedIffFailed, TypeOK
    <3>2. CASE locked_until # 0
      <4>1. ~MayFail([pc |-> "check", lockedUntil |-> locked_until])
        BY <3>2 DEF MayFail
      <4> QED  BY <2>1, <2>2, <4>1 DEF ReadLock
    <3> QED  BY <3>1, <3>2
  <2>3. CASE CheckLock(r)
    <3>1. handler[r].pc = "check" /\ handler[r].lockedUntil \in Nat
      BY <1>0, <2>3 DEF CheckLock, HandlerStates
    <3>2. PICK st : /\ Goto(r, st)
                    /\ st.pc \in {"idle", "expired", "compare"}
                    /\ st.pc = "compare" => ~(handler[r].lockedUntil > 0)
      BY <2>3 DEF CheckLock, Idle
    <3>3. MayFail(st) => MayFail(handler[r])
      BY <3>1, <3>2 DEF MayFail
    <3> QED  BY <2>1, <2>3, <3>2, <3>3 DEF CheckLock
  <2>4. CASE ResetExpired(r) \/ ResetFailedLogins(r) \/ MarkUserVerified(r)
    BY <1>0, <1>5, <2>4 DEF ResetExpired, ResetFailedLogins, MarkUserVerified,
       Reset
  <2>5. CASE WrongPassword(r)
    BY <2>1, <2>5 DEF WrongPassword, MayFail
  <2>6. CASE RecordFailedLogin(r)
    <3>1. failed_login_attempts' = failed_login_attempts + 1
      BY <2>6 DEF RecordFailedLogin, Failed
    <3>2. r \in G
      BY <2>6 DEF G, InFlight, MayFail, RecordFailedLogin
    <3>3. \A s \in Requests : handler'[s] = IF s = r THEN Idle ELSE handler[s]
      BY <1>0, <2>6 DEF RecordFailedLogin, Goto
    <3>4. H \in SUBSET (G \ {r})
      BY <1>1, <3>3 DEF G, InFlight, MayFail, Idle
    <3>5. Cardinality(G \ {r}) = Cardinality(G) - 1
      BY <1>3, <3>2, FS_RemoveElement
    <3>6. Cardinality(H) <= Cardinality(G \ {r})
      BY <1>1, <3>4, Counts
    <3> QED  BY <1>0, <1>3, <3>1, <3>5, <3>6
  <2>7. CASE RightPassword(r)
    BY <2>1, <2>7 DEF RightPassword, MayFail
  <2>8. CASE Fail(r)
    BY <2>1, <2>8 DEF Fail, MayFail, Idle
  <2> QED  BY <1>7, <2>2, <2>3, <2>4, <2>5, <2>6, <2>7, <2>8 DEF Step, Continue
<1> QED  BY <1>6, <1>7 DEF Next

\* The inductive invariant holds at the start and is kept by every step.
LEMMA Initially == Init => IInv
<1> SUFFICES ASSUME Init PROVE IInv
  OBVIOUS
<1>1. TypeOK /\ LockedIffFailed
  BY LockoutConstants DEF Init, TypeOK, LockedIffFailed, HandlerStates, Idle
<1>2. InFlight = {}
  BY DEF Init, InFlight, MayFail, Idle
<1>3. Cardinality(InFlight) = 0 /\ Cardinality(Requests) \in Nat
  BY <1>2, LockoutConstants, FS_EmptySet, FS_CardinalityType
<1> QED  BY <1>1, <1>3, LockoutConstants DEF IInv, FailuresToCome, Init

LEMMA Invariance == Spec => []IInv
<1>1. Init => IInv
  BY Initially
<1>2. IInv /\ [Next]_vars => IInv'
  BY ColumnsStep, FailuresStep DEF IInv
<1> QED  BY <1>1, <1>2, PTL DEF Spec

-----------------------------------------------------------------------------
\* The type invariant, and the agreement of the counter and the lock, for every
\* number of concurrent requests.
THEOREM CounterAndLockAgree == Spec => [](TypeOK /\ LockedIffFailed)
<1>1. IInv => TypeOK /\ LockedIffFailed
  BY DEF IInv
<1> QED  BY <1>1, Invariance, PTL

LEMMA InvImpliesBound == IInv => FailuresBounded
<1> SUFFICES ASSUME IInv PROVE FailuresBounded
  OBVIOUS
<1>1. InFlight \in SUBSET Requests
  BY DEF InFlight
<1>2. Cardinality(InFlight) \in Nat /\ Cardinality(Requests) \in Nat
  BY <1>1, Counts
<1> QED  BY <1>2, LockoutConstants DEF IInv, TypeOK, FailuresToCome, FailuresBounded

\* No account collects more failures than those for its lock and one for each
\* further concurrent request.
THEOREM FailuresStayBounded == Spec => []FailuresBounded
BY InvImpliesBound, Invariance, PTL

-----------------------------------------------------------------------------
\* Behind the rate limiter: a request let in takes the step ReadLock, and a
\* restart only ends handlers.
LEMMA GateInvariance == GateSpec => []IInv
<1>1. GateInit => IInv
  BY Initially DEF GateInit
<1>2. IInv /\ [GateNext]_gateVars => IInv'
  <2> SUFFICES ASSUME IInv, [GateNext]_gateVars PROVE IInv'
    OBVIOUS
  <2>1. CASE [Next]_vars
    BY <2>1, ColumnsStep, FailuresStep DEF IInv
  <2>2. CASE Restart
    <3>1. TypeOK' /\ LockedIffFailed'
      BY <2>2 DEF Restart, IInv, TypeOK, LockedIffFailed, HandlerStates, Idle
    <3>2. InFlight' = {}
      BY <2>2 DEF Restart, InFlight, MayFail, Idle
    <3>3. Cardinality(InFlight') = 0 /\ Cardinality(InFlight) \in Nat
      BY <3>2, Counts, FS_EmptySet DEF InFlight
    <3>4. FailuresToCome'
      BY <2>2, <3>3, Counts, LockoutConstants DEF Restart, IInv, TypeOK, FailuresToCome
    <3> QED
      BY <3>1, <3>4 DEF IInv
  <2> QED
    BY <2>1, <2>2 DEF GateNext, RefuseIp, RefuseEmail, NoEmail, Admit, Next, Step, gateVars
<1> QED
  BY <1>1, <1>2, PTL DEF GateSpec

\* Lock and counter agree, and the failures are bounded, behind the rate limiter
\* and through any number of restarts.
THEOREM LockoutBehindGate == GateSpec => [](LockedIffFailed /\ FailuresBounded)
<1>1. IInv => LockedIffFailed /\ FailuresBounded
  BY InvImpliesBound DEF IInv
<1> QED
  BY <1>1, GateInvariance, PTL

-----------------------------------------------------------------------------
\* The window of the account's bucket begins at Start.
Start == emailBucket.resetAt - WindowTime

\* The admissions from time a to time b.
Between(a, b) == {i \in DOMAIN admitted : a <= admitted[i] /\ admitted[i] <= b}

\* How many of the requests that a bucket has counted were let in.
LetIn(count) == IF count > MaxPerEmail THEN MaxPerEmail ELSE count

\* Nothing was let in after the window of the bucket; in it, what the bucket
\* has counted; and in the stretch of time before it, as long as a window, no
\* more than a quota.
WindowInv ==
    /\ now \in 0 .. MaxTime
    /\ GateTypeOK
    /\ Start <= now
    /\ \A i \in DOMAIN admitted :
          admitted[i] <= now /\ admitted[i] <= emailBucket.resetAt
    /\ Cardinality(Between(Start, emailBucket.resetAt)) = LetIn(emailBucket.count)
    /\ Cardinality(Between(Start - WindowTime, Start - 1)) <= MaxPerEmail

LEMMA Admissions ==
    ASSUME GateTypeOK, NEW S \in SUBSET DOMAIN admitted
    PROVE  /\ IsFiniteSet(S)
           /\ Cardinality(S) \in Nat
           /\ \A T \in SUBSET S : Cardinality(T) <= Cardinality(S)
<1>1. DOMAIN admitted = 1 .. Len(admitted) /\ Len(admitted) \in Nat
  BY DEF GateTypeOK
<1>2. IsFiniteSet(DOMAIN admitted)
  BY <1>1, FS_Interval
<1> QED
  BY <1>2, FS_Subset, FS_CardinalityType

\* A bucket after a request, by the window it is in.
LEMMA CountedBucket ==
    ASSUME WindowInv
    PROVE  LET b == Counted(emailBucket, MaxPerEmail) IN
           /\ b \in [count : 0 .. MaxPerEmail + 1, resetAt : Int]
           /\ now > emailBucket.resetAt =>
                 b.count = 1 /\ b.resetAt = now + WindowTime
           /\ now <= emailBucket.resetAt =>
                 /\ b.resetAt = emailBucket.resetAt
                 /\ b.count = Capped(emailBucket.count + 1, MaxPerEmail)
BY GateConstants DEF Counted, Capped, WindowInv, GateTypeOK

LEMMA Appended ==
    ASSUME NEW S, NEW s \in Seq(S), NEW e \in S
    PROVE  /\ Append(s, e) \in Seq(S)
           /\ DOMAIN Append(s, e) = DOMAIN s \cup {Len(s) + 1}
           /\ Len(s) + 1 \notin DOMAIN s
           /\ Append(s, e)[Len(s) + 1] = e
           /\ \A i \in DOMAIN s : Append(s, e)[i] = s[i]
<1>1. DOMAIN s = 1 .. Len(s) /\ Len(s) \in Nat
  OBVIOUS
<1>2. DOMAIN Append(s, e) = 1 .. Len(s) + 1
  OBVIOUS
<1> QED
  BY <1>1, <1>2, AppendProperties

\* A request that is refused or let in keeps the invariant.
LEMMA WindowStep ==
    ASSUME WindowInv, UNCHANGED now,
           ipBucket' \in [Ips -> [count : 0 .. MaxPerIp + 1, resetAt : Int]],
           emailBucket' = Counted(emailBucket, MaxPerEmail),
           \/ EmailPasses /\ admitted' = Append(admitted, now)
           \/ ~EmailPasses /\ UNCHANGED admitted
    PROVE  WindowInv'
<1> DEFINE D == DOMAIN admitted
           n == Len(admitted) + 1
           b == emailBucket
<1>0. /\ WindowTime \in Nat /\ MaxPerEmail \in Nat \ {0} /\ MaxTime \in Nat
      /\ b.count \in 0 .. MaxPerEmail + 1 /\ b.resetAt \in Int /\ now \in 0 .. MaxTime
      /\ admitted \in Seq(0 .. MaxTime)
  BY GateConstants, LockoutConstants DEF WindowInv, GateTypeOK
<1>7. /\ EmailPasses => admitted' = Append(admitted, now)
      /\ ~EmailPasses => admitted' = admitted
  OBVIOUS
<1>8. /\ Append(admitted, now) \in Seq(0 .. MaxTime)
      /\ DOMAIN Append(admitted, now) = D \cup {n} /\ n \notin D
      /\ Append(admitted, now)[n] = now
      /\ \A i \in D : Append(admitted, now)[i] = admitted[i]
  BY <1>0, Appended
<1>1. GateTypeOK'
  <2>1. admitted' \in Seq(0 .. MaxTime)
    BY <1>0, <1>7, <1>8, Zenon
  <2> QED
    BY <2>1, CountedBucket DEF GateTypeOK
<1>2. /\ EmailPasses => /\ DOMAIN admitted' = D \cup {n} /\ n \notin D
                         /\ admitted'[n] = now
                         /\ \A i \in D : admitted'[i] = admitted[i]
      /\ ~EmailPasses => DOMAIN admitted' = D /\ admitted' = admitted
  BY <1>7, <1>8, Zenon
<1>9. \A i \in DOMAIN admitted' :
         (i \in D /\ admitted'[i] = admitted[i]) \/ admitted'[i] = now
  BY <1>2, Zenon
<1>3. \A i \in D : admitted[i] \in Int /\ admitted[i] <= now /\ admitted[i] <= b.resetAt
  BY <1>0 DEF WindowInv
<1>4. EmailPasses <=> emailBucket'.count <= MaxPerEmail
  BY DEF EmailPasses
\* The window goes on.
<1>5. CASE now <= b.resetAt
  <2> DEFINE In == Between(Start, b.resetAt)
  <2>1. emailBucket'.resetAt = b.resetAt /\ Start' = Start
        /\ emailBucket'.count = Capped(b.count + 1, MaxPerEmail)
    BY <1>5, CountedBucket DEF Start
  <2>2. \A i \in DOMAIN admitted' : admitted'[i] <= now /\ admitted'[i] <= b.resetAt
    BY <1>0, <1>3, <1>5, <1>9
  <2>3. Between(Start - WindowTime, Start - 1)' = Between(Start - WindowTime, Start - 1)
    BY <1>0, <1>2, <2>1 DEF Between, WindowInv, Start
  <2>4. CASE EmailPasses
    <3>1. Between(Start, b.resetAt)' = In \cup {n}
      BY <1>0, <1>2, <1>5, <2>1, <2>4 DEF Between, WindowInv, Start
    <3>2. IsFiniteSet(In) /\ n \notin In
      BY <1>2, <2>4, Admissions DEF Between, WindowInv
    <3>3. Cardinality(Between(Start, b.resetAt)') = Cardinality(In) + 1
      BY <3>1, <3>2, FS_AddElement
    <3>4. Cardinality(In) = LetIn(b.count)
      BY DEF WindowInv
    <3>5. LetIn(b.count) + 1 = LetIn(emailBucket'.count)
      BY <1>0, <1>4, <2>1, <2>4 DEF LetIn, Capped
    <3>6. Cardinality(Between(Start, b.resetAt)') = LetIn(emailBucket'.count)
      BY <3>3, <3>4, <3>5
    <3> QED
      BY <1>0, <1>1, <2>1, <2>2, <2>3, <3>6 DEF WindowInv
  <2>5. CASE ~EmailPasses
    <3>1. Between(Start, b.resetAt)' = In
      BY <1>2, <2>1, <2>5 DEF Between
    <3>2. LetIn(b.count) = LetIn(emailBucket'.count)
      BY <1>0, <1>4, <2>1, <2>5 DEF LetIn, Capped
    <3> QED
      BY <1>0, <1>1, <2>1, <2>2, <2>3, <3>1, <3>2 DEF WindowInv
  <2> QED
    BY <2>4, <2>5
\* A new window begins, with this request, which is let in.
<1>6. CASE now > b.resetAt
  <2>1. emailBucket'.count = 1 /\ emailBucket'.resetAt = now + WindowTime /\ Start' = now
    BY <1>0, <1>6, CountedBucket DEF Start
  <2>2. EmailPasses
    BY <1>0, <1>4, <2>1
  <2>3. \A i \in DOMAIN admitted' : admitted'[i] <= now /\ admitted'[i] <= emailBucket'.resetAt
    BY <1>0, <1>3, <1>9, <2>1
  <2>10. /\ DOMAIN admitted' = D \cup {n} /\ n \notin D
         /\ admitted'[n] = now
         /\ \A i \in D : admitted'[i] = admitted[i]
    BY <1>2, <2>2, Zenon
  <2>4. Between(Start, emailBucket.resetAt)' = {n}
    BY <1>0, <1>3, <1>6, <2>1, <2>10 DEF Between
  <2>5. Between(Start - WindowTime, Start - 1)' \subseteq Between(Start, b.resetAt)
    BY <1>0, <1>3, <1>6, <2>1, <2>10 DEF Between, Start
  <2>6. Cardinality(Between(Start - WindowTime, Start - 1)')
          <= Cardinality(Between(Start, b.resetAt))
    BY <2>5, Admissions DEF Between, WindowInv
  <2>7. Cardinality(Between(Start, b.resetAt)) <= MaxPerEmail
        /\ Cardinality(Between(Start, b.resetAt)) \in Nat
    BY <1>0 DEF WindowInv, LetIn
  <2>8. Cardinality(Between(Start - WindowTime, Start - 1)') \in Nat
    BY <2>5, Admissions DEF Between, WindowInv
  <2>9. Cardinality(Between(Start, emailBucket.resetAt)') = 1
    BY <2>4, FS_Singleton, Zenon
  <2>11. LetIn(emailBucket.count)' = 1
    BY <1>0, <2>1 DEF LetIn
  <2> QED
    BY <1>0, <1>1, <2>1, <2>3, <2>6, <2>7, <2>8, <2>9, <2>11 DEF WindowInv
<1> QED
  BY <1>0, <1>5, <1>6

LEMMA WindowInvariance == GateSpec => []WindowInv
<1> USE GateConstants, LockoutConstants
<1>1. GateInit => WindowInv
  <2> SUFFICES ASSUME GateInit PROVE WindowInv
    OBVIOUS
  <2>1. GateTypeOK /\ now \in 0 .. MaxTime /\ Start <= now /\ DOMAIN admitted = {}
    BY DEF GateInit, Init, GateTypeOK, NoBucket, Start
  <2>2. /\ Between(Start, emailBucket.resetAt) = {}
        /\ Between(Start - WindowTime, Start - 1) = {}
    BY <2>1 DEF Between
  <2>3. LetIn(emailBucket.count) = 0
    BY DEF GateInit, NoBucket, LetIn
  <2>4. /\ Cardinality(Between(Start, emailBucket.resetAt)) = 0
        /\ Cardinality(Between(Start - WindowTime, Start - 1)) = 0
    BY <2>2, FS_EmptySet, Zenon
  <2> QED
    BY <2>1, <2>3, <2>4 DEF WindowInv
<1>2. WindowInv /\ [GateNext]_gateVars => WindowInv'
  <2> SUFFICES ASSUME WindowInv, [GateNext]_gateVars PROVE WindowInv'
    OBVIOUS
  <2>1. CASE UNCHANGED <<emailBucket, admitted>> /\ now' \in now .. MaxTime
             /\ ipBucket' \in [Ips -> [count : 0 .. MaxPerIp + 1, resetAt : Int]]
    <3>1. Start' = Start /\ \A a, b : Between(a, b)' = Between(a, b)
      BY <2>1 DEF Start, Between
    <3>2. \A i \in DOMAIN admitted : admitted[i] \in Int
      BY DEF WindowInv, GateTypeOK
    <3> QED
      BY <2>1, <3>1, <3>2 DEF WindowInv, GateTypeOK, Start, LetIn, Between
  <2>2. ASSUME NEW ip \in Ips, CountIp(ip)
        PROVE  ipBucket' \in [Ips -> [count : 0 .. MaxPerIp + 1, resetAt : Int]]
    <3>2. now \in Int /\ ipBucket[ip] \in [count : 0 .. MaxPerIp + 1, resetAt : Int]
      BY DEF WindowInv, GateTypeOK
    <3>1. Counted(ipBucket[ip], MaxPerIp) \in [count : 0 .. MaxPerIp + 1, resetAt : Int]
      BY <3>2 DEF Counted, Capped
    <3> QED
      BY <2>2, <3>1 DEF CountIp, WindowInv, GateTypeOK
  <2>3. ASSUME NEW ip \in Ips, RefuseIp(ip) \/ NoEmail(ip) PROVE WindowInv'
    BY <2>1, <2>2, <2>3 DEF RefuseIp, NoEmail, vars, WindowInv
  <2>4. ASSUME NEW ip \in Ips, RefuseEmail(ip) PROVE WindowInv'
    BY <2>2, <2>4, WindowStep DEF RefuseEmail, vars
  <2>5. ASSUME NEW r \in Requests, NEW ip \in Ips, Admit(r, ip) PROVE WindowInv'
    BY <2>2, <2>5, WindowStep DEF Admit, ReadLock
  <2>6. ASSUME NEW r \in Requests, Continue(r), UNCHANGED buckets PROVE WindowInv'
    <3>1. UNCHANGED now
      BY <2>6 DEF Continue, CheckLock, ResetExpired, WrongPassword, RecordFailedLogin,
         RightPassword, ResetFailedLogins, MarkUserVerified, Fail
    <3> QED
      BY <2>1, <2>6, <3>1 DEF buckets, WindowInv, GateTypeOK
  <2>7. CASE Tick /\ UNCHANGED buckets
    BY <2>1, <2>7 DEF Tick, buckets, WindowInv, GateTypeOK
  <2>8. CASE Restart
    <3>1. GateTypeOK' /\ now' \in 0 .. MaxTime /\ Start' <= now' /\ DOMAIN admitted' = {}
      BY <2>8 DEF Restart, GateTypeOK, NoBucket, Start, WindowInv
    <3>2. /\ Between(Start, emailBucket.resetAt)' = {}
          /\ Between(Start - WindowTime, Start - 1)' = {}
      BY <3>1 DEF Between
    <3>3. LetIn(emailBucket.count)' = 0
      BY <2>8 DEF Restart, NoBucket, LetIn
    <3>4. /\ Cardinality(Between(Start, emailBucket.resetAt)') = 0
          /\ Cardinality(Between(Start - WindowTime, Start - 1)') = 0
      BY <3>2, FS_EmptySet, Zenon
    <3> QED
      BY <3>1, <3>3, <3>4 DEF WindowInv
  <2>9. CASE UNCHANGED gateVars
    BY <2>1, <2>9 DEF gateVars, vars, buckets, WindowInv, GateTypeOK
  <2> QED
    BY <2>3, <2>4, <2>5, <2>6, <2>7, <2>8, <2>9 DEF GateNext
<1> QED
  BY <1>1, <1>2, PTL DEF GateSpec

\* From one restart to the next, no stretch of time as long as a window lets in
\* more than two quotas for the account, at any edge of the fixed windows.
THEOREM AdmissionsStayBounded == GateSpec => []AdmissionsBounded
<1>1. WindowInv => AdmissionsBounded
  <2> SUFFICES ASSUME WindowInv PROVE AdmissionsBounded
    OBVIOUS
  <2> DEFINE S == {i \in DOMAIN admitted : admitted[i] >= now - WindowTime}
             L == Between(Start - WindowTime, Start - 1)
             N == Between(Start, emailBucket.resetAt)
  <2>1. /\ WindowTime \in Nat /\ MaxPerEmail \in Nat \ {0} /\ now \in Nat /\ Start \in Int
        /\ emailBucket.count \in Nat /\ emailBucket.resetAt \in Int
        /\ \A i \in DOMAIN admitted : admitted[i] \in Int
        /\ GateTypeOK
    BY GateConstants, LockoutConstants DEF WindowInv, GateTypeOK, Start
  <2>2. S \subseteq L \cup N
    BY <2>1 DEF WindowInv, Between, Start
  <2>3. IsFiniteSet(L) /\ IsFiniteSet(N) /\ L \cup N \in SUBSET DOMAIN admitted
    BY <2>1, Admissions DEF Between
  <2> HIDE DEF S, L, N
  <2>4. Cardinality(S) <= Cardinality(L \cup N) /\ Cardinality(S) \in Nat
    BY <2>1, <2>2, <2>3, Admissions
  <2>5. Cardinality(L \cup N) = Cardinality(L) + Cardinality(N) - Cardinality(L \cap N)
    BY <2>3, FS_Union
  <2>6. /\ Cardinality(L) \in Nat /\ Cardinality(N) \in Nat /\ Cardinality(L \cap N) \in Nat
        /\ Cardinality(L \cup N) \in Nat
    BY <2>1, <2>3, Admissions
  <2>7. Cardinality(L) <= MaxPerEmail /\ Cardinality(N) <= MaxPerEmail
    BY <2>1 DEF L, N, WindowInv, LetIn
  <2>8. Cardinality(S) <= 2 * MaxPerEmail
    BY <2>1, <2>4, <2>5, <2>6, <2>7
  <2> QED
    BY <2>8 DEF S, AdmissionsBounded, AdmittedSince
<1> QED
  BY <1>1, WindowInvariance, PTL

\* Whoever is refused for the account has had the quota in the last window,
\* whatever was refused for an address or came without an account in between.
THEOREM RefusalsHadQuota == GateSpec => RefusedHadQuota
<1>1. ASSUME WindowInv, NEW ip \in Ips, RefuseEmail(ip)
      PROVE  AdmittedSince(now - WindowTime) >= MaxPerEmail
  <2> DEFINE S == {i \in DOMAIN admitted : admitted[i] >= now - WindowTime}
             N == Between(Start, emailBucket.resetAt)
  <2>1. /\ WindowTime \in Nat /\ MaxPerEmail \in Nat \ {0} /\ now \in Nat /\ Start \in Int
        /\ emailBucket.count \in 0 .. MaxPerEmail + 1 /\ emailBucket.resetAt \in Int
        /\ \A i \in DOMAIN admitted : admitted[i] \in Int
        /\ GateTypeOK
    BY <1>1, GateConstants, LockoutConstants DEF WindowInv, GateTypeOK, Start
  <2>2. ~(Counted(emailBucket, MaxPerEmail).count <= MaxPerEmail)
    BY <1>1 DEF RefuseEmail, EmailPasses
  <2>3. now <= emailBucket.resetAt /\ emailBucket.count >= MaxPerEmail
    BY <2>1, <2>2 DEF Counted, Capped
  <2>4. Cardinality(N) = MaxPerEmail
    BY <1>1, <2>1, <2>3 DEF WindowInv, LetIn
  <2>5. N \subseteq S
    BY <2>1, <2>3 DEF Between, Start
  <2> HIDE DEF N
  <2>6. Cardinality(N) <= Cardinality(S) /\ Cardinality(S) \in Nat
    BY <2>1, <2>5, Admissions
  <2> QED
    BY <2>1, <2>4, <2>6 DEF AdmittedSince
<1>2. WindowInv /\ [GateNext]_gateVars =>
        [\A ip \in Ips :
            RefuseEmail(ip) => AdmittedSince(now - WindowTime) >= MaxPerEmail]_gateVars
  BY <1>1
<1> QED
  BY <1>2, WindowInvariance, PTL DEF GateSpec, RefusedHadQuota

=============================================================================
