---------------------------- MODULE SignInProofs ----------------------------
(***************************************************************************)
(* Proofs about the sign-in of the Python service, for any number of       *)
(* handlers and codes and any limits.  Types first; then that a lock has   *)
(* its wrong passwords behind it, and that a code which is accepted, from  *)
(* the row or from the cache, is not older than it may be.                 *)
(***************************************************************************)
EXTENDS SignIn, TLAPS

LEMMA Limits ==
    /\ MaxFailures \in Nat \ {0} /\ LockTime \in Nat /\ CodeTime \in Nat /\ PauseTime \in Nat
    /\ "none" \notin Codes /\ "none" \notin DevCodes
  BY SignInConstants

USE Limits

-----------------------------------------------------------------------------
\* What a handler carries, by the place where it is.
LEMMA Carried ==
    ASSUME NEW k \in HandlerStates
    PROVE  /\ k.at \in {"insert", "update", "query", "cache"} =>
                 k.code \in Codes \cup {"none"} /\ k.left \in Nat
           /\ k.at = "insert" => k.user \in {"password", "bare"} /\ k.then \in {"cache", "idle"}
           /\ k.at = "update" => k.then \in {"cache", "idle"} /\ k.counted \in BOOLEAN
           /\ k.at = "password" => k.failed \in Nat /\ k.locked \in Nat
           /\ k.at = "count" => k.failed \in Nat
           /\ k.at = "match" => k.input \in Codes \cup DevCodes /\ k.cached \in BOOLEAN /\ k.left \in Nat
  BY DEF HandlerStates

\* The handlers after a tick.
Later(k) ==
    CASE k.at = "password" -> [k EXCEPT !.locked = Less(@)]
      [] k.at \in {"insert", "update", "query", "cache", "match"} -> [k EXCEPT !.left = Less(@)]
      [] OTHER -> k

LEMMA LaterType ==
    ASSUME NEW k \in HandlerStates
    PROVE  /\ Later(k) \in HandlerStates
           /\ Later(k).at = k.at
           /\ k.at \in {"insert", "update", "query", "cache"} =>
                 Later(k).code = k.code /\ Later(k).left = Less(k.left)
           /\ k.at \in {"password", "count"} => Later(k).failed = k.failed
           /\ k.at = "match" =>
                 /\ Later(k).input = k.input
                 /\ Later(k).cached = k.cached
                 /\ Later(k).left = Less(k.left)
<1> DEFINE Code == Codes \cup {"none"}
<1>0. \A n \in Nat : Less(n) \in Nat
  BY DEF Less
<1>1. CASE k \in [at : {"idle"}] \cup [at : {"count"}, failed : Nat] \cup [at : {"clear"}, loaded : BOOLEAN]
  BY <1>1 DEF Later, HandlerStates
<1>2. CASE k \in [at : {"insert"}, user : {"password", "bare"}, code : Code, left : Nat,
                  then : {"cache", "idle"}]
  BY <1>0, <1>2 DEF Later, HandlerStates
<1>3. CASE k \in [at : {"update"}, counted : BOOLEAN, code : Code, left : Nat,
                  by : {"login", "resend", "request"}, then : {"cache", "idle"}]
  BY <1>0, <1>3 DEF Later, HandlerStates
<1>4. CASE k \in [at : {"query", "cache"}, code : Code, left : Nat]
  BY <1>0, <1>4 DEF Later, HandlerStates
<1>5. CASE k \in [at : {"password"}, failed : Nat, locked : Nat]
  BY <1>0, <1>5 DEF Later, HandlerStates
<1>6. CASE k \in [at : {"match"}, input : Codes \cup DevCodes, cached : BOOLEAN, left : Nat]
  BY <1>0, <1>6 DEF Later, HandlerStates
<1> QED
  BY <1>1, <1>2, <1>3, <1>4, <1>5, <1>6 DEF HandlerStates

LEMMA LaterKeeps ==
    ASSUME NEW k \in HandlerStates
    PROVE  /\ k.at \in {"insert", "update"} => Later(k).then = k.then
           /\ k.at = "clear" => Later(k) = k
<1>1. CASE k.at \in {"insert", "update"}
  <2>1. Later(k) = [k EXCEPT !.left = Less(@)]
    BY <1>1 DEF Later
  <2> QED
    BY <1>1, <2>1 DEF HandlerStates
<1>2. CASE k.at \notin {"insert", "update"}
  BY <1>2 DEF Later
<1> QED
  BY <1>1, <1>2

LEMMA TickStep ==
    ASSUME Tick
    PROVE  handler' = [h \in Handlers |-> Later(handler[h])]
  BY DEF Tick, Later

-----------------------------------------------------------------------------
LEMMA TypeStep == TypeOK /\ [Next]_vars => TypeOK'
<1> SUFFICES ASSUME TypeOK, [Next]_vars PROVE TypeOK'
  OBVIOUS
<1> USE DEF TypeOK
<1>1. CASE UNCHANGED vars
  BY <1>1 DEF vars
<1>2. ASSUME NEW h \in Handlers, NEW c \in Codes, NEW k, Issue(h, c, k),
             [k EXCEPT !.code = c] \in HandlerStates
      PROVE  /\ handler' \in [Handlers -> HandlerStates]
             /\ fresh' \in [Codes -> 0 .. CodeTime]
             /\ crossed' \in BOOLEAN
  BY <1>2 DEF Issue, Go
<1>3. ASSUME NEW h \in Handlers, NEW c \in Codes, FindNoUser(h, c) PROVE TypeOK'
  <2>1. CASE Issue(h, c, [at |-> "insert", user |-> "password", code |-> "none",
                          left |-> CodeTime, then |-> "cache"])
    BY <1>2, <1>3, <2>1 DEF FindNoUser, lockVars, HandlerStates
  <2>2. CASE Go(h, [at |-> "insert", user |-> "bare", code |-> "none", left |-> 0,
                    then |-> "idle"]) /\ UNCHANGED <<fresh, crossed>>
    BY <1>3, <2>2 DEF FindNoUser, Go, lockVars, HandlerStates
  <2> QED
    BY <1>3, <2>1, <2>2 DEF FindNoUser
<1>4. ASSUME NEW h \in Handlers, NEW c \in Codes, RightPassword(h, c) PROVE TypeOK'
  <2>1. CASE handler[h].locked > 0
    BY <1>4, <2>1 DEF RightPassword, Go, Idle, lockVars, HandlerStates
  <2>2. CASE ~(handler[h].locked > 0)
    <3>1. [at |-> "update", counted |-> handler[h].failed > 0, code |-> c,
           left |-> CodeTime, by |-> "login", then |-> "cache"] \in HandlerStates
      BY <1>4, Carried DEF RightPassword, HandlerStates
    <3> QED
      BY <1>2, <1>4, <2>2, <3>1 DEF RightPassword, lockVars
  <2> QED
    BY <2>1, <2>2
<1>5. ASSUME NEW h \in Handlers, NEW c \in Codes, ResendOtp(h, c) PROVE TypeOK'
  BY <1>2, <1>5 DEF ResendOtp, lockVars, HandlerStates
<1>6. ASSUME NEW h \in Handlers, NEW c \in Codes, RequestOtp(h, c) PROVE TypeOK'
  BY <1>2, <1>6 DEF RequestOtp, lockVars, HandlerStates
<1>7. ASSUME NEW h \in Handlers, NEW c \in Codes \cup DevCodes, TakeEntry(h, c) PROVE TypeOK'
  BY <1>7 DEF TakeEntry, Go, lockVars, codeVars, HandlerStates
<1>8. ASSUME NEW h \in Handlers, LoadUser(h) PROVE TypeOK'
  BY <1>8 DEF LoadUser, Go, lockVars, codeVars, HandlerStates
<1>9. ASSUME NEW h \in Handlers, WrongPassword(h) PROVE TypeOK'
  BY <1>9, Carried DEF WrongPassword, Go, lockVars, codeVars, HandlerStates
<1>10. ASSUME NEW h \in Handlers, InsertUser(h) PROVE TypeOK'
  <2>1. handler' \in [Handlers -> HandlerStates]
    BY <1>10, Carried DEF InsertUser, Go, Idle, HandlerStates
  <2>2. row' \in [code : Codes \cup {"none"}, left : Nat]
    BY <1>10, Carried DEF InsertUser
  <2> QED
    BY <1>10, <2>1, <2>2, Carried DEF InsertUser, lockVars
<1>11. ASSUME NEW h \in Handlers, WriteCache(h) PROVE TypeOK'
  BY <1>11, Carried DEF WriteCache, Go, Idle, lockVars, HandlerStates
<1>12. ASSUME NEW h \in Handlers, UpdateCode(h) PROVE TypeOK'
  <2>1. handler' \in [Handlers -> HandlerStates]
    BY <1>12, Carried DEF UpdateCode, Go, Idle, HandlerStates
  <2>2. row' \in [code : Codes \cup {"none"}, left : Nat]
    BY <1>12, Carried DEF UpdateCode
  <2>3. failed' \in 0 .. MaxFailures /\ wrong' \in 0 .. MaxFailures
    BY <1>12 DEF UpdateCode
  <2> QED
    BY <1>12, <2>1, <2>2, <2>3 DEF UpdateCode
<1>13. ASSUME NEW h \in Handlers, QueryUser(h) PROVE TypeOK'
  BY <1>13, Carried DEF QueryUser, Go, lockVars, codeVars, HandlerStates
<1>14. ASSUME NEW h \in Handlers, MatchCode(h) PROVE TypeOK'
  BY <1>14, Carried DEF MatchCode, Accepts, Go, Idle, lockVars, HandlerStates
<1>15. ASSUME NEW h \in Handlers, ClearCode(h) PROVE TypeOK'
  BY <1>15 DEF ClearCode, Go, Idle, NoCode, lockVars, HandlerStates
<1>16. ASSUME NEW h \in Handlers, CountFailure(h) PROVE TypeOK'
  BY <1>16, Carried DEF CountFailure, Go, Idle, codeVars, HandlerStates
<1>17. ASSUME NEW h \in Handlers, Fail(h) PROVE TypeOK'
  BY <1>17 DEF Fail, Go, Idle, lockVars, HandlerStates
<1>18. CASE Restart
  BY <1>18 DEF Restart, NoEntry, Idle, lockVars, HandlerStates
<1>19. CASE Tick
  <2>1. handler' \in [Handlers -> HandlerStates]
    BY <1>19, TickStep, LaterType
  <2>2. \A n \in Nat : Less(n) \in Nat
    BY DEF Less
  <2>4. locked' \in Nat
    BY <1>19, <2>2 DEF Tick
  <2>5. row' \in [code : Codes \cup {"none"}, left : Nat]
    BY <1>19, <2>2 DEF Tick
  <2>6. cache' \in [code : Codes \cup {"none"}, left : Nat, pause : Nat]
    BY <1>19, <2>2 DEF Tick
  <2>3. fresh' \in [Codes -> 0 .. CodeTime]
    BY <1>19 DEF Tick, Less
  <2> QED
    BY <1>19, <2>1, <2>3, <2>4, <2>5, <2>6 DEF Tick
<1> QED
  BY <1>1, <1>3, <1>4, <1>5, <1>6, <1>7, <1>8, <1>9, <1>10, <1>11, <1>12, <1>13, <1>14,
     <1>15, <1>16, <1>17, <1>18, <1>19 DEF Next, Step

\* The row, the cache, the counters and the handlers keep their types.
THEOREM TypeCorrect == Spec => []TypeOK
<1>1. Init => TypeOK
  <2> SUFFICES ASSUME Init PROVE TypeOK
    OBVIOUS
  <2>1. handler \in [Handlers -> HandlerStates]
    BY DEF Init, Idle, HandlerStates
  <2>2. fresh \in [Codes -> 0 .. CodeTime]
    BY DEF Init
  <2>3. /\ row \in [code : Codes \cup {"none"}, left : Nat]
        /\ cache \in [code : Codes \cup {"none"}, left : Nat, pause : Nat]
    BY DEF Init, NoCode, NoEntry
  <2>4. failed \in 0 .. MaxFailures /\ wrong \in 0 .. MaxFailures
    BY DEF Init
  <2> QED
    BY <2>1, <2>2, <2>3, <2>4 DEF Init, TypeOK
<1> QED
  BY <1>1, TypeStep, PTL DEF Spec

-----------------------------------------------------------------------------
\* No handler carries a count above that of the wrong passwords.
LockInv ==
    /\ LockNeedsFailures
    /\ \A h \in Handlers :
          handler[h].at \in {"password", "count"} => handler[h].failed <= wrong

LEMMA LockStep == TypeOK /\ LockInv /\ [Next]_vars => LockInv'
<1> SUFFICES ASSUME TypeOK, LockInv, [Next]_vars PROVE LockInv'
  OBVIOUS
<1> USE DEF LockInv, LockNeedsFailures, TypeOK
<1>1. CASE UNCHANGED vars
  BY <1>1 DEF vars
\* A handler that goes on without a count changes nothing.
<1>2. ASSUME NEW h \in Handlers, NEW k, k.at \notin {"password", "count"}, Go(h, k),
             UNCHANGED lockVars
      PROVE  LockInv'
  BY <1>2 DEF Go, lockVars
<1>3. ASSUME NEW h \in Handlers, LoadUser(h) PROVE LockInv'
  BY <1>3 DEF LoadUser, Go, lockVars
<1>4. ASSUME NEW h \in Handlers, WrongPassword(h) PROVE LockInv'
  BY <1>4 DEF WrongPassword, Go, lockVars
<1>5. ASSUME NEW h \in Handlers, CountFailure(h) PROVE LockInv'
  <2>1. handler[h].failed \in Nat /\ handler[h].failed <= wrong
    BY <1>5, Carried DEF CountFailure
  <2>2. wrong <= wrong' /\ wrong' \in Nat
    BY <1>5, <2>1 DEF CountFailure
  <2>3. (locked' > 0 => wrong' = MaxFailures) /\ failed' <= wrong'
    BY <1>5, <2>1 DEF CountFailure
  <2>4. \A g \in Handlers :
           handler'[g].at \in {"password", "count"} =>
              /\ handler'[g] = handler[g]
              /\ handler[g].at \in {"password", "count"}
              /\ handler[g].failed \in Nat
    BY <1>5, Carried DEF CountFailure, Go, Idle
  <2> QED
    BY <2>2, <2>3, <2>4
<1>6. ASSUME NEW h \in Handlers, UpdateCode(h) PROVE LockInv'
  <2>1. \A g \in Handlers :
           handler'[g].at \in {"password", "count"} => g # h /\ handler'[g] = handler[g]
    BY <1>6 DEF UpdateCode, Go, Idle
  <2>2. CASE wrong' = wrong
    <3>1. locked' = locked /\ failed' \in {0, failed}
      BY <1>6 DEF UpdateCode
    <3>2. (locked' > 0 => wrong' = MaxFailures) /\ failed' <= wrong'
      BY <2>2, <3>1
    <3>3. \A g \in Handlers :
             handler'[g].at \in {"password", "count"} => handler'[g].failed <= wrong
      BY <2>1
    <3> QED
      BY <2>2, <3>2, <3>3
  <2>3. CASE /\ failed' = 0 /\ locked = 0
             /\ \A g \in Handlers \ {h} : handler[g].at \notin {"password", "count"}
             /\ wrong' = 0
    BY <1>6, <2>1, <2>3 DEF UpdateCode
  <2> QED
    BY <1>6, <2>2, <2>3 DEF UpdateCode
<1>7. ASSUME NEW h \in Handlers, NEW c \in Codes,
             \/ FindNoUser(h, c) \/ RightPassword(h, c) \/ ResendOtp(h, c) \/ RequestOtp(h, c)
      PROVE  LockInv'
  <2>1. \E k : k.at \notin {"password", "count"} /\ Go(h, k)
    BY <1>7 DEF FindNoUser, RightPassword, ResendOtp, RequestOtp, Issue, Idle
  <2>2. UNCHANGED lockVars
    BY <1>7 DEF FindNoUser, RightPassword, ResendOtp, RequestOtp
  <2> QED
    BY <1>2, <2>1, <2>2
<1>8. ASSUME NEW h \in Handlers,
             \/ \E c \in Codes \cup DevCodes : TakeEntry(h, c)
             \/ InsertUser(h) \/ WriteCache(h) \/ QueryUser(h) \/ MatchCode(h)
             \/ ClearCode(h) \/ Fail(h)
      PROVE  LockInv'
  <2>1. \E k : k.at \notin {"password", "count"} /\ Go(h, k)
    BY <1>8 DEF TakeEntry, InsertUser, WriteCache, QueryUser, MatchCode, ClearCode, Fail, Idle
  <2>2. UNCHANGED lockVars
    BY <1>8 DEF TakeEntry, InsertUser, WriteCache, QueryUser, MatchCode, ClearCode, Fail
  <2> QED
    BY <1>2, <2>1, <2>2
<1>9. CASE Restart
  BY <1>9 DEF Restart, Idle, lockVars
<1>10. CASE Tick
  <2>1. locked' > 0 => locked > 0
    BY <1>10 DEF Tick, Less
  <2>2. \A h \in Handlers :
           handler'[h].at \in {"password", "count"} =>
              /\ handler[h].at \in {"password", "count"}
              /\ handler'[h].failed = handler[h].failed
    BY <1>10, TickStep, LaterType
  <2> QED
    BY <1>10, <2>1, <2>2 DEF Tick
<1> QED
  BY <1>1, <1>3, <1>4, <1>5, <1>6, <1>7, <1>8, <1>9, <1>10 DEF Next, Step

\* A locked account had as many wrong passwords as the limit says since the last
\* sign-in that met no other, and its count never says more than there were:
\* login_user loads, increments and writes back, and only forgets.
THEOREM LocksAreEarned == Spec => []LockNeedsFailures
<1>1. Init => LockInv
  BY DEF Init, LockInv, LockNeedsFailures, Idle
<1>2. LockInv => LockNeedsFailures
  BY DEF LockInv
<1> QED
  BY <1>1, <1>2, LockStep, TypeCorrect, PTL DEF Spec

-----------------------------------------------------------------------------
Dated(code, left) == code \in Codes => left <= fresh[code]

\* No copy of a code outlives its latest issue: not that of the row, not that of
\* the cache, none on its way to them, and not the entry that a verification took.
FreshInv ==
    /\ Dated(row.code, row.left)
    /\ Dated(cache.code, cache.left)
    /\ \A h \in Handlers :
          /\ handler[h].at \in {"insert", "update", "query", "cache"} =>
                Dated(handler[h].code, handler[h].left)
          /\ handler[h].at = "match" /\ handler[h].cached =>
                Dated(handler[h].input, handler[h].left)

LEMMA FreshStep == TypeOK /\ FreshInv /\ [Next]_vars => FreshInv'
<1> SUFFICES ASSUME TypeOK, FreshInv, [Next]_vars PROVE FreshInv'
  OBVIOUS
<1> USE DEF FreshInv, Dated, TypeOK
<1>1. CASE UNCHANGED vars
  BY <1>1 DEF vars
\* An issue makes its code last at least as long as any copy of it.
<1>2. ASSUME NEW h \in Handlers, NEW c \in Codes, NEW k, Go(h, k),
             fresh' = [fresh EXCEPT ![c] = CodeTime],
             k.at \in {"insert", "update", "query"}, k.code = c, k.left = CodeTime,
             UNCHANGED row,
             UNCHANGED cache \/ (cache'.code = c /\ cache'.left = CodeTime)
      PROVE  FreshInv'
  <2>1. \A d \in Codes : fresh[d] <= fresh'[d] /\ fresh'[d] \in Nat /\ fresh[d] \in Nat
    BY <1>2
  <2>2. fresh'[c] = CodeTime
    BY <1>2
  <2>3. handler'[h] = k /\ \A g \in Handlers \ {h} : handler'[g] = handler[g]
    BY <1>2 DEF Go
  <2>4. Dated(row.code, row.left)' /\ Dated(cache.code, cache.left)'
    BY <1>2, <2>1, <2>2
  <2>5. ASSUME NEW g \in Handlers \ {h},
               handler[g].at \in {"insert", "update", "query", "cache"}
        PROVE  Dated(handler[g].code, handler[g].left)'
    BY <2>1, <2>3, <2>5, Carried
  <2>6. ASSUME NEW g \in Handlers \ {h}, handler[g].at = "match", handler[g].cached
        PROVE  Dated(handler[g].input, handler[g].left)'
    BY <2>1, <2>3, <2>6, Carried
  <2> QED
    BY <1>2, <2>2, <2>3, <2>4, <2>5, <2>6
\* A handler that goes on without a code, or with the one it has.
<1>3. ASSUME NEW h \in Handlers, NEW k, Go(h, k), UNCHANGED fresh,
             k.at \in {"insert", "update", "query", "cache"} => Dated(k.code, k.left),
             k.at = "match" /\ k.cached => Dated(k.input, k.left),
             Dated(row.code, row.left)', Dated(cache.code, cache.left)'
      PROVE  FreshInv'
  BY <1>3 DEF Go
<1>4. ASSUME NEW h \in Handlers, NEW c \in Codes, FindNoUser(h, c) PROVE FreshInv'
  <2>1. CASE Issue(h, c, [at |-> "insert", user |-> "password", code |-> "none",
                          left |-> CodeTime, then |-> "cache"])
    BY <1>2, <1>4, <2>1 DEF FindNoUser, Issue
  <2>2. CASE Go(h, [at |-> "insert", user |-> "bare", code |-> "none", left |-> 0,
                    then |-> "idle"]) /\ UNCHANGED <<fresh, crossed>>
    BY <1>3, <1>4, <2>2 DEF FindNoUser
  <2> QED
    BY <1>4, <2>1, <2>2 DEF FindNoUser
<1>5. ASSUME NEW h \in Handlers, NEW c \in Codes, RightPassword(h, c) PROVE FreshInv'
  <2>1. CASE handler[h].locked > 0
    BY <1>3, <1>5, <2>1 DEF RightPassword, Idle
  <2>2. CASE ~(handler[h].locked > 0)
    BY <1>2, <1>5, <2>2 DEF RightPassword, Issue
  <2> QED
    BY <2>1, <2>2
<1>6. ASSUME NEW h \in Handlers, NEW c \in Codes, ResendOtp(h, c) PROVE FreshInv'
  BY <1>2, <1>6 DEF ResendOtp, Issue
<1>7. ASSUME NEW h \in Handlers, NEW c \in Codes, RequestOtp(h, c) PROVE FreshInv'
  BY <1>2, <1>7 DEF RequestOtp, Issue
<1>8. ASSUME NEW h \in Handlers, NEW c \in Codes \cup DevCodes, TakeEntry(h, c) PROVE FreshInv'
  BY <1>3, <1>8 DEF TakeEntry, codeVars
<1>9. ASSUME NEW h \in Handlers, InsertUser(h) PROVE FreshInv'
  BY <1>3, <1>9 DEF InsertUser, Idle
<1>10. ASSUME NEW h \in Handlers, UpdateCode(h) PROVE FreshInv'
  BY <1>3, <1>10 DEF UpdateCode, Idle
<1>11. ASSUME NEW h \in Handlers, WriteCache(h) PROVE FreshInv'
  BY <1>3, <1>11 DEF WriteCache, Idle
<1>12. ASSUME NEW h \in Handlers, QueryUser(h) PROVE FreshInv'
  BY <1>3, <1>12 DEF QueryUser, codeVars
<1>13. ASSUME NEW h \in Handlers, ClearCode(h) PROVE FreshInv'
  BY <1>3, <1>13 DEF ClearCode, Idle, NoCode
<1>14. ASSUME NEW h \in Handlers,
              \/ LoadUser(h) \/ WrongPassword(h) \/ CountFailure(h) \/ MatchCode(h) \/ Fail(h)
       PROVE  FreshInv'
  <2>1. \E k : k.at \in {"password", "count", "clear", "idle"} /\ Go(h, k)
    BY <1>14 DEF LoadUser, WrongPassword, CountFailure, MatchCode, Fail, Idle
  <2>2. UNCHANGED <<row, cache, fresh>>
    BY <1>14 DEF LoadUser, WrongPassword, CountFailure, MatchCode, Fail, codeVars
  <2> QED
    BY <1>3, <2>1, <2>2
<1>15. CASE Restart
  BY <1>15 DEF Restart, Idle, NoEntry
<1>16. CASE Tick
  <2>1. \A m, n \in Nat : m <= n => Less(m) <= Less(n)
    BY DEF Less
  <2>2. \A c \in Codes : fresh[c] \in Nat /\ fresh'[c] = Less(fresh[c])
    BY <1>16 DEF Tick
  <2>3. Dated(row.code, row.left)' /\ Dated(cache.code, cache.left)'
    <3>1. /\ row'.code = row.code /\ row'.left = Less(row.left)
          /\ cache'.code = cache.code /\ cache'.left = Less(cache.left)
      BY <1>16 DEF Tick
    <3> QED
      BY <2>1, <2>2, <3>1
  <2>4. ASSUME NEW h \in Handlers
        PROVE  /\ handler'[h].at \in {"insert", "update", "query", "cache"} =>
                     Dated(handler[h].code, handler[h].left)'
               /\ handler'[h].at = "match" /\ handler'[h].cached =>
                     Dated(handler[h].input, handler[h].left)'
    <3>1. handler'[h] = Later(handler[h]) /\ handler[h] \in HandlerStates
      BY <1>16, TickStep
    <3> QED
      BY <2>1, <2>2, <3>1, LaterType, Carried
  <2> QED
    BY <2>3, <2>4
<1> QED
  BY <1>1, <1>4, <1>5, <1>6, <1>7, <1>8, <1>9, <1>10, <1>11, <1>12, <1>13, <1>14, <1>15,
     <1>16 DEF Next, Step

LEMMA FreshInvariant == Spec => []FreshInv
<1>1. Init => FreshInv
  BY DEF Init, FreshInv, Dated, NoCode, NoEntry, Idle
<1> QED
  BY <1>1, FreshStep, TypeCorrect, PTL DEF Spec

\* A code that verify_otp accepts, from the row or from the cache and however
\* often, was issued no longer ago than a code is good for, but for the codes
\* that it accepts always.
THEOREM AcceptedCodesAreFresh == Spec => AcceptedIsFresh
<1>1. ASSUME TypeOK, FreshInv, [Next]_vars, NEW h \in Handlers,
             handler[h].at = "match", handler'[h].at = "clear"
      PROVE  handler[h].input \in DevCodes \/ fresh[handler[h].input] > 0
  <2>1. MatchCode(h)
    <3>2. ~Restart /\ ~Tick
      BY <1>1, TickStep, LaterType DEF Restart, Idle, TypeOK
    <3>3. CASE UNCHANGED vars
      BY <1>1, <3>3 DEF vars
    <3>4. ASSUME NEW g \in Handlers, NEW c \in Codes,
                 \/ FindNoUser(g, c) \/ RightPassword(g, c) \/ ResendOtp(g, c)
                 \/ RequestOtp(g, c)
          PROVE  FALSE
      BY <1>1, <3>4 DEF FindNoUser, RightPassword, ResendOtp, RequestOtp, Issue, Go, Idle, TypeOK
    <3>5. ASSUME NEW g \in Handlers,
                 \/ \E c \in Codes \cup DevCodes : TakeEntry(g, c)
                 \/ LoadUser(g) \/ WrongPassword(g) \/ InsertUser(g) \/ WriteCache(g)
                 \/ UpdateCode(g) \/ QueryUser(g) \/ ClearCode(g) \/ CountFailure(g) \/ Fail(g)
          PROVE  FALSE
      BY <1>1, <3>5 DEF TakeEntry, LoadUser, WrongPassword, InsertUser, WriteCache, UpdateCode, QueryUser,
         ClearCode, CountFailure, Fail, Go, Idle, TypeOK
    <3>6. ASSUME NEW g \in Handlers, MatchCode(g) PROVE g = h
      BY <1>1, <3>6 DEF MatchCode, Go, TypeOK
    <3> QED
      BY <1>1, <3>2, <3>3, <3>4, <3>5, <3>6 DEF Next, Step
  <2>2. Accepts(handler[h])
    BY <1>1, <2>1 DEF MatchCode, Go, Idle, TypeOK
  <2>3. handler[h].input \in Codes \cup DevCodes /\ handler[h].left \in Nat
    BY <1>1, Carried DEF TypeOK
  <2>4. CASE handler[h].cached
    BY <1>1, <2>2, <2>3, <2>4 DEF Accepts, FreshInv, Dated, TypeOK
  <2>5. CASE ~handler[h].cached
    BY <1>1, <2>2, <2>3, <2>5 DEF Accepts, FreshInv, Dated, TypeOK
  <2> QED
    BY <2>4, <2>5
<1>2. TypeOK /\ FreshInv /\ [Next]_vars =>
        [\A h \in Handlers :
            (handler[h].at = "match" /\ handler'[h].at = "clear") =>
                handler[h].input \in DevCodes \/ fresh[handler[h].input] > 0]_vars
  BY <1>1
<1> QED
  BY <1>2, TypeCorrect, FreshInvariant, PTL DEF Spec, AcceptedIsFresh

-----------------------------------------------------------------------------
\* A handler on its way to write the row or the cache; a user that is inserted
\* without a code is none of them.
Writes(k) ==
    /\ k.at \in {"insert", "update", "cache", "query", "clear"}
    /\ k.at = "insert" => k.code # "none"

\* What the only handler at work on the code has left behind, by what it is
\* about to do: the copy that it has written holds its code.
Held(k) ==
    /\ k.at = "cache" => account # "none" /\ row.code = k.code /\ row.left = k.left
    /\ (k.at = "query" \/ (k.at \in {"insert", "update"} /\ k.then = "idle")) =>
          cache.code = k.code /\ cache.left = k.left
    /\ k.at = "update" => account # "none"
    /\ k.at = "clear" /\ ~k.loaded => row.code = "none"

Same ==
    "none" \notin {row.code, cache.code} => row.code = cache.code /\ row.left = cache.left

Blank(k) == k.at = "insert" /\ k.code = "none" => k.then = "idle"

CopiesInv ==
    /\ \A h \in Handlers : Blank(handler[h])
    /\ ~crossed =>
          /\ \A g, h \in Handlers : Writes(handler[g]) /\ Writes(handler[h]) => g = h
          /\ \A h \in Handlers : Writes(handler[h]) => Held(handler[h])
          /\ (\A h \in Handlers : ~Writes(handler[h])) => Same

LEMMA CopiesStep == TypeOK /\ CopiesInv /\ [Next]_vars => CopiesInv'
<1> SUFFICES ASSUME TypeOK, CopiesInv, [Next]_vars PROVE CopiesInv'
  OBVIOUS
<1>1. CASE UNCHANGED vars
  BY <1>1 DEF vars, CopiesInv, Held, Same
<1>2. handler \in [Handlers -> HandlerStates] /\ crossed \in BOOLEAN
  BY DEF TypeOK
\* A handler that does not touch the code.
<1>3. ASSUME NEW h \in Handlers, NEW k, Go(h, k), ~Writes(handler[h]), ~Writes(k), Blank(k),
             UNCHANGED <<account, row, cache, crossed>>
      PROVE  CopiesInv'
  BY <1>2, <1>3 DEF CopiesInv, Held, Same, Go
\* From now on the copies may differ.
<1>4. ASSUME NEW h \in Handlers, NEW k, Go(h, k), Blank(k), crossed' PROVE CopiesInv'
  BY <1>2, <1>4 DEF CopiesInv, Go
\* A handler that is alone at work on the code.
<1>5. ASSUME NEW h \in Handlers, NEW k, Go(h, k), Blank(k),
             \A g \in Handlers \ {h} : ~Writes(handler[g]),
             Writes(k) => Held(k)', ~Writes(k) => Same'
      PROVE  CopiesInv'
  <2>1. handler'[h] = k /\ \A g \in Handlers \ {h} : handler'[g] = handler[g]
    BY <1>2, <1>5 DEF Go
  <2>2. Writes(k) => Held(handler[h])'
    BY <1>5, <2>1 DEF Held
  <2> QED
    BY <1>5, <2>1, <2>2 DEF CopiesInv
<1>6. ASSUME NEW h \in Handlers, NEW c \in Codes, NEW k, Issue(h, c, k),
             Blank([k EXCEPT !.code = c]),
             Writes([k EXCEPT !.code = c]), Held([k EXCEPT !.code = c])'
      PROVE  CopiesInv'
  <2>1. CASE crossed'
    BY <1>4, <1>6, <2>1 DEF Issue
  <2>2. CASE ~crossed'
    <3>1. \A g \in Handlers \ {h} : ~Writes(handler[g])
      BY <1>6, <2>2 DEF Issue, Issuing, Writes
    <3> QED
      BY <1>5, <1>6, <3>1 DEF Issue
  <2> QED
    BY <2>1, <2>2
<1>7. ASSUME NEW h \in Handlers, Writes(handler[h]), ~crossed
      PROVE  Held(handler[h]) /\ \A g \in Handlers \ {h} : ~Writes(handler[g])
  BY <1>7 DEF CopiesInv
<1>8. ASSUME NEW h \in Handlers, NEW c \in Codes, FindNoUser(h, c) PROVE CopiesInv'
  <2> DEFINE k == [at |-> "insert", user |-> "password", code |-> "none", left |-> CodeTime,
                   then |-> "cache"]
  <2>1. CASE Issue(h, c, k)
    <3>1. [k EXCEPT !.code = c] = [at |-> "insert", user |-> "password", code |-> c,
                                   left |-> CodeTime, then |-> "cache"]
      OBVIOUS
    <3>2. /\ Blank([k EXCEPT !.code = c]) /\ Writes([k EXCEPT !.code = c])
          /\ Held([k EXCEPT !.code = c])'
      BY <3>1 DEF Blank, Writes, Held
    <3> QED
      BY <1>6, <2>1, <3>2
  <2>2. CASE Go(h, [at |-> "insert", user |-> "bare", code |-> "none", left |-> 0,
                    then |-> "idle"]) /\ UNCHANGED <<fresh, crossed>>
    BY <1>3, <1>8, <2>2 DEF FindNoUser, Idle, Writes, Blank
  <2> QED
    BY <1>8, <2>1, <2>2 DEF FindNoUser
<1>9. ASSUME NEW h \in Handlers, NEW c \in Codes, RightPassword(h, c) PROVE CopiesInv'
  <2>1. CASE handler[h].locked > 0
    BY <1>3, <1>9, <2>1 DEF RightPassword, Idle, Writes, Blank
  <2>2. CASE ~(handler[h].locked > 0)
    <3>1. PICK k : /\ Issue(h, c, k)
                   /\ [k EXCEPT !.code = c].at = "update"
                   /\ [k EXCEPT !.code = c].then = "cache"
      BY <1>9, <2>2 DEF RightPassword
    <3>2. account' # "none"
      BY <1>9 DEF RightPassword
    <3>3. /\ Blank([k EXCEPT !.code = c]) /\ Writes([k EXCEPT !.code = c])
          /\ Held([k EXCEPT !.code = c])'
      BY <3>1, <3>2 DEF Blank, Writes, Held
    <3> QED
      BY <1>6, <3>1, <3>3
  <2> QED
    BY <2>1, <2>2
<1>10. ASSUME NEW h \in Handlers, NEW c \in Codes, ResendOtp(h, c) PROVE CopiesInv'
  <2> DEFINE k == [at |-> "update", counted |-> FALSE, code |-> "none", left |-> CodeTime,
                   by |-> "resend", then |-> "cache"]
  <2>1. Issue(h, c, k) /\ account' # "none"
    BY <1>10 DEF ResendOtp
  <2>2. /\ [k EXCEPT !.code = c].at = "update"
        /\ [k EXCEPT !.code = c].then = "cache"
    OBVIOUS
  <2> HIDE DEF k
  <2>3. /\ Blank([k EXCEPT !.code = c]) /\ Writes([k EXCEPT !.code = c])
        /\ Held([k EXCEPT !.code = c])'
    BY <2>1, <2>2 DEF Blank, Writes, Held
  <2> QED
    BY <1>6, <2>1, <2>3
<1>11. ASSUME NEW h \in Handlers, NEW c \in Codes, RequestOtp(h, c) PROVE CopiesInv'
  <2> DEFINE k == [at |-> "query", code |-> "none", left |-> CodeTime]
  <2>1. Issue(h, c, k) /\ cache'.code = c /\ cache'.left = CodeTime
    BY <1>11 DEF RequestOtp
  <2>2. [k EXCEPT !.code = c] = [at |-> "query", code |-> c, left |-> CodeTime]
    OBVIOUS
  <2>3. /\ Blank([k EXCEPT !.code = c]) /\ Writes([k EXCEPT !.code = c])
        /\ Held([k EXCEPT !.code = c])'
    BY <2>1, <2>2 DEF Blank, Writes, Held
  <2> QED
    BY <1>6, <2>1, <2>3
<1>12. ASSUME NEW h \in Handlers,
              \/ \E c \in Codes \cup DevCodes : TakeEntry(h, c)
              \/ LoadUser(h) \/ WrongPassword(h) \/ CountFailure(h)
       PROVE  CopiesInv'
  <2>1. ~Writes(handler[h])
    <3>1. handler[h] = Idle \/ handler[h].at = "password" \/ handler[h].at = "count"
      BY <1>12 DEF TakeEntry, LoadUser, WrongPassword, CountFailure
    <3> QED
      BY <3>1 DEF Idle, Writes
  <2>3. UNCHANGED <<account, row, cache, crossed>>
    BY <1>12 DEF TakeEntry, LoadUser, WrongPassword, CountFailure, codeVars
  <2>2. \E k : k.at \in {"idle", "match", "password", "count"} /\ Go(h, k)
    <3>1. CASE \E c \in Codes \cup DevCodes : TakeEntry(h, c)
      BY <3>1 DEF TakeEntry
    <3>2. CASE LoadUser(h)
      BY <3>2 DEF LoadUser
    <3>3. CASE WrongPassword(h)
      BY <3>3 DEF WrongPassword
    <3>4. CASE CountFailure(h)
      BY <3>4 DEF CountFailure, Idle
    <3> QED
      BY <1>12, <3>1, <3>2, <3>3, <3>4
  <2> QED
    BY <1>3, <2>1, <2>2, <2>3 DEF Writes, Blank
<1>13. ASSUME NEW h \in Handlers, InsertUser(h) PROVE CopiesInv'
  <2> DEFINE k == handler[h]
             next == IF k.then = "cache" THEN [at |-> "cache", code |-> k.code, left |-> k.left]
                     ELSE Idle
  <2>1. CASE account # "none"
    BY <1>4, <1>13, <2>1 DEF InsertUser, Blank, Idle
  <2>2. CASE account = "none" /\ crossed
    <3>1. Go(h, next) /\ Blank(next) /\ crossed'
      BY <1>13, <2>2 DEF InsertUser, Blank, Idle
    <3> QED
      BY <1>4, <3>1
  <2>3. CASE account = "none" /\ ~crossed /\ k.code # "none"
    <3>1. Writes(k)
      BY <1>13, <2>3 DEF InsertUser, Writes
    <3>2. /\ Held(k) /\ \A g \in Handlers \ {h} : ~Writes(handler[g])
      BY <1>7, <2>3, <3>1
    <3>3. /\ account' = k.user /\ account' # "none"
          /\ row'.code = k.code /\ row'.left = k.left /\ cache' = cache
          /\ Go(h, next) /\ k.at = "insert" /\ k.then \in {"cache", "idle"}
      BY <1>2, <1>13, <2>3, Carried DEF InsertUser
    <3>4. CASE k.then = "cache"
      BY <1>5, <3>2, <3>3, <3>4 DEF Blank, Writes, Held
    <3>5. CASE k.then = "idle"
      BY <1>5, <3>2, <3>3, <3>5 DEF Blank, Writes, Held, Same, Idle
    <3> QED
      BY <3>3, <3>4, <3>5
  <2>4. CASE account = "none" /\ ~crossed /\ k.code = "none"
    <3>1. /\ row'.code = "none" /\ cache' = cache /\ crossed' = crossed
          /\ k.at = "insert" /\ k.then = "idle" /\ Go(h, Idle)
      BY <1>13, <2>4 DEF InsertUser, CopiesInv, Blank
    <3>2. handler'[h] = Idle /\ \A g \in Handlers \ {h} : handler'[g] = handler[g]
      BY <1>2, <3>1 DEF Go
    <3>3. ~Writes(handler[h]) /\ ~Writes(handler'[h]) /\ Blank(handler'[h])
      BY <2>4, <3>1, <3>2 DEF Writes, Idle, Blank
    <3>4. Same'
      BY <3>1 DEF Same
    <3>5. ASSUME NEW g \in Handlers \ {h}, Writes(handler[g]) PROVE Held(handler[g])'
      <4>1. Held(handler[g])
        BY <1>7, <2>4, <3>5
      <4>2. handler[g].at \notin {"cache", "update"}
        BY <2>4, <4>1 DEF Held
      <4> QED
        BY <3>1, <3>2, <4>1, <4>2 DEF Held
    <3> QED
      BY <2>4, <3>2, <3>3, <3>4, <3>5 DEF CopiesInv
  <2> QED
    BY <2>1, <2>2, <2>3, <2>4
<1>14. ASSUME NEW h \in Handlers, WriteCache(h) PROVE CopiesInv'
  <2>1. /\ Writes(handler[h]) /\ handler[h].at = "cache" /\ Go(h, Idle)
        /\ cache'.code = handler[h].code /\ cache'.left = handler[h].left
        /\ UNCHANGED <<row, crossed>>
    BY <1>14 DEF WriteCache, Writes
  <2>2. Blank(Idle) /\ ~Writes(Idle)
    BY DEF Blank, Writes, Idle
  <2>3. CASE crossed
    BY <1>4, <2>1, <2>2, <2>3
  <2>4. CASE ~crossed
    <3>1. Same'
      BY <1>7, <2>1, <2>4 DEF Held, Same
    <3> QED
      BY <1>5, <1>7, <2>1, <2>2, <2>4, <3>1
  <2> QED
    BY <2>3, <2>4
<1>15. ASSUME NEW h \in Handlers, UpdateCode(h) PROVE CopiesInv'
  <2> DEFINE k == handler[h]
             next == IF k.then = "cache" THEN [at |-> "cache", code |-> k.code, left |-> k.left]
                     ELSE Idle
  <2>1. /\ Writes(k) /\ k.at = "update" /\ k.then \in {"cache", "idle"} /\ Go(h, next)
        /\ row'.code = k.code /\ row'.left = k.left
        /\ UNCHANGED <<account, cache, crossed>>
    BY <1>2, <1>15, Carried DEF UpdateCode, Writes
  <2>2. Blank(next)
    BY DEF Blank, Idle
  <2>3. CASE crossed
    BY <1>4, <2>1, <2>2, <2>3
  <2>4. CASE ~crossed
    <3>1. Held(k) /\ \A g \in Handlers \ {h} : ~Writes(handler[g])
      BY <1>7, <2>1, <2>4
    <3>2. CASE k.then = "cache"
      BY <1>5, <2>1, <2>2, <3>1, <3>2 DEF Writes, Held
    <3>3. CASE k.then = "idle"
      BY <1>5, <2>1, <2>2, <3>1, <3>3 DEF Writes, Held, Same, Idle
    <3> QED
      BY <2>1, <3>2, <3>3
  <2> QED
    BY <2>3, <2>4
<1>16. ASSUME NEW h \in Handlers, QueryUser(h) PROVE CopiesInv'
  <2> DEFINE k == handler[h]
  <2>1. PICK next : /\ Go(h, next)
                    /\ next.at = IF account = "none" THEN "insert" ELSE "update"
                    /\ next.code = k.code /\ next.left = k.left /\ next.then = "idle"
    <3>1. Go(h, IF account = "none"
             THEN [at |-> "insert", user |-> "bare", code |-> k.code, left |-> k.left, then |-> "idle"]
             ELSE [at |-> "update", counted |-> FALSE, code |-> k.code, left |-> k.left,
                   by |-> "request", then |-> "idle"])
      BY <1>16 DEF QueryUser
    <3>2. CASE account = "none"
      BY <3>1, <3>2
    <3>3. CASE account # "none"
      BY <3>1, <3>3
    <3> QED
      BY <3>2, <3>3
  <2>2. /\ Writes(k) /\ k.at = "query" /\ UNCHANGED <<account, row, cache, crossed>>
    BY <1>16 DEF QueryUser, codeVars, Writes
  <2>3. Blank(next)
    BY <2>1 DEF Blank
  <2>4. CASE crossed
    BY <1>4, <2>1, <2>2, <2>3, <2>4
  <2>5. CASE ~crossed
    <3>1. Held(k) /\ \A g \in Handlers \ {h} : ~Writes(handler[g])
      BY <1>7, <2>2, <2>5
    <3>2. Held(next)'
      BY <2>1, <2>2, <3>1 DEF Held
    <3>3. ~Writes(next) => Same'
      BY <2>1, <2>2, <3>1 DEF Held, Writes, Same
    <3> QED
      BY <1>5, <2>1, <2>3, <3>1, <3>2, <3>3
  <2> QED
    BY <2>4, <2>5
<1>17. ASSUME NEW h \in Handlers, MatchCode(h) PROVE CopiesInv'
  <2>1. ~Writes(handler[h]) /\ UNCHANGED <<account, row, cache>>
    BY <1>17 DEF MatchCode, Writes
  <2>2. CASE ~Accepts(handler[h])
    BY <1>2, <1>3, <1>17, <2>1, <2>2 DEF MatchCode, Idle, Writes, Blank
  <2>3. CASE Accepts(handler[h])
    <3>0. PICK next : /\ Go(h, next)
                      /\ next.at = "clear" /\ next.loaded = (row.code # "none")
      BY <1>17, <2>3 DEF MatchCode
    <3>1. Go(h, next) /\ Blank(next) /\ Held(next)' /\ Writes(next)
      BY <2>1, <3>0 DEF Blank, Held, Writes
    <3>2. CASE crossed'
      BY <1>4, <3>1, <3>2
    <3>3. CASE ~crossed'
      <4>1. \A g \in Handlers : ~Writes(handler[g])
        BY <1>17, <2>3, <3>3 DEF MatchCode, Issuing, Writes
      <4> QED
        BY <1>5, <3>1, <4>1
    <3> QED
      BY <3>2, <3>3
  <2> QED
    BY <2>2, <2>3
<1>18. ASSUME NEW h \in Handlers, ClearCode(h) PROVE CopiesInv'
  <2>1. /\ Writes(handler[h]) /\ handler[h].at = "clear" /\ Go(h, Idle)
        /\ row' = IF handler[h].loaded THEN NoCode ELSE row
        /\ UNCHANGED <<cache, crossed>>
    BY <1>18 DEF ClearCode, Writes
  <2>2. Blank(Idle) /\ ~Writes(Idle)
    BY DEF Blank, Writes, Idle
  <2>3. CASE crossed
    BY <1>4, <2>1, <2>2, <2>3
  <2>4. CASE ~crossed
    <3>1. row'.code = "none"
      BY <1>7, <2>1, <2>4 DEF Held, NoCode
    <3>2. Same'
      BY <3>1 DEF Same
    <3> QED
      BY <1>5, <1>7, <2>1, <2>2, <2>4, <3>2
  <2> QED
    BY <2>3, <2>4
<1>19. ASSUME NEW h \in Handlers, Fail(h) PROVE CopiesInv'
  <2>1. Go(h, Idle) /\ Blank(Idle) /\ ~Writes(Idle) /\ UNCHANGED <<account, row, cache>>
    BY <1>19 DEF Fail, Blank, Writes, Idle
  <2>2. CASE crossed'
    BY <1>4, <2>1, <2>2
  <2>3. CASE ~crossed'
    <3>1. ~Writes(handler[h]) /\ crossed' = crossed
      BY <1>2, <1>19, <2>3 DEF Fail, Issuing, Writes
    <3> QED
      BY <1>3, <2>1, <3>1
  <2> QED
    BY <2>2, <2>3
<1>20. CASE Restart
  BY <1>20 DEF Restart, CopiesInv, Blank, Writes, Idle, Same, NoEntry
<1>21. CASE Tick
  <2>1. /\ row'.code = row.code /\ row'.left = Less(row.left)
        /\ cache'.code = cache.code /\ cache'.left = Less(cache.left)
        /\ UNCHANGED <<account, crossed>>
    BY <1>21 DEF Tick, TypeOK
  <2>2. ASSUME NEW h \in Handlers
        PROVE  /\ handler'[h] = Later(handler[h])
               /\ Writes(handler'[h]) <=> Writes(handler[h])
               /\ Blank(handler'[h]) <=> Blank(handler[h])
               /\ Writes(handler[h]) /\ Held(handler[h]) => Held(handler[h])'
    <3>1. handler'[h] = Later(handler[h]) /\ handler[h] \in HandlerStates
      BY <1>2, <1>21, TickStep
    <3>2. /\ handler'[h].at = handler[h].at
          /\ handler[h].at \in {"insert", "update", "query", "cache"} =>
                /\ handler'[h].code = handler[h].code
                /\ handler'[h].left = Less(handler[h].left)
          /\ handler[h].at \in {"insert", "update"} => handler'[h].then = handler[h].then
          /\ handler[h].at = "clear" => handler'[h].loaded = handler[h].loaded
      BY <3>1, LaterType, LaterKeeps
    <3>3. Writes(handler'[h]) <=> Writes(handler[h])
      BY <3>2 DEF Writes
    <3>4. Blank(handler'[h]) <=> Blank(handler[h])
      BY <3>2 DEF Blank
    <3>5. Held(handler[h]) => Held(handler[h])'
      BY <2>1, <3>2 DEF Held
    <3> QED
      BY <3>1, <3>3, <3>4, <3>5
  <2>3. Same => Same'
    BY <2>1 DEF Same
  <2> QED
    BY <2>1, <2>2, <2>3 DEF CopiesInv
<1> QED
  BY <1>1, <1>8, <1>9, <1>10, <1>11, <1>12, <1>13, <1>14, <1>15, <1>16, <1>17, <1>18, <1>19,
     <1>20, <1>21 DEF Next, Step

\* Row and cache hold the same code when nobody is at work on them, whichever
\* of the two a route writes first, unless two were at work at once or one was
\* cut off.
THEOREM CopiesStayAlike == Spec => []CopiesAgree
<1>1. Init => CopiesInv
  BY DEF Init, CopiesInv, Blank, Writes, Same, Idle, NoCode
<1>2. CopiesInv => CopiesAgree
  <2>1. Issuing = {} => \A h \in Handlers : ~Writes(handler[h])
    BY DEF Issuing, Writes
  <2> QED
    BY <2>1 DEF CopiesInv, CopiesAgree, Same
<1> QED
  BY <1>1, <1>2, CopiesStep, TypeCorrect, PTL DEF Spec

=============================================================================
