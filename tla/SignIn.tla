--------------------------------- MODULE SignIn ---------------------------------
(***************************************************************************)
(* Sign-up, sign-in and one-time codes of the Python service               *)
(* (api/auth_routes.py), for one address.  A handler loads the user,       *)
(* decides, and commits; a code is kept twice, in the user's row and in    *)
(* the dictionary _otp_store of the process, and the routes write the two  *)
(* in different orders.                                                    *)
(*                                                                         *)
(* Times are ticks left: a lock, a code or the pause before a new code     *)
(* ends when none is left.  An UPDATE holds a column only if its value     *)
(* differs from the one loaded.  Codes are random and may collide.         *)
(***************************************************************************)
EXTENDS Naturals

CONSTANTS
    Handlers,    \* concurrent requests
    Codes,       \* one-time codes that are issued
    DevCodes,    \* those that are always accepted: 123456 and 000000
    MaxFailures, \* wrong passwords before a lock: 10
    LockTime,    \* ticks of a lock: 15 minutes
    CodeTime,    \* ticks a code is good for: 10 minutes
    PauseTime    \* ticks between two codes that are sent again: 30 seconds

ASSUME SignInConstants ==
    /\ {MaxFailures, LockTime, CodeTime, PauseTime} \subseteq Nat \ {0}
    /\ "none" \notin Codes \cup DevCodes

VARIABLES
    account,  \* "none", "password", or "bare": a user without a password
    failed,   \* failed_login_attempts
    locked,   \* locked_until
    row,      \* otp_code and otp_expires_at
    cache,    \* the entry of _otp_store, with last_sent_at
    handler,  \* where a handler is and what it holds in memory
    wrong,    \* history: wrong passwords since a sign-in that met no other
    fresh,    \* history: ticks a code is good for, from its latest issue
    crossed   \* history: codes were issued or cleared at the same time, or lost

vars == <<account, failed, locked, row, cache, handler, wrong, fresh, crossed>>

lockVars == <<failed, locked, wrong>>
codeVars == <<row, cache, fresh, crossed>>

-----------------------------------------------------------------------------
NoCode == [code |-> "none", left |-> 0]

NoEntry == [code |-> "none", left |-> 0, pause |-> 0]

Idle == [at |-> "idle"]

Init ==
    /\ account = "none"
    /\ failed = 0
    /\ locked = 0
    /\ row = NoCode
    /\ cache = NoEntry
    /\ handler = [h \in Handlers |-> Idle]
    /\ wrong = 0
    /\ fresh = [c \in Codes |-> 0]
    /\ crossed = FALSE

Go(h, k) == handler' = [handler EXCEPT ![h] = k]

Less(n) == IF n = 0 THEN 0 ELSE n - 1

\* Handlers at work on the code: they will write the row or the cache.
Issuing == {h \in Handlers : handler[h].at \in {"insert", "update", "cache", "query", "clear"}}

\* Handler h generates a code and goes on with k.
Issue(h, c, k) ==
    /\ Go(h, [k EXCEPT !.code = c])
    /\ fresh' = [fresh EXCEPT ![c] = CodeTime]
    /\ crossed' = (crossed \/ Issuing \ {h} # {})

-----------------------------------------------------------------------------
\* signup_user finds no user: one with a password is to be inserted, and its
\* code cached afterwards.  provision_user inserts one without.
FindNoUser(h, c) ==
    /\ handler[h] = Idle
    /\ account = "none"
    /\ \/ Issue(h, c, [at |-> "insert", user |-> "password", code |-> "none", left |-> CodeTime,
                       then |-> "cache"])
       \/ /\ Go(h, [at |-> "insert", user |-> "bare", code |-> "none", left |-> 0, then |-> "idle"])
          /\ UNCHANGED <<fresh, crossed>>
    /\ UNCHANGED <<account, lockVars, row, cache>>

\* The INSERT, refused by the unique index on email if another was faster.
InsertUser(h) ==
    LET k == handler[h] IN
    /\ k.at = "insert"
    /\ IF account = "none"
       THEN /\ account' = k.user
            /\ row' = [code |-> k.code, left |-> k.left]
            /\ Go(h, IF k.then = "cache" THEN [at |-> "cache", code |-> k.code, left |-> k.left]
                     ELSE Idle)
            /\ UNCHANGED crossed
       ELSE /\ Go(h, Idle)
            /\ crossed' = TRUE
            /\ UNCHANGED <<account, row>>
    /\ UNCHANGED <<lockVars, cache, fresh>>

\* The entry of the cache, then the mail.
WriteCache(h) ==
    LET k == handler[h] IN
    /\ k.at = "cache"
    /\ cache' = [code |-> k.code, left |-> k.left, pause |-> PauseTime]
    /\ Go(h, Idle)
    /\ UNCHANGED <<account, lockVars, row, fresh, crossed>>

\* login_user loads the user ...
LoadUser(h) ==
    /\ handler[h] = Idle
    /\ account # "none"
    /\ Go(h, [at |-> "password", failed |-> failed, locked |-> locked])
    /\ UNCHANGED <<account, lockVars, codeVars>>

\* ... and compares the password, before it looks at the lock; a user without
\* a password has no right one.
WrongPassword(h) ==
    /\ handler[h].at = "password"
    /\ Go(h, [at |-> "count", failed |-> handler[h].failed])
    /\ UNCHANGED <<account, lockVars, codeVars>>

\* Mutant of CountFailure: the lock is set a failure early.
CountFailureEarly(h) ==
    LET count == handler[h].failed + 1 IN
    /\ handler[h].at = "count"
    /\ failed' = count
    /\ locked' = IF count >= MaxFailures - 1 THEN LockTime ELSE locked
    /\ wrong' = IF wrong = MaxFailures THEN wrong ELSE wrong + 1
    /\ Go(h, Idle)
    /\ UNCHANGED <<account, codeVars>>

\* The count is the loaded one plus one: failures that were counted in between
\* are forgotten, a lock they set is not.  (The count is cut off at the limit:
\* above it only the comparison matters.)
CountFailure(h) ==
    LET count == handler[h].failed + 1 IN
    /\ handler[h].at = "count"
    /\ failed' = IF count >= MaxFailures THEN MaxFailures ELSE count
    /\ locked' = IF count >= MaxFailures THEN LockTime ELSE locked
    /\ wrong' = IF wrong = MaxFailures THEN wrong ELSE wrong + 1
    /\ Go(h, Idle)
    /\ UNCHANGED <<account, codeVars>>

\* Mutant of RightPassword: a refused attempt starts a longer lock.
RightPasswordExtends(h, c) ==
    /\ handler[h].at = "password"
    /\ account = "password"
    /\ IF handler[h].locked > 0
       THEN Go(h, Idle) /\ locked' = LockTime + 1 /\ UNCHANGED <<fresh, crossed>>
       ELSE /\ Issue(h, c, [at |-> "update", counted |-> handler[h].failed > 0, code |-> "none",
                            left |-> CodeTime, by |-> "login", then |-> "cache"])
            /\ UNCHANGED locked
    /\ UNCHANGED <<account, failed, wrong, row, cache>>

\* A right password is refused while the loaded lock lasts.
RightPassword(h, c) ==
    /\ handler[h].at = "password"
    /\ account = "password"
    /\ IF handler[h].locked > 0
       THEN Go(h, Idle) /\ UNCHANGED <<fresh, crossed>>
       ELSE Issue(h, c, [at |-> "update", counted |-> handler[h].failed > 0, code |-> "none",
                         left |-> CodeTime, by |-> "login", then |-> "cache"])
    /\ UNCHANGED <<account, lockVars, row, cache>>

\* Mutant of UpdateCode: a code that is still good is not replaced in the row.
UpdateCodeOnce(h) ==
    LET k == handler[h] IN
    /\ k.at = "update"
    /\ row' = IF row.left > 0 THEN row ELSE [code |-> k.code, left |-> k.left]
    /\ failed' = IF k.counted THEN 0 ELSE failed
    /\ Go(h, IF k.then = "cache" THEN [at |-> "cache", code |-> k.code, left |-> k.left] ELSE Idle)
    /\ UNCHANGED <<account, locked, cache, fresh, crossed, wrong>>

\* The commit of a sign-in (which starts the count again, unless it was loaded
\* as 0), of a code that is sent again, or of one that is requested.
UpdateCode(h) ==
    LET k == handler[h] IN
    /\ k.at = "update"
    /\ row' = [code |-> k.code, left |-> k.left]
    /\ failed' = IF k.counted THEN 0 ELSE failed
    /\ Go(h, IF k.then = "cache" THEN [at |-> "cache", code |-> k.code, left |-> k.left] ELSE Idle)
    /\ wrong' = IF /\ k.by = "login"
                   /\ failed' = 0 /\ locked = 0
                   /\ \A g \in Handlers \ {h} : handler[g].at \notin {"password", "count"}
                THEN 0 ELSE wrong
    /\ UNCHANGED <<account, locked, cache, fresh, crossed>>

\* resend_otp: the pause is that of the cache.
ResendOtp(h, c) ==
    /\ handler[h] = Idle
    /\ account # "none"
    /\ cache.pause = 0
    /\ Issue(h, c, [at |-> "update", counted |-> FALSE, code |-> "none", left |-> CodeTime,
                    by |-> "resend", then |-> "cache"])
    /\ UNCHANGED <<account, lockVars, row, cache>>

\* request_otp: the cache first ...
RequestOtp(h, c) ==
    /\ handler[h] = Idle
    /\ Issue(h, c, [at |-> "query", code |-> "none", left |-> CodeTime])
    /\ cache' = [code |-> c, left |-> CodeTime, pause |-> PauseTime]
    /\ UNCHANGED <<account, lockVars, row>>

\* ... then the row, of a new user without a password if there is none.
QueryUser(h) ==
    LET k == handler[h] IN
    /\ k.at = "query"
    /\ Go(h, IF account = "none"
             THEN [at |-> "insert", user |-> "bare", code |-> k.code, left |-> k.left, then |-> "idle"]
             ELSE [at |-> "update", counted |-> FALSE, code |-> k.code, left |-> k.left,
                   by |-> "request", then |-> "idle"])
    /\ UNCHANGED <<account, lockVars, codeVars>>

\* verify_otp takes the entry of the cache ...
TakeEntry(h, c) ==
    /\ handler[h] = Idle
    /\ Go(h, [at |-> "match", input |-> c, cached |-> cache.code = c,
              left |-> IF cache.code = c THEN cache.left ELSE 0])
    /\ UNCHANGED <<account, lockVars, codeVars>>

\* Mutant of Accepts: a code of the cache is good as long as it is there.
AcceptsCached(k) ==
    \/ k.input \in DevCodes
    \/ IF k.cached THEN TRUE ELSE row.code = k.input /\ row.left > 0

\* Two codes are good for any address, issued or not and in every mode; else the
\* row decides only if the entry is of another code.
Accepts(k) ==
    \/ k.input \in DevCodes
    \/ IF k.cached THEN k.left > 0 ELSE row.code = k.input /\ row.left > 0

\* ... and loads the user ...
MatchCode(h) ==
    LET k == handler[h] IN
    /\ k.at = "match"
    /\ Go(h, IF Accepts(k) THEN [at |-> "clear", loaded |-> row.code # "none"] ELSE Idle)
    /\ crossed' = (crossed \/ (Accepts(k) /\ Issuing # {}))
    /\ UNCHANGED <<account, lockVars, row, cache, fresh>>

\* ... whose code it clears, but not that of the cache.
ClearCode(h) ==
    LET k == handler[h] IN
    /\ k.at = "clear"
    /\ row' = IF k.loaded THEN NoCode ELSE row
    /\ Go(h, Idle)
    /\ UNCHANGED <<account, lockVars, cache, fresh, crossed>>

\* A call raises or a transaction fails.
Fail(h) ==
    /\ handler[h] # Idle
    /\ Go(h, Idle)
    /\ crossed' = (crossed \/ h \in Issuing)
    /\ UNCHANGED <<account, lockVars, row, cache, fresh>>

\* The server restarts, with an empty cache.
Restart ==
    /\ cache # NoEntry
    /\ cache' = NoEntry
    /\ handler' = [h \in Handlers |-> Idle]
    /\ crossed' = (crossed \/ Issuing # {})
    /\ UNCHANGED <<account, lockVars, row, fresh>>

\* Time passes for what is stored and for what the handlers have loaded.
Tick ==
    /\ locked' = Less(locked)
    /\ row' = [row EXCEPT !.left = Less(@)]
    /\ cache' = [cache EXCEPT !.left = Less(@), !.pause = Less(@)]
    /\ fresh' = [c \in Codes |-> Less(fresh[c])]
    /\ handler' = [h \in Handlers |->
          LET k == handler[h] IN
          CASE k.at = "password" -> [k EXCEPT !.locked = Less(@)]
            [] k.at \in {"insert", "update", "query", "cache", "match"} -> [k EXCEPT !.left = Less(@)]
            [] OTHER -> k]
    /\ UNCHANGED <<account, failed, wrong, crossed>>

Step(h) ==
    \/ InsertUser(h) \/ WriteCache(h) \/ UpdateCode(h) \/ QueryUser(h) \/ MatchCode(h)
    \/ ClearCode(h) \/ CountFailure(h)

Next ==
    \/ \E h \in Handlers :
         \/ \E c \in Codes : \/ FindNoUser(h, c) \/ RightPassword(h, c) \/ ResendOtp(h, c)
                             \/ RequestOtp(h, c)
         \/ \E c \in Codes \cup DevCodes : TakeEntry(h, c)
         \/ LoadUser(h) \/ WrongPassword(h) \/ Step(h) \/ Fail(h)
    \/ Restart
    \/ Tick

\* The server's threads are scheduled and its queries answered; time passes; the
\* owner of the account keeps trying, and not every attempt of his is cut off.
Fairness ==
    /\ WF_vars(Tick)
    /\ \A h \in Handlers : WF_vars(Step(h) \/ WrongPassword(h) \/ \E c \in Codes : RightPassword(h, c))
    /\ SF_vars(\E h \in Handlers : LoadUser(h))
    /\ SF_vars(\E h \in Handlers, c \in Codes : RightPassword(h, c))

Spec == Init /\ [][Next]_vars /\ Fairness

-----------------------------------------------------------------------------
HandlerStates ==
    LET Code == Codes \cup {"none"} IN
    [at : {"idle"}]
    \cup [at : {"insert"}, user : {"password", "bare"}, code : Code, left : Nat,
          then : {"cache", "idle"}]
    \cup [at : {"update"}, counted : BOOLEAN, code : Code, left : Nat,
          by : {"login", "resend", "request"}, then : {"cache", "idle"}]
    \cup [at : {"query", "cache"}, code : Code, left : Nat]
    \cup [at : {"password"}, failed : Nat, locked : Nat]
    \cup [at : {"count"}, failed : Nat]
    \cup [at : {"match"}, input : Codes \cup DevCodes, cached : BOOLEAN, left : Nat]
    \cup [at : {"clear"}, loaded : BOOLEAN]

\* Type invariant.
TypeOK ==
    /\ account \in {"none", "password", "bare"}
    /\ failed \in 0 .. MaxFailures
    /\ locked \in Nat
    /\ row \in [code : Codes \cup {"none"}, left : Nat]
    /\ cache \in [code : Codes \cup {"none"}, left : Nat, pause : Nat]
    /\ handler \in [Handlers -> HandlerStates]
    /\ wrong \in 0 .. MaxFailures
    /\ fresh \in [Codes -> 0 .. CodeTime]
    /\ crossed \in BOOLEAN

-----------------------------------------------------------------------------
\* "Account is temporarily locked due to excessive failed attempts" (line 104):
\* it takes as many wrong passwords to lock an account as the limit says, since
\* the last sign-in that met no other, whatever handlers write back a count they
\* loaded before.  (The converse fails: concurrent failures count once.)
LockNeedsFailures ==
    /\ locked > 0 => wrong = MaxFailures
    /\ failed <= wrong

\* The row and the cache hold the same code, when no handler is about to write
\* one of them, unless two were at it at once, one failed halfway or the code in
\* the row is used up: the orders in which the routes write do not matter else.
CopiesAgree ==
    (~crossed /\ Issuing = {} /\ "none" \notin {row.code, cache.code}) =>
        row.code = cache.code /\ row.left = cache.left

\* "OTP issued successfully (valid for 10 minutes)" (line 145): a code that is
\* accepted, from the row or from the cache and however often, was issued at
\* most that long ago, unless it is one of the two that always are.
AcceptedIsFresh ==
    [][\A h \in Handlers :
          (handler[h].at = "match" /\ handler'[h].at = "clear") =>
             handler[h].input \in DevCodes \/ fresh[handler[h].input] > 0]_vars

\* Once no more wrong passwords are given, the owner of a locked account gets in
\* again and again, however many attempts were refused while it was locked.
OwnerGetsIn ==
    <>[](account = "password" /\ \A h \in Handlers : handler[h].at # "count")
      => []<>(\E h \in Handlers : handler[h].at = "update" /\ handler[h].by = "login")

=============================================================================
