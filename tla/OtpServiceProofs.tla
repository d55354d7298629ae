--------------------------- MODULE OtpServiceProofs ---------------------------
(***************************************************************************)
(* Proofs about the one-time codes, for any number of requests, attempts   *)
(* and codes and any length of time.                                       *)
(*                                                                         *)
(* The bounds on the guesses and on the successes of a code follow from    *)
(* counting, with what has happened, what still can: the requests that     *)
(* have loaded the code while it could be tried.  No request joins them    *)
(* once the attempts are used up or the row is gone, and the row never     *)
(* comes back because a code is stored once, before anybody tries it.      *)
(***************************************************************************)
EXTENDS OtpSerial, FiniteSetTheorems, TLAPS

\* A request in state k knows code c from the row that it has loaded.
Knows(k, c) ==
    \/ k.pc = "check" /\ k.record.otp_hash = c
    \/ k.pc \in {"consume", "decrement", "clear", "sign"} /\ k.code = c

\* A request in state k may still count a guess against code c.
MayGuess(k, c) ==
    \/ k.pc = "check" /\ k.record.otp_hash = c /\ k.record.attempts_left > 0
    \/ k.pc = "decrement" /\ k.code = c

\* A request in state k may still succeed with code c.
MaySucceed(k, c) ==
    \/ k.pc = "check" /\ k.record.otp_hash = c
    \/ k.pc = "consume" /\ k.code = c

Guessing(c) == {r \in Requests : MayGuess(handler[r], c)}

Succeeding(c) == {r \in Requests : MaySucceed(handler[r], c)}

\* Nobody has seen code c, and nothing has been done with it.
Untried(c) ==
    /\ auth_otps.otp_hash # c
    /\ guesses[c] = 0
    /\ successes[c] = 0
    /\ \A r \in Requests : ~Knows(handler[r], c)

\* Codes that are to be stored, or not yet generated, are untried; no two
\* requests store the same one.
FreshCodes ==
    /\ \A c \in Codes : c > issued => Untried(c)
    /\ \A r \in Requests : handler[r].pc = "set" =>
         /\ handler[r].row.otp_hash <= issued
         /\ handler[r].row.attempts_left = MaxAttempts
         /\ Untried(handler[r].row.otp_hash)
         /\ \A s \in Requests \ {r} :
              handler[s].pc = "set"
                => handler[s].row.otp_hash # handler[r].row.otp_hash

\* The guesses that a stored code has had were taken off its attempts.
GuessesTakenOff ==
    auth_otps.attempts_left > 0
      => guesses[auth_otps.otp_hash] <= MaxAttempts - auth_otps.attempts_left

GuessesToCome ==
    \A c \in Codes :
        guesses[c] + Cardinality(Guessing(c))
            <= MaxAttempts - 1 + Cardinality(Requests)

SuccessesToCome ==
    \A c \in Codes :
        successes[c] + Cardinality(Succeeding(c)) <= Cardinality(Requests)

\* A code that has succeeded, as every signed one has, is not stored.
SpentIsGone ==
    /\ \A c \in Codes : successes[c] > 0 => auth_otps.otp_hash # c
    /\ \A r \in Requests :
         handler[r].pc = "sign" => successes[handler[r].code] > 0
    /\ \A c \in signed : successes[c] > 0

IInv ==
    /\ TypeOK
    /\ FreshCodes
    /\ GuessesTakenOff
    /\ GuessesToCome
    /\ SuccessesToCome
    /\ SpentIsGone

-----------------------------------------------------------------------------
\* The row with one attempt less is a row.
LEMMA DecrementedRow ==
    ASSUME NEW row \in Rows
    PROVE  /\ Decremented(row) \in Rows
           /\ Decremented(row).otp_hash = row.otp_hash
           /\ Decremented(row).attempts_left
                = IF row.attempts_left > 0 THEN row.attempts_left - 1 ELSE 0
BY OtpConstants DEF Decremented, Rows, NoRow, Row, Codes

\* A row whose code is a number of a code is a row of the table.
LEMMA RealRow ==
    ASSUME NEW row \in Rows
    PROVE  /\ row.attempts_left \in 0 .. MaxAttempts
           /\ row # NoRow <=> row.otp_hash \in Codes
           /\ row.attempts_left > 0 => row # NoRow
           /\ row.otp_hash \in Int
           /\ NoRow \in Rows
           /\ NoRow.otp_hash = -1
           /\ NoRow.attempts_left = 0
BY OtpConstants DEF Rows, NoRow, Row, Codes

\* Type correctness is inductive by itself.
LEMMA TypeStep == TypeOK /\ [Next]_vars => TypeOK'
<1> SUFFICES ASSUME TypeOK, [Next]_vars PROVE TypeOK'
  OBVIOUS
<1> USE OtpConstants DEF TypeOK
<1>1. CASE UNCHANGED vars
  BY <1>1 DEF vars
<1>2. CASE Tick
  BY <1>2 DEF Tick
<1>3. ASSUME NEW r \in Requests, Step(r) PROVE TypeOK'
  <2> DEFINE k == handler[r]
  <2>1. k \in HandlerStates
    OBVIOUS
  <2>2. ASSUME NEW cool \in BOOLEAN, StartIssue(r, cool) PROVE TypeOK'
    <3>1. [pc |-> "issue", cool |-> cool, existing |-> auth_otps]
            \in HandlerStates
      BY DEF HandlerStates
    <3> QED  BY <2>2, <3>1 DEF StartIssue, Goto
  <2>3. CASE RefuseIssue(r)
    BY <2>3 DEF RefuseIssue, Goto, HandlerStates
  <2>4. CASE GenerateCode(r)
    <3>1. k.pc = "issue" /\ k.cool \in BOOLEAN
      BY <2>1, <2>4 DEF GenerateCode, HandlerStates, Idle
    <3>2. Row(issued + 1, now + Expiry, MaxAttempts, now) \in Rows \ {NoRow}
      BY <2>4 DEF GenerateCode, Row, Rows, Codes, NoRow
    <3>3. [pc |-> "set", cool |-> k.cool,
           row |-> Row(issued + 1, now + Expiry, MaxAttempts, now)]
             \in HandlerStates
      BY <3>1, <3>2 DEF HandlerStates
    <3> QED  BY <2>4, <3>3 DEF GenerateCode, Goto
  <2>5. CASE SetOtp(r)
    <3>1. k.row \in Rows
      BY <2>1, <2>5 DEF SetOtp, HandlerStates, Idle
    <3> QED  BY <2>5, <3>1 DEF SetOtp, Goto, HandlerStates
  <2>6. ASSUME NEW code \in {Wrong} \cup 1 .. issued, StartVerify(r, code)
        PROVE  TypeOK'
    <3>1. [pc |-> "check", record |-> auth_otps, submitted |-> code]
            \in HandlerStates
      BY <2>6 DEF HandlerStates, StartVerify, Codes
    <3> QED  BY <2>6, <3>1 DEF StartVerify, Goto
  <2>7. CASE RefuseVerify(r)
    <3>1. k.record \in Rows \ {NoRow}
      BY <2>1, <2>7 DEF RefuseVerify, HandlerStates, Idle
    <3>2. k.record.otp_hash \in Codes
      BY <3>1, RealRow
    <3>3. [pc |-> "clear", code |-> k.record.otp_hash] \in HandlerStates
      BY <3>2 DEF HandlerStates
    <3> QED  BY <2>7, <3>3 DEF RefuseVerify, Goto
  <2>8. CASE Compare(r)
    <3>1. k.record \in Rows \ {NoRow}
      BY <2>1, <2>8 DEF Compare, HandlerStates, Idle
    <3>2. k.record.otp_hash \in Codes
      BY <3>1, RealRow
    <3>3. [pc |-> IF k.submitted = k.record.otp_hash
                  THEN "consume" ELSE "decrement",
           code |-> k.record.otp_hash] \in HandlerStates
      BY <3>2 DEF HandlerStates
    <3> QED  BY <2>8, <3>3 DEF Compare, Goto
  <2>9. CASE Decrement(r)
    <3>1. k.code \in Codes
      BY <2>1, <2>9 DEF Decrement, HandlerStates, Idle
    <3>2. [pc |-> "clear", code |-> k.code] \in HandlerStates /\ Idle \in HandlerStates
      BY <3>1 DEF HandlerStates
    <3>3. handler' \in [Requests -> HandlerStates]
      BY <2>9, <3>2 DEF Decrement, Goto
    <3>4. auth_otps' \in Rows
      BY <2>9, DecrementedRow DEF Decrement
    <3> QED  BY <2>9, <3>1, <3>3, <3>4 DEF Decrement
  <2>10. CASE ClearOtp(r)
    BY <2>10, RealRow DEF ClearOtp, Goto, HandlerStates
  <2>11. CASE Consume(r)
    <3>1. k.code \in Codes
      BY <2>1, <2>11 DEF Consume, HandlerStates, Idle
    <3>2. [pc |-> "sign", code |-> k.code] \in HandlerStates
      BY <3>1 DEF HandlerStates
    <3> QED  BY <2>11, <3>1, <3>2, RealRow DEF Consume, Goto
  <2>12. CASE SignToken(r)
    <3>1. k.code \in Codes
      BY <2>1, <2>12 DEF SignToken, HandlerStates, Idle
    <3> QED  BY <2>12, <3>1 DEF SignToken, Goto, HandlerStates
  <2>13. CASE Fail(r)
    BY <2>13 DEF Fail, Goto, HandlerStates
  <2> QED  BY <1>3, <2>2, <2>3, <2>4, <2>5, <2>6, <2>7, <2>8, <2>9, <2>10,
              <2>11, <2>12, <2>13 DEF Step
<1> QED  BY <1>1, <1>2, <1>3 DEF Next

\* The type invariant, for every value of the constants.
THEOREM TypeCorrect == Spec => []TypeOK
<1>1. Init => TypeOK
  BY OtpConstants, RealRow DEF Init, TypeOK, HandlerStates, Rows, NoRow, Row
<1> QED  BY <1>1, TypeStep, PTL DEF Spec

-----------------------------------------------------------------------------
\* What a handler state holds, by its program counter.
LEMMA HandlerTypes ==
    ASSUME NEW k \in HandlerStates
    PROVE  /\ k.pc \in {"idle", "issue", "set", "check", "consume", "decrement",
                        "sign", "clear"}
           /\ k.pc = "check" => k.record \in Rows \ {NoRow}
           /\ k.pc = "set" => k.row \in Rows \ {NoRow}
           /\ k.pc \in {"consume", "decrement", "clear", "sign"} => k.code \in Codes
BY DEF HandlerStates, Idle

\* The two sets that are counted are finite, and their sizes are numbers.
LEMMA FiniteCounts ==
    ASSUME NEW S \in SUBSET Requests
    PROVE  /\ IsFiniteSet(S)
           /\ Cardinality(S) \in Nat
           /\ Cardinality(S) <= Cardinality(Requests)
           /\ Cardinality(Requests) \in Nat
BY OtpConstants, FS_Subset, FS_CardinalityType

\* A smaller set of requests does not count more.
LEMMA SmallerCount ==
    ASSUME NEW S \in SUBSET Requests, NEW T \in SUBSET S
    PROVE  Cardinality(T) <= Cardinality(S)
BY FiniteCounts, FS_Subset

\* A step keeps the codes that are to be stored untried and apart.
LEMMA FreshStep == IInv /\ [Next]_vars => FreshCodes'
<1> SUFFICES ASSUME IInv, [Next]_vars PROVE FreshCodes'
  OBVIOUS
<1>0. TypeOK /\ TypeOK' /\ FreshCodes
  BY TypeStep DEF IInv
<1>t. /\ handler \in [Requests -> HandlerStates]
      /\ issued \in Nat
      /\ auth_otps \in Rows
  BY <1>0, OtpConstants DEF TypeOK
<1>k. \A s \in Requests :
        /\ handler[s].pc = "set" => handler[s].row.otp_hash \in Codes
        /\ handler[s].pc = "check" => handler[s].record.otp_hash \in Codes
        /\ handler[s].pc \in {"consume", "decrement", "clear", "sign"}
             => handler[s].code \in Codes
  BY <1>t, HandlerTypes, RealRow
<1>c. ASSUME \A c \in Codes : c > issued' => Untried(c)',
             \A s \in Requests : handler'[s].pc = "set" =>
               \E c \in Codes :
                 /\ c = handler'[s].row.otp_hash
                 /\ c <= issued'
                 /\ handler'[s].row.attempts_left = MaxAttempts
                 /\ Untried(c)'
                 /\ \A t \in Requests \ {s} :
                      handler'[t].pc = "set" => handler'[t].row.otp_hash # c
      PROVE  FreshCodes'
  BY <1>c DEF FreshCodes, Untried
<1>1. CASE UNCHANGED vars \/ Tick
  BY <1>0, <1>1 DEF vars, Tick, FreshCodes, Untried
<1>2. ASSUME NEW r \in Requests, Step(r) PROVE FreshCodes'
  <2> DEFINE k == handler[r]
  \* A request that forgets what it knew, or keeps knowing the code it knew.
  <2>1. ASSUME NEW st, Goto(r, st), st.pc # "set", issued' = issued,
               \A c \in Codes : Knows(st, c) => Knows(k, c),
               \A c \in Codes : auth_otps'.otp_hash = c => auth_otps.otp_hash = c,
               \A c \in Codes : ~Knows(k, c)
                  => guesses'[c] = guesses[c] /\ successes'[c] = successes[c]
        PROVE  FreshCodes'
    <3>1. \A s \in Requests : handler'[s] = IF s = r THEN st ELSE handler[s]
      BY <1>t, <2>1 DEF Goto
    <3>2. ASSUME NEW c \in Codes, Untried(c) PROVE Untried(c)'
      BY <2>1, <3>1, <3>2 DEF Untried
    <3>3. \A s \in Requests : handler'[s].pc = "set" => s # r /\ handler'[s] = handler[s]
      BY <2>1, <3>1
    <3> QED  BY <1>0, <1>k, <2>1, <3>2, <3>3 DEF FreshCodes
  <2>2. ASSUME NEW cool \in BOOLEAN, StartIssue(r, cool) PROVE FreshCodes'
    BY <2>1, <2>2 DEF StartIssue, Knows
  <2>3. CASE RefuseIssue(r)
    BY <2>1, <2>3 DEF RefuseIssue, Knows, Idle
  <2>4. CASE GenerateCode(r)
    <3> DEFINE new == issued + 1
    <3>1. /\ new \in Codes
          /\ issued' = new
          /\ k.pc = "issue"
          /\ UNCHANGED <<auth_otps, guesses, successes>>
      BY <1>t, <1>0, <2>4, OtpConstants DEF GenerateCode, Codes, TypeOK
    <3>2. PICK st : /\ Goto(r, st)
                    /\ st.pc = "set"
                    /\ st.row.otp_hash = new
                    /\ st.row.attempts_left = MaxAttempts
      BY <2>4 DEF GenerateCode, Row
    <3>3. \A s \in Requests : handler'[s] = IF s = r THEN st ELSE handler[s]
      BY <1>t, <3>2 DEF Goto
    <3>4. ASSUME NEW c \in Codes, Untried(c) PROVE Untried(c)'
      BY <3>1, <3>2, <3>3, <3>4 DEF Untried, Knows
    <3>5. Untried(new)
      BY <1>0, <1>t, <3>1 DEF FreshCodes
    <3>6. \A c \in Codes : c > issued' => Untried(c)'
      BY <1>0, <1>t, <3>1, <3>4 DEF FreshCodes, Codes
    <3>7. ASSUME NEW s \in Requests, handler'[s].pc = "set"
          PROVE  \E c \in Codes :
                   /\ c = handler'[s].row.otp_hash
                   /\ c <= issued'
                   /\ handler'[s].row.attempts_left = MaxAttempts
                   /\ Untried(c)'
                   /\ \A t \in Requests \ {s} :
                        handler'[t].pc = "set" => handler'[t].row.otp_hash # c
      <4>1. CASE s = r
        BY <1>0, <1>t, <1>k, <3>1, <3>2, <3>3, <3>4, <3>5, <4>1
           DEF FreshCodes, Codes
      <4>2. CASE s # r
        <5>1. handler'[s] = handler[s]
          BY <3>3, <4>2
        <5>2. PICK c \in Codes :
                /\ c = handler[s].row.otp_hash
                /\ c <= issued
                /\ handler[s].row.attempts_left = MaxAttempts
                /\ Untried(c)
                /\ \A t \in Requests \ {s} :
                     handler[t].pc = "set" => handler[t].row.otp_hash # c
          BY <1>0, <1>k, <3>7, <5>1 DEF FreshCodes
        <5>3. Untried(c)'
          BY <3>4, <5>2
        <5> QED  BY <1>t, <3>1, <3>2, <3>3, <5>1, <5>2, <5>3 DEF Codes
      <4> QED  BY <4>1, <4>2
    <3> QED  BY <1>c, <3>6, <3>7
  <2>5. CASE SetOtp(r)
    <3> DEFINE new == k.row.otp_hash
    <3>1. /\ k.pc = "set"
          /\ auth_otps'.otp_hash = new
          /\ UNCHANGED <<issued, guesses, successes>>
      BY <2>5 DEF SetOtp
    <3>2. \A s \in Requests : handler'[s] = IF s = r THEN Idle ELSE handler[s]
      BY <1>t, <2>5 DEF SetOtp, Goto
    <3>3. ASSUME NEW c \in Codes, Untried(c), c # new PROVE Untried(c)'
      BY <3>1, <3>2, <3>3 DEF Untried, Knows, Idle
    <3>4. new \in Codes /\ new <= issued
      BY <1>0, <1>k, <3>1 DEF FreshCodes
    <3>5. \A c \in Codes : c > issued' => Untried(c)'
      BY <1>0, <1>t, <3>1, <3>3, <3>4 DEF FreshCodes, Codes
    <3>6. ASSUME NEW s \in Requests, handler'[s].pc = "set"
          PROVE  \E c \in Codes :
                   /\ c = handler'[s].row.otp_hash
                   /\ c <= issued'
                   /\ handler'[s].row.attempts_left = MaxAttempts
                   /\ Untried(c)'
                   /\ \A t \in Requests \ {s} :
                        handler'[t].pc = "set" => handler'[t].row.otp_hash # c
      <4>1. s # r /\ handler'[s] = handler[s]
        BY <3>2, <3>6 DEF Idle
      <4>2. PICK c \in Codes :
              /\ c = handler[s].row.otp_hash
              /\ c <= issued
              /\ handler[s].row.attempts_left = MaxAttempts
              /\ Untried(c)
              /\ \A t \in Requests \ {s} :
                   handler[t].pc = "set" => handler[t].row.otp_hash # c
        BY <1>0, <1>k, <3>6, <4>1 DEF FreshCodes
      <4>3. c # new
        BY <3>1, <4>1, <4>2
      <4>4. Untried(c)'
        BY <3>3, <4>2, <4>3
      <4> QED  BY <3>1, <3>2, <4>1, <4>2, <4>4 DEF Idle
    <3> QED  BY <1>c, <3>5, <3>6
  <2>6. ASSUME NEW code \in {Wrong} \cup 1 .. issued, StartVerify(r, code)
        PROVE  FreshCodes'
    <3>1. PICK st : /\ Goto(r, st)
                    /\ st.pc = "check"
                    /\ st.record.otp_hash = auth_otps.otp_hash
      BY <2>6 DEF StartVerify
    <3>2. UNCHANGED <<auth_otps, issued, guesses, successes>>
      BY <2>6 DEF StartVerify
    <3>3. \A s \in Requests : handler'[s] = IF s = r THEN st ELSE handler[s]
      BY <1>t, <3>1 DEF Goto
    <3>4. ASSUME NEW c \in Codes, Untried(c) PROVE Untried(c)'
      BY <3>1, <3>2, <3>3, <3>4 DEF Untried, Knows
    <3>5. \A c \in Codes : c > issued' => Untried(c)'
      BY <1>0, <3>2, <3>4 DEF FreshCodes
    <3>6. ASSUME NEW s \in Requests, handler'[s].pc = "set"
          PROVE  \E c \in Codes :
                   /\ c = handler'[s].row.otp_hash
                   /\ c <= issued'
                   /\ handler'[s].row.attempts_left = MaxAttempts
                   /\ Untried(c)'
                   /\ \A t \in Requests \ {s} :
                        handler'[t].pc = "set" => handler'[t].row.otp_hash # c
      <4>1. s # r /\ handler'[s] = handler[s]
        BY <3>1, <3>3, <3>6
      <4>2. PICK c \in Codes :
              /\ c = handler[s].row.otp_hash
              /\ c <= issued
              /\ handler[s].row.attempts_left = MaxAttempts
              /\ Untried(c)
              /\ \A t \in Requests \ {s} :
                   handler[t].pc = "set" => handler[t].row.otp_hash # c
        BY <1>0, <1>k, <3>6, <4>1 DEF FreshCodes
      <4>3. Untried(c)'
        BY <3>4, <4>2
      <4> QED  BY <3>1, <3>2, <3>3, <4>1, <4>2, <4>3
    <3> QED  BY <1>c, <3>5, <3>6
  <2>7. CASE RefuseVerify(r)
    BY <2>1, <2>7 DEF RefuseVerify, Knows
  <2>8. CASE Compare(r)
    <3>1. \E st : /\ Goto(r, st)
                  /\ st.pc \in {"consume", "decrement"}
                  /\ st.code = k.record.otp_hash
      BY <2>8 DEF Compare
    <3> QED  BY <2>1, <2>8, <3>1 DEF Compare, Knows
  <2>9. CASE Decrement(r)
    <3>1. PICK st : Goto(r, st) /\ st \in {Idle, [pc |-> "clear", code |-> k.code]}
      BY <2>9 DEF Decrement
    <3>2. auth_otps'.otp_hash = auth_otps.otp_hash
      BY <1>t, <2>9, DecrementedRow DEF Decrement
    <3>3. k.pc = "decrement" /\ guesses \in [Codes -> Nat]
      BY <1>0, <2>9 DEF Decrement, TypeOK
    <3>4. \A c \in Codes : ~Knows(k, c) => guesses'[c] = guesses[c]
      BY <2>9, <3>3 DEF Decrement, Knows
    <3>5. st.pc # "set" /\ \A c \in Codes : Knows(st, c) => Knows(k, c)
      BY <3>1, <3>3 DEF Knows, Idle
    <3>6. issued' = issued /\ successes' = successes
      BY <2>9 DEF Decrement
    <3> QED  BY <2>1, <3>1, <3>2, <3>4, <3>5, <3>6
  <2>10. CASE ClearOtp(r)
    <3>1. \A c \in Codes : auth_otps'.otp_hash # c
      BY <2>10 DEF ClearOtp, NoRow, Row, Codes
    <3> QED  BY <2>1, <2>10, <3>1 DEF ClearOtp, Knows, Idle
  <2>11. CASE Consume(r)
    <3>1. \A c \in Codes : auth_otps'.otp_hash # c
      BY <2>11 DEF Consume, NoRow, Row, Codes
    <3>2. k.pc = "consume" /\ successes \in [Codes -> Nat]
      BY <1>0, <2>11 DEF Consume, TypeOK
    <3>3. \A c \in Codes : ~Knows(k, c) => successes'[c] = successes[c]
      BY <2>11, <3>2 DEF Consume, Knows
    <3>4. \E st : Goto(r, st) /\ st.pc = "sign" /\ st.code = k.code
      BY <2>11 DEF Consume
    <3> QED  BY <2>1, <2>11, <3>1, <3>2, <3>3, <3>4 DEF Consume, Knows
  <2>12. CASE SignToken(r)
    BY <2>1, <2>12 DEF SignToken, Knows, Idle
  <2>13. CASE Fail(r)
    BY <2>1, <2>13 DEF Fail, Knows, Idle
  <2> QED  BY <1>2, <2>2, <2>3, <2>4, <2>5, <2>6, <2>7, <2>8, <2>9, <2>10,
              <2>11, <2>12, <2>13 DEF Step
<1> QED  BY <1>1, <1>2 DEF Next

\* A step keeps the guesses of the stored code taken off its attempts.
LEMMA TakenOffStep == IInv /\ [Next]_vars => GuessesTakenOff'
<1> SUFFICES ASSUME IInv, [Next]_vars, auth_otps'.attempts_left > 0
             PROVE  guesses'[auth_otps'.otp_hash]
                      <= MaxAttempts - auth_otps'.attempts_left
  BY DEF GuessesTakenOff
<1>0. /\ TypeOK
      /\ GuessesTakenOff
      /\ auth_otps \in Rows
      /\ handler \in [Requests -> HandlerStates]
      /\ guesses \in [Codes -> Nat]
      /\ MaxAttempts \in Nat
  BY OtpConstants DEF IInv, TypeOK
<1>1. CASE UNCHANGED <<auth_otps, guesses>>
  BY <1>0, <1>1 DEF GuessesTakenOff
<1>2. ASSUME NEW r \in Requests, SetOtp(r)
      PROVE  guesses'[auth_otps'.otp_hash]
               <= MaxAttempts - auth_otps'.attempts_left
  <2>1. /\ auth_otps'.attempts_left = MaxAttempts
        /\ guesses[auth_otps'.otp_hash] = 0
    BY <1>2 DEF IInv, FreshCodes, Untried, SetOtp
  <2> QED  BY <1>0, <1>2, <2>1 DEF SetOtp
<1>3. ASSUME NEW r \in Requests, Decrement(r)
      PROVE  guesses'[auth_otps'.otp_hash]
               <= MaxAttempts - auth_otps'.attempts_left
  <2> DEFINE c == auth_otps.otp_hash
  <2>1. /\ auth_otps'.otp_hash = c
        /\ auth_otps.attempts_left > 0
        /\ auth_otps'.attempts_left = auth_otps.attempts_left - 1
        /\ auth_otps.attempts_left \in Nat
    BY <1>0, <1>3, DecrementedRow, RealRow DEF Decrement
  <2>2. c \in Codes
    BY <1>0, <2>1, RealRow
  <2>3. guesses[c] \in Nat /\ guesses'[c] <= guesses[c] + 1
    BY <1>0, <1>3, <2>2 DEF Decrement
  <2>4. guesses[c] <= MaxAttempts - auth_otps.attempts_left
    BY <1>0, <2>1 DEF GuessesTakenOff
  <2>5. guesses'[c] \in Nat
    BY TypeStep, <1>0, <2>2 DEF TypeOK
  <2> HIDE DEF c
  <2> QED  BY <1>0, <2>1, <2>3, <2>4, <2>5
<1>4. ASSUME NEW r \in Requests, ClearOtp(r) \/ Consume(r) PROVE FALSE
  BY <1>4 DEF ClearOtp, Consume, NoRow, Row
<1> QED
  BY <1>1, <1>2, <1>3, <1>4 DEF vars, Next, Step, Tick, StartIssue, RefuseIssue,
     GenerateCode, StartVerify, RefuseVerify, Compare, SignToken, Fail

\* The requests in a set do not grow in number if none joins the set.
LEMMA NoneJoins ==
    ASSUME NEW S \in SUBSET Requests, NEW T \in SUBSET Requests,
           \A s \in T : s \in S
    PROVE  Cardinality(T) <= Cardinality(S)
BY SmallerCount

\* A step keeps the guesses made and to come against each code in bounds.
LEMMA GuessStep == IInv /\ [Next]_vars => GuessesToCome'
<1> SUFFICES ASSUME IInv, [Next]_vars, NEW c \in Codes
             PROVE  guesses'[c] + Cardinality(Guessing(c)')
                      <= MaxAttempts - 1 + Cardinality(Requests)
  BY DEF GuessesToCome
<1> DEFINE G == Guessing(c)
           H == Guessing(c)'
<1>0. /\ TypeOK
      /\ auth_otps \in Rows
      /\ handler \in [Requests -> HandlerStates]
      /\ guesses \in [Codes -> Nat]
      /\ guesses[c] \in Nat
      /\ MaxAttempts \in Nat \ {0}
      /\ guesses[c] + Cardinality(G) <= MaxAttempts - 1 + Cardinality(Requests)
  BY OtpConstants DEF IInv, TypeOK, GuessesToCome
<1>1. /\ G \in SUBSET Requests
      /\ H = {s \in Requests : MayGuess(handler'[s], c)}
  BY DEF Guessing
<1>2. H \in SUBSET Requests
  BY <1>1
<1>3. /\ Cardinality(G) \in Nat
      /\ Cardinality(H) \in Nat
      /\ Cardinality(H) <= Cardinality(Requests)
      /\ Cardinality(Requests) \in Nat
      /\ IsFiniteSet(G)
  <2> HIDE DEF G, H
  <2> QED  BY <1>1, <1>2, FiniteCounts
\* No guess is counted and no request joins those that may guess.
<1>4. ASSUME guesses'[c] = guesses[c],
             \A s \in Requests : MayGuess(handler'[s], c) => MayGuess(handler[s], c)
      PROVE  guesses'[c] + Cardinality(H)
               <= MaxAttempts - 1 + Cardinality(Requests)
  <2>1. \A s \in H : s \in G
    BY <1>1, <1>4 DEF Guessing
  <2> HIDE DEF G, H
  <2>2. Cardinality(H) <= Cardinality(G)
    BY <1>1, <1>2, <2>1, NoneJoins
  <2> QED  BY <1>0, <1>3, <1>4, <2>2
<1>5. ASSUME UNCHANGED <<guesses, handler>>
      PROVE  guesses'[c] + Cardinality(H)
               <= MaxAttempts - 1 + Cardinality(Requests)
  BY <1>4, <1>5
<1>6. ASSUME NEW r \in Requests, UNCHANGED guesses, NEW st, Goto(r, st),
             MayGuess(st, c) => MayGuess(handler[r], c)
      PROVE  guesses'[c] + Cardinality(H)
               <= MaxAttempts - 1 + Cardinality(Requests)
  BY <1>0, <1>4, <1>6 DEF Goto
<1>7. ASSUME NEW r \in Requests, Step(r)
      PROVE  guesses'[c] + Cardinality(H)
               <= MaxAttempts - 1 + Cardinality(Requests)
  <2> HIDE DEF G, H
  <2>2. ASSUME NEW cool \in BOOLEAN, StartIssue(r, cool)
        PROVE  guesses'[c] + Cardinality(H)
                 <= MaxAttempts - 1 + Cardinality(Requests)
    BY <1>6, <2>2 DEF StartIssue, MayGuess
  <2>4. CASE GenerateCode(r)
    <3>1. \E st : Goto(r, st) /\ st.pc = "set"
      BY <2>4 DEF GenerateCode
    <3> QED  BY <1>6, <2>4, <3>1 DEF GenerateCode, MayGuess
  <2>5. CASE RefuseIssue(r) \/ SetOtp(r) \/ RefuseVerify(r) \/ ClearOtp(r)
             \/ SignToken(r) \/ Fail(r)
    BY <1>6, <2>5 DEF RefuseIssue, SetOtp, RefuseVerify, ClearOtp, SignToken,
       Fail, MayGuess, Idle
  <2>6. ASSUME NEW code \in {Wrong} \cup 1 .. issued, StartVerify(r, code)
        PROVE  guesses'[c] + Cardinality(H)
                 <= MaxAttempts - 1 + Cardinality(Requests)
    <3>1. PICK st : /\ Goto(r, st)
                    /\ st.pc = "check"
                    /\ st.record = auth_otps
                    /\ UNCHANGED guesses
      BY <2>6 DEF StartVerify
    <3>2. CASE auth_otps.otp_hash = c /\ auth_otps.attempts_left > 0
      <4>1. /\ guesses[c] <= MaxAttempts - auth_otps.attempts_left
            /\ auth_otps.attempts_left \in Nat
        BY <1>0, <3>2, RealRow DEF IInv, GuessesTakenOff
      <4> QED  BY <1>0, <1>3, <3>1, <3>2, <4>1
    <3>3. CASE ~(auth_otps.otp_hash = c /\ auth_otps.attempts_left > 0)
      BY <1>6, <3>1, <3>3 DEF MayGuess
    <3> QED  BY <3>2, <3>3
  <2>8. CASE Compare(r)
    <3>1. \E st : /\ Goto(r, st)
                  /\ st.pc \in {"consume", "decrement"}
                  /\ st.code = handler[r].record.otp_hash
      BY <2>8 DEF Compare
    <3>2. handler[r].pc = "check" /\ ~(handler[r].record.attempts_left <= 0)
      BY <2>8 DEF Compare, Unusable
    <3>3. handler[r].record.attempts_left \in Nat
      BY <1>0, <3>2, HandlerTypes, RealRow
    <3>4. handler[r].record.attempts_left > 0
      BY <3>2, <3>3
    <3> QED  BY <1>6, <2>8, <3>1, <3>2, <3>4 DEF Compare, MayGuess
  <2>9. CASE Decrement(r)
    <3>1. PICK st : Goto(r, st) /\ st.pc \in {"clear", "idle"}
      BY <2>9 DEF Decrement, Idle
    <3>2. \A s \in Requests : handler'[s] = IF s = r THEN st ELSE handler[s]
      BY <1>0, <3>1 DEF Goto
    <3>3. CASE handler[r].code # c
      <4>1. guesses'[c] = guesses[c]
        BY <1>0, <2>9, <3>3 DEF Decrement
      <4> QED  BY <1>4, <3>1, <3>2, <4>1 DEF MayGuess
    <3>4. CASE handler[r].code = c
      <4>1. guesses'[c] = guesses[c] + 1
        BY <1>0, <2>9, <3>4 DEF Decrement
      <4>2. r \in G
        BY <2>9, <3>4 DEF G, Guessing, MayGuess, Decrement
      <4>3. \A s \in H : s \in G \ {r}
        BY <1>1, <3>1, <3>2 DEF G, Guessing, MayGuess
      <4>4. Cardinality(G \ {r}) = Cardinality(G) - 1
        BY <1>3, <4>2, FS_RemoveElement
      <4>5. Cardinality(H) <= Cardinality(G \ {r})
        BY <1>1, <1>2, <4>3, NoneJoins
      <4> QED  BY <1>0, <1>3, <4>1, <4>4, <4>5
    <3> QED  BY <3>3, <3>4
  <2>11. CASE Consume(r)
    <3>1. \E st : Goto(r, st) /\ st.pc = "sign"
      BY <2>11 DEF Consume
    <3> QED  BY <1>6, <2>11, <3>1 DEF Consume, MayGuess
  <2> QED  BY <1>7, <2>2, <2>4, <2>5, <2>6, <2>8, <2>9, <2>11 DEF Step
<1>8. UNCHANGED <<guesses, handler>> \/ \E r \in Requests : Step(r)
  BY DEF Next, Tick, vars
<1> QED  BY <1>5, <1>7, <1>8

\* A step keeps the successes had and to come with each code in bounds.
LEMMA SuccessStep == IInv /\ [Next]_vars => SuccessesToCome'
<1> SUFFICES ASSUME IInv, [Next]_vars, NEW c \in Codes
             PROVE  successes'[c] + Cardinality(Succeeding(c)')
                      <= Cardinality(Requests)
  BY DEF SuccessesToCome
<1> DEFINE G == Succeeding(c)
           H == Succeeding(c)'
<1>0. /\ auth_otps \in Rows
      /\ handler \in [Requests -> HandlerStates]
      /\ successes \in [Codes -> Nat]
      /\ successes[c] \in Nat
      /\ successes[c] + Cardinality(G) <= Cardinality(Requests)
  BY DEF IInv, TypeOK, SuccessesToCome
<1>1. /\ G \in SUBSET Requests
      /\ H = {s \in Requests : MaySucceed(handler'[s], c)}
  BY DEF Succeeding
<1>2. H \in SUBSET Requests
  BY <1>1
<1>3. /\ Cardinality(G) \in Nat
      /\ Cardinality(H) \in Nat
      /\ Cardinality(H) <= Cardinality(Requests)
      /\ Cardinality(Requests) \in Nat
      /\ IsFiniteSet(G)
  <2> HIDE DEF G, H
  <2> QED  BY <1>1, <1>2, FiniteCounts
\* Nothing succeeds and no request joins those that may succeed.
<1>4. ASSUME successes'[c] = successes[c],
             \A s \in Requests :
               MaySucceed(handler'[s], c) => MaySucceed(handler[s], c)
      PROVE  successes'[c] + Cardinality(H) <= Cardinality(Requests)
  <2>1. \A s \in H : s \in G
    BY <1>1, <1>4 DEF Succeeding
  <2> HIDE DEF G, H
  <2>2. Cardinality(H) <= Cardinality(G)
    BY <1>1, <1>2, <2>1, NoneJoins
  <2> QED  BY <1>0, <1>3, <1>4, <2>2
<1>5. ASSUME UNCHANGED <<successes, handler>>
      PROVE  successes'[c] + Cardinality(H) <= Cardinality(Requests)
  BY <1>4, <1>5
<1>6. ASSUME NEW r \in Requests, UNCHANGED successes, NEW st, Goto(r, st),
             MaySucceed(st, c) => MaySucceed(handler[r], c)
      PROVE  successes'[c] + Cardinality(H) <= Cardinality(Requests)
  BY <1>0, <1>4, <1>6 DEF Goto
<1>7. ASSUME NEW r \in Requests, Step(r)
      PROVE  successes'[c] + Cardinality(H) <= Cardinality(Requests)
  <2> HIDE DEF G, H
  <2>2. ASSUME NEW cool \in BOOLEAN, StartIssue(r, cool)
        PROVE  successes'[c] + Cardinality(H) <= Cardinality(Requests)
    BY <1>6, <2>2 DEF StartIssue, MaySucceed
  <2>4. CASE GenerateCode(r)
    <3>1. \E st : Goto(r, st) /\ st.pc = "set"
      BY <2>4 DEF GenerateCode
    <3> QED  BY <1>6, <2>4, <3>1 DEF GenerateCode, MaySucceed
  <2>5. CASE RefuseIssue(r) \/ SetOtp(r) \/ RefuseVerify(r) \/ ClearOtp(r)
             \/ SignToken(r) \/ Fail(r)
    BY <1>6, <2>5 DEF RefuseIssue, SetOtp, RefuseVerify, ClearOtp, SignToken,
       Fail, MaySucceed, Idle
  <2>6. ASSUME NEW code \in {Wrong} \cup 1 .. issued, StartVerify(r, code)
        PROVE  successes'[c] + Cardinality(H) <= Cardinality(Requests)
    <3>1. PICK st : /\ Goto(r, st)
                    /\ st.pc = "check"
                    /\ st.record = auth_otps
                    /\ UNCHANGED successes
      BY <2>6 DEF StartVerify
    <3>2. CASE auth_otps.otp_hash = c
      <4>1. ~(successes[c] > 0)
        BY <3>2 DEF IInv, SpentIsGone
      <4>2. successes'[c] = 0
        BY <1>0, <3>1, <4>1
      <4> QED  BY <1>3, <4>2
    <3>3. CASE auth_otps.otp_hash # c
      BY <1>6, <3>1, <3>3 DEF MaySucceed
    <3> QED  BY <3>2, <3>3
  <2>8. CASE Compare(r)
    <3>1. \E st : /\ Goto(r, st)
                  /\ st.pc \in {"consume", "decrement"}
                  /\ st.code = handler[r].record.otp_hash
      BY <2>8 DEF Compare
    <3> QED  BY <1>6, <2>8, <3>1 DEF Compare, MaySucceed
  <2>9. CASE Decrement(r)
    <3>1. \E st : Goto(r, st) /\ st.pc \in {"clear", "idle"}
      BY <2>9 DEF Decrement, Idle
    <3> QED  BY <1>6, <2>9, <3>1 DEF Decrement, MaySucceed
  <2>11. CASE Consume(r)
    <3>1. PICK st : Goto(r, st) /\ st.pc = "sign"
      BY <2>11 DEF Consume
    <3>2. \A s \in Requests : handler'[s] = IF s = r THEN st ELSE handler[s]
      BY <1>0, <3>1 DEF Goto
    <3>3. CASE handler[r].code # c
      <4>1. successes'[c] = successes[c]
        BY <1>0, <2>11, <3>3 DEF Consume
      <4> QED  BY <1>4, <3>1, <3>2, <4>1 DEF MaySucceed
    <3>4. CASE handler[r].code = c
      <4>1. successes'[c] = successes[c] + 1
        BY <1>0, <2>11, <3>4 DEF Consume
      <4>2. r \in G
        BY <2>11, <3>4 DEF G, Succeeding, MaySucceed, Consume
      <4>3. \A s \in H : s \in G \ {r}
        BY <1>1, <3>1, <3>2 DEF G, Succeeding, MaySucceed
      <4>4. Cardinality(G \ {r}) = Cardinality(G) - 1
        BY <1>3, <4>2, FS_RemoveElement
      <4>5. Cardinality(H) <= Cardinality(G \ {r})
        BY <1>1, <1>2, <4>3, NoneJoins
      <4> QED  BY <1>0, <1>3, <4>1, <4>4, <4>5
    <3> QED  BY <3>3, <3>4
  <2> QED  BY <1>7, <2>2, <2>4, <2>5, <2>6, <2>8, <2>9, <2>11 DEF Step
<1>8. UNCHANGED <<successes, handler>> \/ \E r \in Requests : Step(r)
  BY DEF Next, Tick, vars
<1> QED  BY <1>5, <1>7, <1>8

\* A step keeps the codes that have succeeded out of the table.
LEMMA SpentStep == IInv /\ [Next]_vars => SpentIsGone'
<1> SUFFICES ASSUME IInv, [Next]_vars PROVE SpentIsGone'
  OBVIOUS
<1>0. /\ auth_otps \in Rows
      /\ handler \in [Requests -> HandlerStates]
      /\ successes \in [Codes -> Nat]
      /\ signed \subseteq Codes
      /\ SpentIsGone
  BY DEF IInv, TypeOK
\* A step that adds no success and no signing request, and no code to the row
\* that has succeeded.
<1>1. ASSUME UNCHANGED <<successes, signed>>,
             \A c \in Codes :
               auth_otps'.otp_hash = c /\ successes[c] > 0
                 => auth_otps.otp_hash = c,
             \A s \in Requests :
               handler'[s].pc = "sign"
                 => handler[s].pc = "sign" /\ handler'[s] = handler[s]
      PROVE  SpentIsGone'
  BY <1>0, <1>1 DEF SpentIsGone
<1>2. CASE UNCHANGED vars \/ Tick
  BY <1>1, <1>2 DEF vars, Tick
<1>3. ASSUME NEW r \in Requests, Step(r) PROVE SpentIsGone'
  <2>1. ASSUME NEW st, Goto(r, st), st.pc # "sign",
               UNCHANGED <<successes, signed>>,
               \A c \in Codes :
                 auth_otps'.otp_hash = c /\ successes[c] > 0
                   => auth_otps.otp_hash = c
        PROVE  SpentIsGone'
    BY <1>0, <1>1, <2>1 DEF Goto
  <2>2. ASSUME NEW cool \in BOOLEAN, StartIssue(r, cool) PROVE SpentIsGone'
    BY <2>1, <2>2 DEF StartIssue
  <2>3. CASE RefuseIssue(r) \/ RefuseVerify(r) \/ Fail(r)
    BY <2>1, <2>3 DEF RefuseIssue, RefuseVerify, Fail, Idle
  <2>4. CASE GenerateCode(r)
    <3>1. \E st : Goto(r, st) /\ st.pc = "set"
      BY <2>4 DEF GenerateCode
    <3> QED  BY <2>1, <2>4, <3>1 DEF GenerateCode
  <2>5. CASE SetOtp(r)
    <3>1. successes[handler[r].row.otp_hash] = 0
      BY <2>5 DEF IInv, FreshCodes, Untried, SetOtp
    <3> QED  BY <2>1, <2>5, <3>1 DEF SetOtp, Idle
  <2>6. ASSUME NEW code \in {Wrong} \cup 1 .. issued, StartVerify(r, code)
        PROVE  SpentIsGone'
    BY <2>1, <2>6 DEF StartVerify
  <2>8. CASE Compare(r)
    <3>1. \E st : Goto(r, st) /\ st.pc \in {"consume", "decrement"}
      BY <2>8 DEF Compare
    <3> QED  BY <2>1, <2>8, <3>1 DEF Compare
  <2>9. CASE Decrement(r)
    <3>1. \E st : Goto(r, st) /\ st.pc \in {"clear", "idle"}
      BY <2>9 DEF Decrement, Idle
    <3>2. auth_otps'.otp_hash = auth_otps.otp_hash
      BY <1>0, <2>9, DecrementedRow DEF Decrement
    <3> QED  BY <2>1, <2>9, <3>1, <3>2 DEF Decrement
  <2>10. CASE ClearOtp(r)
    BY <2>1, <2>10 DEF ClearOtp, NoRow, Row, Codes, Idle
  <2>11. CASE Consume(r)
    <3> DEFINE c == handler[r].code
    <3>1. c \in Codes
      BY <1>0, <2>11, HandlerTypes DEF Consume
    <3>2. \A d \in Codes :
            successes'[d] = IF d = c THEN successes[c] + 1 ELSE successes[d]
      BY <1>0, <2>11 DEF Consume
    <3>3. \A d \in Codes : auth_otps'.otp_hash # d
      BY <2>11 DEF Consume, NoRow, Row, Codes
    <3>4. \A s \in Requests :
            /\ s = r => handler'[s].code = c
            /\ s # r => handler'[s] = handler[s]
      BY <1>0, <2>11 DEF Consume, Goto
    <3>5. \A d \in Codes : successes[d] > 0 => successes'[d] > 0
      BY <1>0, <3>1, <3>2
    <3>6. successes'[c] > 0
      BY <1>0, <3>1, <3>2
    <3>7. ASSUME NEW s \in Requests, handler'[s].pc = "sign"
          PROVE  successes'[handler'[s].code] > 0
      <4>1. CASE s = r
        BY <3>4, <3>6, <4>1
      <4>2. CASE s # r
        BY <1>0, <3>4, <3>5, <3>7, <4>2, HandlerTypes DEF SpentIsGone
      <4> QED  BY <4>1, <4>2
    <3> QED  BY <1>0, <2>11, <3>3, <3>5, <3>7 DEF SpentIsGone, Consume
  <2>12. CASE SignToken(r)
    <3>1. successes[handler[r].code] > 0
      BY <1>0, <2>12 DEF SpentIsGone, SignToken
    <3>2. \A s \in Requests : handler'[s] = IF s = r THEN Idle ELSE handler[s]
      BY <1>0, <2>12 DEF SignToken, Goto
    <3> QED  BY <1>0, <2>12, <3>1, <3>2 DEF SpentIsGone, SignToken, Idle
  <2> QED  BY <1>3, <2>2, <2>3, <2>4, <2>5, <2>6, <2>8, <2>9, <2>10, <2>11,
              <2>12 DEF Step
<1> QED  BY <1>2, <1>3 DEF Next

-----------------------------------------------------------------------------
\* The inductive invariant holds at the start and is kept by every step.
LEMMA Invariance == Spec => []IInv
<1>1. Init => IInv
  <2> SUFFICES ASSUME Init PROVE IInv
    OBVIOUS
  <2>1. TypeOK
    BY OtpConstants, RealRow DEF Init, TypeOK, HandlerStates, Rows, NoRow, Row
  <2>2. /\ \A c \in Codes : Untried(c) /\ auth_otps.otp_hash # c
        /\ \A r \in Requests : handler[r].pc = "idle"
        /\ auth_otps.attempts_left = 0
    BY DEF Init, Untried, Knows, Idle, NoRow, Row, Codes
  <2>3. \A c \in Codes : Guessing(c) = {} /\ Succeeding(c) = {}
    BY <2>2 DEF Guessing, Succeeding, MayGuess, MaySucceed
  <2>4. Cardinality({}) = 0 /\ Cardinality(Requests) \in Nat
    BY OtpConstants, FS_EmptySet, FS_CardinalityType
  <2>5. GuessesToCome /\ SuccessesToCome
    <3>1. ASSUME NEW c \in Codes
          PROVE  /\ guesses[c] = 0 /\ Cardinality(Guessing(c)) = 0
                 /\ successes[c] = 0 /\ Cardinality(Succeeding(c)) = 0
      BY <2>3, <2>4 DEF Init
    <3>2. MaxAttempts \in Nat \ {0}
      BY OtpConstants
    <3> QED  BY <2>4, <3>1, <3>2 DEF GuessesToCome, SuccessesToCome
  <2>6. FreshCodes /\ GuessesTakenOff /\ SpentIsGone
    BY <2>2 DEF FreshCodes, GuessesTakenOff, SpentIsGone, Init
  <2> QED  BY <2>1, <2>5, <2>6 DEF IInv
<1>2. IInv /\ [Next]_vars => IInv'
  <2>1. IInv => TypeOK
    BY DEF IInv
  <2> QED  BY <2>1, TypeStep, FreshStep, TakenOffStep, GuessStep, SuccessStep,
              SpentStep DEF IInv
<1> QED  BY <1>1, <1>2, PTL DEF Spec

\* However the requests interleave and fail, no code is tried wrongly more often
\* than its attempts and one guess for each further request.
THEOREM QuotaSurvivesConcurrency == Spec => []GuessesBounded
<1>1. IInv => GuessesBounded
  <2> SUFFICES ASSUME IInv, NEW c \in Codes
               PROVE  guesses[c] <= MaxAttempts - 1 + Cardinality(Requests)
    BY DEF GuessesBounded
  <2>1. /\ guesses[c] \in Nat
        /\ MaxAttempts \in Nat
        /\ guesses[c] + Cardinality(Guessing(c))
             <= MaxAttempts - 1 + Cardinality(Requests)
    BY OtpConstants DEF IInv, TypeOK, GuessesToCome
  <2>2. Guessing(c) \in SUBSET Requests
    BY DEF Guessing
  <2>3. Cardinality(Guessing(c)) \in Nat /\ Cardinality(Requests) \in Nat
    BY <2>2, FiniteCounts
  <2> QED  BY <2>1, <2>3
<1> QED  BY <1>1, Invariance, PTL

\* A code succeeds at most once per concurrent request, and once it has
\* succeeded it is not in the table.
THEOREM SuccessSurvivesConcurrency == Spec => []SuccessesBounded
<1>1. IInv => SuccessesBounded
  <2> SUFFICES ASSUME IInv, NEW c \in Codes
               PROVE  /\ successes[c] <= Cardinality(Requests)
                      /\ successes[c] > 0 => auth_otps.otp_hash # c
    BY DEF SuccessesBounded
  <2>1. /\ successes[c] \in Nat
        /\ successes[c] + Cardinality(Succeeding(c)) <= Cardinality(Requests)
        /\ successes[c] > 0 => auth_otps.otp_hash # c
    BY DEF IInv, TypeOK, SuccessesToCome, SpentIsGone
  <2>2. Succeeding(c) \in SUBSET Requests
    BY DEF Succeeding
  <2>3. Cardinality(Succeeding(c)) \in Nat /\ Cardinality(Requests) \in Nat
    BY <2>2, FiniteCounts
  <2> QED  BY <2>1, <2>3
<1> QED  BY <1>1, Invariance, PTL

\* A code for which a token was signed is not in the table, nor on its way
\* there.
SignedCodeIsGone ==
    \A c \in signed :
        /\ auth_otps.otp_hash # c
        /\ \A r \in Requests : handler[r].pc = "set" => handler[r].row.otp_hash # c

THEOREM SignedCodesStayGone == Spec => []SignedCodeIsGone
<1>1. IInv => SignedCodeIsGone
  BY DEF IInv, TypeOK, SpentIsGone, FreshCodes, Untried, SignedCodeIsGone
<1> QED  BY <1>1, Invariance, PTL

\* Every code that enters the table is a new one.
THEOREM StoredCodesAreNew == Spec => StoredCodeIsNew
<1>1. IInv /\ [Next]_vars =>
        [\A c \in Codes :
           auth_otps'.otp_hash = c /\ auth_otps.otp_hash # c
             => guesses[c] = 0 /\ successes[c] = 0]_vars
  <2> SUFFICES ASSUME IInv, [Next]_vars, NEW c \in Codes,
                      auth_otps'.otp_hash = c, auth_otps.otp_hash # c
               PROVE  guesses[c] = 0 /\ successes[c] = 0
    OBVIOUS
  <2>1. auth_otps \in Rows
    BY DEF IInv, TypeOK
  <2>2. ASSUME NEW r \in Requests, SetOtp(r)
        PROVE  guesses[c] = 0 /\ successes[c] = 0
    BY <2>2 DEF IInv, FreshCodes, Untried, SetOtp
  <2>3. ASSUME NEW r \in Requests, ClearOtp(r) \/ Consume(r) PROVE FALSE
    BY <2>3 DEF ClearOtp, Consume, NoRow, Row, Codes
  <2>4. ASSUME NEW r \in Requests, Decrement(r) PROVE FALSE
    BY <2>1, <2>4, DecrementedRow DEF Decrement
  <2> QED  BY <2>2, <2>3, <2>4 DEF vars, Next, Step, Tick, StartIssue,
     RefuseIssue, GenerateCode, StartVerify, RefuseVerify, Compare, SignToken,
     Fail
<1> QED  BY <1>1, Invariance, PTL DEF Spec, StoredCodeIsNew

-----------------------------------------------------------------------------
\* What a request has loaded of the code in the table is as it was, but for
\* attempts taken off since; and who is to remove that code has a cause.
Loaded(k) ==
    /\ k.pc = "check" /\ k.record.otp_hash = auth_otps.otp_hash
         => /\ k.record.expires_at = auth_otps.expires_at
            /\ auth_otps.attempts_left <= k.record.attempts_left
    /\ k.pc = "clear" /\ k.code = auth_otps.otp_hash
         => now > auth_otps.expires_at \/ auth_otps.attempts_left <= 0

ClearedForCause == \A r \in Requests : Loaded(handler[r])

\* A step of one request that leaves the row alone or takes an attempt off.
LEMMA LoadedStays ==
    ASSUME TypeOK, TypeOK', ClearedForCause, now' >= now,
           auth_otps' = auth_otps \/ auth_otps' = Decremented(auth_otps),
           NEW r \in Requests, handler'[r] = handler[r]
    PROVE  Loaded(handler[r])'
<1>1. /\ auth_otps \in Rows /\ handler[r] \in HandlerStates /\ now \in Nat /\ now' \in Nat
      /\ auth_otps' \in Rows
  BY OtpConstants DEF TypeOK
<1>2. /\ auth_otps'.otp_hash = auth_otps.otp_hash
      /\ auth_otps'.expires_at = auth_otps.expires_at
      /\ auth_otps'.attempts_left <= auth_otps.attempts_left
      /\ auth_otps.attempts_left \in Nat /\ auth_otps'.attempts_left \in Nat
      /\ auth_otps.expires_at \in Int
  BY <1>1, DecrementedRow, RealRow, OtpConstants DEF Decremented, Row, Rows, NoRow
<1>3. Loaded(handler[r])
  BY DEF ClearedForCause
<1>4. handler[r].pc = "check" => handler[r].record.attempts_left \in Nat
  BY <1>1, HandlerTypes, RealRow, OtpConstants
<1> QED  BY <1>1, <1>2, <1>3, <1>4 DEF Loaded

LEMMA CauseStep == IInv /\ ClearedForCause /\ [Next]_vars => ClearedForCause'
<1> SUFFICES ASSUME IInv, ClearedForCause, [Next]_vars PROVE ClearedForCause'
  OBVIOUS
<1>0. /\ TypeOK /\ TypeOK' /\ auth_otps \in Rows /\ now \in Nat
      /\ handler \in [Requests -> HandlerStates]
  BY TypeStep, OtpConstants DEF IInv, TypeOK
<1>1. CASE UNCHANGED vars \/ Tick
  <2>1. auth_otps' = auth_otps /\ handler' = handler /\ now' >= now
    BY <1>0, <1>1 DEF vars, Tick
  <2> QED  BY <1>0, <2>1, LoadedStays DEF ClearedForCause
<1>2. ASSUME NEW r \in Requests, Step(r) PROVE ClearedForCause'
  \* It is enough to look at the request itself if it keeps the row.
  <2>1. ASSUME NEW st, Goto(r, st), Loaded(st)', now' = now,
               auth_otps' = auth_otps \/ auth_otps' = Decremented(auth_otps)
        PROVE  ClearedForCause'
    <3>1. ASSUME NEW s \in Requests PROVE Loaded(handler[s])'
      <4>1. CASE s = r
        <5>1. handler'[s] = st
          BY <1>0, <2>1, <4>1 DEF Goto
        <5> QED  BY <2>1, <5>1 DEF Loaded
      <4>2. CASE s # r
        <5>1. handler'[s] = handler[s] /\ now' >= now
          BY <1>0, <2>1, <4>2 DEF Goto
        <5> QED  BY <1>0, <2>1, <5>1, LoadedStays
      <4> QED  BY <4>1, <4>2
    <3> QED  BY <3>1 DEF ClearedForCause
  \* A step after which the row has no code that another request has loaded.
  <2>2. ASSUME NEW st, Goto(r, st), st.pc \notin {"check", "clear"},
               \A s \in Requests \ {r} :
                  /\ handler[s].pc = "check" => handler[s].record.otp_hash # auth_otps'.otp_hash
                  /\ handler[s].pc = "clear" => handler[s].code # auth_otps'.otp_hash
        PROVE  ClearedForCause'
    <3>1. \A s \in Requests : handler'[s] = IF s = r THEN st ELSE handler[s]
      BY <1>0, <2>2 DEF Goto
    <3> QED  BY <2>2, <3>1 DEF ClearedForCause, Loaded
  <2>3. ASSUME NEW cool \in BOOLEAN, StartIssue(r, cool) PROVE ClearedForCause'
    BY <2>1, <2>3 DEF StartIssue, Loaded
  <2>4. CASE RefuseIssue(r) \/ SignToken(r) \/ Fail(r)
    BY <2>1, <2>4 DEF RefuseIssue, SignToken, Fail, Loaded, Idle
  <2>5. CASE GenerateCode(r)
    <3>1. \E st : Goto(r, st) /\ st.pc = "set"
      BY <2>5 DEF GenerateCode
    <3> QED  BY <2>1, <2>5, <3>1 DEF GenerateCode, Loaded
  <2>6. CASE SetOtp(r)
    <3> DEFINE c == handler[r].row.otp_hash
    <3>1. Goto(r, Idle) /\ auth_otps'.otp_hash = c /\ Untried(c)
      BY <2>6 DEF SetOtp, IInv, FreshCodes
    <3>2. \A s \in Requests :
             /\ handler[s].pc = "check" => handler[s].record.otp_hash # c
             /\ handler[s].pc = "clear" => handler[s].code # c
      BY <3>1 DEF Untried, Knows
    <3> QED  BY <2>2, <3>1, <3>2 DEF Idle
  <2>7. ASSUME NEW code \in {Wrong} \cup 1 .. issued, StartVerify(r, code)
        PROVE  ClearedForCause'
    <3>1. auth_otps.attempts_left <= auth_otps.attempts_left
      BY <1>0, RealRow, OtpConstants
    <3> QED  BY <2>1, <2>7, <3>1 DEF StartVerify, Loaded
  <2>8. CASE RefuseVerify(r)
    <3>0. PICK st : st = [pc |-> "clear", code |-> handler[r].record.otp_hash]
      OBVIOUS
    <3>1. Goto(r, st) /\ auth_otps' = auth_otps /\ now' = now
          /\ handler[r].pc = "check" /\ Unusable(handler[r].record) /\ Loaded(handler[r])
      BY <2>8, <3>0 DEF RefuseVerify, ClearedForCause
    <3>2. handler[r].record \in Rows /\ handler[r].record.attempts_left \in Nat
          /\ auth_otps.attempts_left \in Nat
      BY <1>0, <3>1, HandlerTypes, RealRow, OtpConstants
    <3>3. Loaded(st)'
      BY <3>0, <3>1, <3>2 DEF Loaded, Unusable
    <3> QED  BY <2>1, <3>1, <3>3
  <2>9. CASE Compare(r)
    <3>1. \E st : Goto(r, st) /\ st.pc \in {"consume", "decrement"}
      BY <2>9 DEF Compare
    <3> QED  BY <2>1, <2>9, <3>1 DEF Compare, Loaded
  <2>10. CASE Decrement(r)
    <3>1. PICK st : /\ Goto(r, st)
                    /\ \/ st = Idle
                       \/ st.pc = "clear" /\ Decremented(auth_otps).attempts_left <= 0
      BY <2>10 DEF Decrement
    <3>2. auth_otps' = Decremented(auth_otps) /\ now' = now
      BY <2>10 DEF Decrement
    <3>3. Loaded(st)'
      BY <3>1, <3>2 DEF Loaded, Idle
    <3> QED  BY <2>1, <3>1, <3>2, <3>3
  <2>11. CASE ClearOtp(r) \/ Consume(r)
    <3>1. auth_otps'.otp_hash = -1
      BY <2>11 DEF ClearOtp, Consume, NoRow, Row
    <3>2. \A s \in Requests :
             /\ handler[s].pc = "check" => handler[s].record.otp_hash # -1
             /\ handler[s].pc = "clear" => handler[s].code # -1
      BY <1>0, HandlerTypes, RealRow DEF Codes
    <3>3. \E st : Goto(r, st) /\ st.pc \notin {"check", "clear"}
      BY <2>11 DEF ClearOtp, Consume, Idle
    <3> QED  BY <2>2, <3>1, <3>2, <3>3
  <2> QED  BY <1>2, <2>3, <2>4, <2>5, <2>6, <2>7, <2>8, <2>9, <2>10, <2>11 DEF Step
<1> QED  BY <1>1, <1>2 DEF Next

\* For any number of requests: a code that could still be used is removed only
\* by a request that had loaded another one.
THEOREM RemovalsHaveCauses == Spec => RemovedByCauseOrStale
<1>1. Init => ClearedForCause
  BY DEF Init, ClearedForCause, Loaded, Idle
<1>2. IInv /\ ClearedForCause /\ [Next]_vars =>
        [auth_otps # NoRow /\ auth_otps' = NoRow
           => \/ now > auth_otps.expires_at
              \/ auth_otps.attempts_left <= 0
              \/ successes'[auth_otps.otp_hash] > 0
              \/ \E r \in Requests :
                   /\ handler[r].pc \in {"clear", "consume"}
                   /\ handler'[r].pc # handler[r].pc
                   /\ handler[r].code # auth_otps.otp_hash]_vars
  <2> SUFFICES ASSUME IInv, ClearedForCause, [Next]_vars,
                      auth_otps # NoRow, auth_otps' = NoRow,
                      ~(now > auth_otps.expires_at \/ auth_otps.attempts_left <= 0),
                      ~(successes'[auth_otps.otp_hash] > 0)
               PROVE  \E r \in Requests :
                        /\ handler[r].pc \in {"clear", "consume"}
                        /\ handler'[r].pc # handler[r].pc
                        /\ handler[r].code # auth_otps.otp_hash
    OBVIOUS
  <2>0. /\ auth_otps \in Rows /\ handler \in [Requests -> HandlerStates]
        /\ successes \in [Codes -> Nat]
    BY DEF IInv, TypeOK
  <2>1. ASSUME NEW r \in Requests, ClearOtp(r)
        PROVE  /\ handler[r].pc = "clear" /\ handler'[r].pc = "idle"
               /\ handler[r].code # auth_otps.otp_hash
    BY <2>0, <2>1 DEF ClearOtp, Goto, Idle, ClearedForCause, Loaded
  <2>2. ASSUME NEW r \in Requests, Consume(r)
        PROVE  /\ handler[r].pc = "consume" /\ handler'[r].pc = "sign"
               /\ handler[r].code # auth_otps.otp_hash
    <3>1. handler[r].code \in Codes
      BY <2>0, <2>2, HandlerTypes DEF Consume
    <3>2. successes'[handler[r].code] > 0
      BY <2>0, <2>2, <3>1 DEF Consume
    <3> QED  BY <2>0, <2>2, <3>2 DEF Consume, Goto
  <2>3. ASSUME NEW r \in Requests, SetOtp(r) PROVE FALSE
    <3>1. handler[r].row \in Rows \ {NoRow}
      BY <2>0, <2>3, HandlerTypes DEF SetOtp
    <3> QED  BY <2>3, <3>1 DEF SetOtp
  <2>4. ASSUME NEW r \in Requests, Decrement(r) PROVE FALSE
    BY <2>0, <2>4, DecrementedRow, RealRow DEF Decrement
  <2> QED  BY <2>1, <2>2, <2>3, <2>4 DEF vars, Next, Step, Tick, StartIssue,
     RefuseIssue, GenerateCode, StartVerify, RefuseVerify, Compare, SignToken, Fail
<1> QED  BY <1>1, <1>2, CauseStep, Invariance, PTL DEF Spec, RemovedByCauseOrStale

-----------------------------------------------------------------------------
\* What a request that nobody meets has decided still holds of the row: what it
\* loaded is there, what it is about to count, consume or clear can be tried,
\* or has lapsed.
Steady(r) ==
    LET k == handler[r] IN
    /\ k.pc = "set" => k.row.expires_at <= now + Expiry
    /\ k.pc = "check" => k.record = auth_otps
    /\ k.pc \in {"consume", "decrement"} => k.code = auth_otps.otp_hash /\ Usable
    /\ k.pc = "clear" => (Usable => now > auth_otps.expires_at)

SerialInv == \A r \in Requests : Steady(r)

\* The numbers in a row.
LEMMA RowNumbers ==
    ASSUME NEW row \in Rows
    PROVE  row.expires_at \in Nat /\ row.attempts_left \in Nat
BY OtpConstants DEF Rows, NoRow, Row

LEMMA SerialStep ==
    ASSUME OneRequest
    PROVE  TypeOK /\ SerialInv /\ [Next]_vars => SerialInv'
<1> SUFFICES ASSUME TypeOK, SerialInv, [Next]_vars, NEW r \in Requests
             PROVE  Steady(r)'
  BY DEF SerialInv
<1>0. /\ handler \in [Requests -> HandlerStates]
      /\ auth_otps \in Rows /\ now \in Nat /\ Expiry \in Nat
      /\ Steady(r) /\ \A s \in Requests : s = r
  BY OtpConstants DEF TypeOK, SerialInv, OneRequest
<1>1. CASE UNCHANGED vars
  BY <1>0, <1>1 DEF vars, Steady, Usable
<1>2. CASE Tick
  <2>1. now' = now + 1 /\ UNCHANGED <<auth_otps, handler>>
    BY <1>2 DEF Tick
  <2>2. /\ handler[r].pc = "set" => handler[r].row.expires_at \in Nat
        /\ auth_otps.expires_at \in Nat
    BY <1>0, HandlerTypes, RowNumbers
  <2> QED
    BY <1>0, <2>1, <2>2 DEF Steady, Usable
<1>3. CASE Step(r)
  <2>1. ASSUME NEW st, Goto(r, st), st.pc \in {"idle", "issue", "sign"} PROVE Steady(r)'
    BY <1>0, <2>1 DEF Goto, Steady
  <2>2. CASE \/ \E cool \in BOOLEAN : StartIssue(r, cool)
             \/ RefuseIssue(r) \/ SetOtp(r) \/ ClearOtp(r) \/ Consume(r)
             \/ SignToken(r) \/ Fail(r)
    <3>1. ASSUME NEW cool \in BOOLEAN, StartIssue(r, cool) PROVE Steady(r)'
      BY <2>1, <3>1 DEF StartIssue
    <3>2. CASE Consume(r)
      BY <2>1, <3>2 DEF Consume
    <3>3. CASE RefuseIssue(r) \/ SetOtp(r) \/ ClearOtp(r) \/ SignToken(r) \/ Fail(r)
      BY <2>1, <3>3 DEF RefuseIssue, SetOtp, ClearOtp, SignToken, Fail, Idle
    <3> QED
      BY <2>2, <3>1, <3>2, <3>3
  <2>3. CASE GenerateCode(r)
    <3>1. PICK st : Goto(r, st) /\ st.pc = "set" /\ st.row.expires_at = now + Expiry
      BY <2>3 DEF GenerateCode, Row
    <3>2. handler'[r] = st /\ now' = now
      BY <1>0, <2>3, <3>1 DEF GenerateCode, Goto
    <3> QED
      BY <1>0, <3>1, <3>2 DEF Steady
  <2>4. ASSUME NEW code, StartVerify(r, code) PROVE Steady(r)'
    BY <1>0, <2>4 DEF StartVerify, Goto, Steady
  <2>5. CASE RefuseVerify(r)
    <3>1. /\ handler'[r].pc = "clear"
          /\ UNCHANGED <<auth_otps, now>>
          /\ Unusable(auth_otps)
      BY <1>0, <2>5 DEF RefuseVerify, Goto, Steady
    <3> QED
      BY <1>0, <3>1, RowNumbers DEF Unusable, Steady, Usable
  <2>6. CASE Compare(r)
    <3>1. PICK st : /\ Goto(r, st)
                    /\ st.pc \in {"consume", "decrement"}
                    /\ st.code = auth_otps.otp_hash
      BY <1>0, <2>6 DEF Compare, Steady
    <3>2. handler'[r] = st /\ UNCHANGED <<auth_otps, now>> /\ ~Unusable(auth_otps)
      BY <1>0, <2>6, <3>1 DEF Compare, Goto, Steady
    <3> QED
      BY <1>0, <3>1, <3>2, RowNumbers DEF Unusable, Steady, Usable
  <2>7. CASE Decrement(r)
    <3>1. CASE Decremented(auth_otps).attempts_left <= 0
      <4>1. handler'[r].pc = "clear" /\ auth_otps' = Decremented(auth_otps)
        BY <1>0, <2>7, <3>1 DEF Decrement, Goto
      <4>2. ~Usable'
        BY <1>0, <3>1, <4>1, DecrementedRow, RowNumbers DEF Usable
      <4> QED
        BY <4>1, <4>2 DEF Steady
    <3>2. CASE ~(Decremented(auth_otps).attempts_left <= 0)
      BY <2>1, <2>7, <3>2 DEF Decrement, Idle
    <3> QED
      BY <3>1, <3>2
  <2> QED
    BY <1>3, <2>2, <2>3, <2>4, <2>5, <2>6, <2>7 DEF Step
<1> QED
  BY <1>0, <1>1, <1>2, <1>3 DEF Next

\* One request at a time, the service implements the one-time code: its exact
\* quota, one success, and no end of a code without a cause.
THEOREM SerialIsOneTime ==
    ASSUME OneRequest
    PROVE  Spec => ImplementsOneTimeCode
<1> DEFINE live == IF Usable THEN auth_otps.otp_hash ELSE -1
           left == auth_otps.attempts_left
           deadline == IF Usable THEN auth_otps.expires_at ELSE 0
           accepted == {c \in Codes : successes[c] > 0}
<1>1. Init => OneTime!Init
  BY DEF Init, OneTime!Init, Usable, NoRow, Row
<1>2. IInv /\ SerialInv /\ [Next]_vars
        => [OneTime!Next]_<<live, left, deadline, now, accepted>>
  <2> SUFFICES ASSUME IInv, SerialInv, [Next]_vars
               PROVE  [OneTime!Next]_<<live, left, deadline, now, accepted>>
    OBVIOUS
  <2>0. /\ TypeOK /\ TypeOK'
        /\ auth_otps \in Rows /\ auth_otps' \in Rows
        /\ now \in Nat /\ Expiry \in Nat /\ MaxAttempts \in Nat \ {0}
        /\ left \in Nat
    BY TypeStep, RowNumbers, OtpConstants DEF IInv, TypeOK
  <2>1. ASSUME UNCHANGED <<auth_otps, now, successes>>
        PROVE  UNCHANGED <<live, left, deadline, now, accepted>>
    BY <2>1 DEF Usable
  <2>2. CASE Tick
    <3>1. OneTime!Pass
      BY <2>2 DEF Tick, Usable, OneTime!Pass
    <3> QED
      BY <3>1 DEF OneTime!Next
  \* A row that is removed ends what it stood for.
  <2>3. ASSUME auth_otps' = NoRow
        PROVE  OneTime!End
    BY <2>3 DEF NoRow, Row, Usable, OneTime!End
  <2>4. ASSUME Usable
        PROVE  /\ live = auth_otps.otp_hash /\ live \in Codes /\ live # -1
               /\ deadline = auth_otps.expires_at /\ left > 0
    BY <2>0, <2>4, RealRow DEF Usable, Codes
  <2>5. ASSUME NEW r \in Requests, SetOtp(r) PROVE OneTime!Next
    <3> DEFINE row == handler[r].row
    <3>1. /\ row \in Rows \ {NoRow}
          /\ row.attempts_left = MaxAttempts
          /\ Untried(row.otp_hash)
          /\ row.expires_at <= now + Expiry
      BY <2>0, <2>5, HandlerTypes DEF IInv, FreshCodes, SerialInv, Steady, SetOtp, TypeOK
    <3>2. PICK c \in Codes : c = row.otp_hash
      BY <3>1, RealRow
    <3>3. /\ auth_otps' = row /\ UNCHANGED <<now, successes>>
          /\ row.attempts_left > 0 /\ row.expires_at \in Nat
      BY <2>0, <2>5, <3>1, RowNumbers DEF SetOtp
    <3>4. c \notin accepted \cup {live}
      BY <3>1, <3>2 DEF Untried, Usable, Codes
    <3>5. /\ live' = c /\ left' = MaxAttempts
          /\ deadline' \in 0 .. now + Expiry
          /\ UNCHANGED <<now, accepted>>
      BY <2>0, <3>1, <3>2, <3>3 DEF Usable
    <3>6. OneTime!Issue(c)
      BY <3>4, <3>5 DEF OneTime!Issue
    <3> QED
      BY <3>6 DEF OneTime!Next
  <2>6. ASSUME NEW r \in Requests, Decrement(r) PROVE OneTime!Next
    <3>1. /\ Usable
          /\ auth_otps' = Decremented(auth_otps)
          /\ UNCHANGED <<now, accepted>>
      BY <2>6 DEF SerialInv, Steady, Decrement
    <3>2. /\ left' = left - 1
          /\ auth_otps'.otp_hash = auth_otps.otp_hash
          /\ auth_otps'.expires_at = auth_otps.expires_at
      BY <2>0, <2>4, <3>1, DecrementedRow DEF Decremented, Row
    <3>3. CASE left = 1
      <4>1. OneTime!LastTry
        BY <3>1, <3>2, <3>3 DEF Usable, OneTime!LastTry, OneTime!End
      <4> QED
        BY <4>1 DEF OneTime!Next
    <3>4. CASE left > 1
      <4>1. OneTime!WrongTry
        BY <2>0, <3>1, <3>2, <3>4 DEF Usable, OneTime!WrongTry
      <4> QED
        BY <4>1 DEF OneTime!Next
    <3> QED
      BY <2>0, <2>4, <3>1, <3>3, <3>4
  <2>7. ASSUME NEW r \in Requests, Consume(r) PROVE OneTime!Next
    <3>1. /\ Usable /\ handler[r].code = live
          /\ auth_otps' = NoRow /\ now' = now
          /\ successes' = [successes EXCEPT ![live] = @ + 1]
      BY <2>4, <2>7 DEF SerialInv, Steady, Consume
    <3>2. /\ live \in Codes /\ live # -1
          /\ successes \in [Codes -> Nat]
          /\ successes[live] = 0
      BY <2>0, <2>4, <3>1 DEF IInv, SpentIsGone, TypeOK
    <3>3. accepted' = accepted \cup {live} /\ live \notin accepted
      <4> HIDE DEF live
      <4> QED
        BY <3>1, <3>2
    <3>4. OneTime!Accept
      BY <2>3, <3>1, <3>2, <3>3 DEF OneTime!Accept
    <3> QED
      BY <3>4 DEF OneTime!Next
  <2>8. ASSUME NEW r \in Requests, ClearOtp(r)
        PROVE  [OneTime!Next]_<<live, left, deadline, now, accepted>>
    <3>1. /\ Usable => now > auth_otps.expires_at
          /\ auth_otps' = NoRow /\ UNCHANGED <<now, accepted>>
      BY <2>8 DEF SerialInv, Steady, ClearOtp
    <3>2. CASE Usable
      <4>1. OneTime!Lapse
        BY <2>3, <2>4, <3>1, <3>2 DEF OneTime!Lapse
      <4> QED
        BY <4>1 DEF OneTime!Next
    <3>3. CASE ~Usable
      <4>1. left = 0 /\ ~Usable' /\ left' = 0
        BY <2>0, <3>1, <3>3 DEF Usable, NoRow, Row
      <4> QED
        BY <3>1, <3>3, <4>1
    <3> QED
      BY <3>2, <3>3
  <2>9. \/ UNCHANGED <<auth_otps, now, successes>>
        \/ Tick
        \/ \E r \in Requests : SetOtp(r) \/ Decrement(r) \/ Consume(r) \/ ClearOtp(r)
    BY DEF Next, Step, vars, StartIssue, RefuseIssue, GenerateCode, StartVerify,
           RefuseVerify, Compare, SignToken, Fail
  <2> HIDE DEF live, left, deadline, accepted
  <2> QED
    BY <2>1, <2>2, <2>5, <2>6, <2>7, <2>8, <2>9
<1>3. Init => SerialInv
  BY DEF Init, SerialInv, Steady, Idle
<1>4. TypeOK /\ SerialInv /\ [Next]_vars => SerialInv'
  BY SerialStep
<1>5. Spec => []SerialInv
  BY <1>3, <1>4, TypeCorrect, PTL DEF Spec
<1> HIDE DEF live, left, deadline, accepted
<1> QED
  BY <1>1, <1>2, <1>5, Invariance, PTL
  DEF Spec, ImplementsOneTimeCode, OneTime!Spec, OneTime!state, live, left,
      deadline, accepted

\* What the documents say of a code and overlapping requests refute, one request
\* at a time keeps: three tries at most, one use, no removal without a cause.
THEOREM SerialPromisesHold ==
    ASSUME OneRequest
    PROVE  Spec => [](QuotaHolds /\ SingleUse) /\ RemovedForCause
<1>1. Cardinality(Requests) \in {0, 1}
  <2>1. CASE Requests = {}
    BY <2>1, FS_EmptySet
  <2>2. ASSUME NEW r \in Requests PROVE Cardinality(Requests) = 1
    <3>1. Requests = {r}
      BY DEF OneRequest
    <3> QED
      BY <3>1, FS_Singleton
  <2> QED
    BY <2>1, <2>2
<1>2. TypeOK /\ GuessesBounded /\ SuccessesBounded => QuotaHolds /\ SingleUse
  <2> SUFFICES ASSUME TypeOK, GuessesBounded, SuccessesBounded, NEW c \in Codes
               PROVE  guesses[c] <= MaxAttempts /\ successes[c] <= 1
    BY DEF QuotaHolds, SingleUse
  <2>1. /\ guesses[c] \in Nat /\ successes[c] \in Nat /\ MaxAttempts \in Nat
        /\ guesses[c] <= MaxAttempts - 1 + Cardinality(Requests)
        /\ successes[c] <= Cardinality(Requests)
    BY OtpConstants DEF TypeOK, GuessesBounded, SuccessesBounded
  <2> QED
    BY <1>1, <2>1
<1>3. IInv /\ SerialInv /\ [Next]_vars =>
        [auth_otps # NoRow /\ auth_otps' = NoRow
           => \/ now > auth_otps.expires_at
              \/ auth_otps.attempts_left <= 0
              \/ successes'[auth_otps.otp_hash] > 0]_vars
  <2> SUFFICES ASSUME IInv, SerialInv, [Next]_vars,
                      auth_otps # NoRow, auth_otps' = NoRow
               PROVE  \/ now > auth_otps.expires_at
                      \/ auth_otps.attempts_left <= 0
                      \/ successes'[auth_otps.otp_hash] > 0
    OBVIOUS
  <2>0. TypeOK /\ auth_otps \in Rows /\ auth_otps.attempts_left \in Nat
    BY RowNumbers DEF IInv, TypeOK
  <2>1. ASSUME NEW r \in Requests, ClearOtp(r)
        PROVE  now > auth_otps.expires_at \/ auth_otps.attempts_left <= 0
    <3>1. Usable => now > auth_otps.expires_at
      BY <2>1 DEF SerialInv, Steady, ClearOtp
    <3> QED
      BY <2>0, <3>1 DEF Usable
  <2>2. ASSUME NEW r \in Requests, Consume(r)
        PROVE  successes'[auth_otps.otp_hash] > 0
    <3>1. /\ handler[r].code = auth_otps.otp_hash
          /\ auth_otps.otp_hash \in Codes
          /\ successes' = [successes EXCEPT ![auth_otps.otp_hash] = @ + 1]
      BY <2>0, <2>2, RealRow DEF SerialInv, Steady, Consume
    <3> QED
      BY <2>0, <3>1 DEF TypeOK
  <2>3. ASSUME NEW r \in Requests, Decrement(r) PROVE FALSE
    BY <2>0, <2>3, DecrementedRow, RealRow DEF Decrement
  <2>4. ASSUME NEW r \in Requests, SetOtp(r) PROVE FALSE
    <3>1. handler[r].row # NoRow
      BY <2>0, <2>4, HandlerTypes DEF SetOtp, TypeOK
    <3> QED
      BY <2>4, <3>1 DEF SetOtp
  <2> QED
    BY <2>1, <2>2, <2>3, <2>4 DEF Next, Step, vars, Tick, StartIssue, RefuseIssue,
       GenerateCode, StartVerify, RefuseVerify, Compare, SignToken, Fail
<1>4. Init => SerialInv
  BY DEF Init, SerialInv, Steady, Idle
<1>5. TypeOK /\ SerialInv /\ [Next]_vars => SerialInv'
  BY SerialStep
<1> QED
  BY <1>2, <1>3, <1>4, <1>5, TypeCorrect, Invariance, QuotaSurvivesConcurrency,
     SuccessSurvivesConcurrency, PTL DEF Spec, RemovedForCause

=============================================================================
