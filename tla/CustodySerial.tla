---------------------------- MODULE CustodySerial ----------------------------
(***************************************************************************)
(* The cases to which only one request appends: the situation that         *)
(* tests/test_custody.py exercises (one session) and that                  *)
(* log_custody_action is written for.  The requests of other cases         *)
(* interleave with it, share the id sequence, and fail at any step.        *)
(***************************************************************************)
EXTENDS CustodyChain

\* No two requests append to case c.
OneWriter(c) ==
    \A r, s \in Requests : c \in CasesOf[r] /\ c \in CasesOf[s] => r = s

SerialCases == {c \in Cases : OneWriter(c)}

\* A chain that one request at a time has written verifies, whatever fails
\* between its appends and whatever is appended to other cases meanwhile.
OneWriterVerifies == \A c \in SerialCases : chain_valid(c)

\* What readers of case c see: the entries of its committed rows at their ids.
Ledger ==
    INSTANCE CustodyLedger
        WITH Cases <- SerialCases,
             ledger <- [c \in SerialCases |->
                          {<<i, custody_log[i].entry>> : i \in Visible(c)}],
             Positions <- 1 .. MaxRows

\* The cases with one writer are an append-only ledger: every step of
\* log_custody_action appends one entry at the end of one of them or changes
\* nothing that their readers see, whatever fails and whatever happens elsewhere.
AppendOnlyLedger == Ledger!Spec

=============================================================================
