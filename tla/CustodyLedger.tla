---------------------------- MODULE CustodyLedger ----------------------------
(***************************************************************************)
(* What the chain of custody promises its readers (README: "an append-only *)
(* custody_log"), without hashes, ids or sessions: per case, a set of      *)
(* entries at increasing positions, to which entries are only ever added,  *)
(* one at a time, each behind all that are there.                          *)
(***************************************************************************)
EXTENDS Naturals

CONSTANTS
    Cases,
    Entries,
    Positions   \* the positions an entry can take

VARIABLE ledger     \* ledger[c] = the <<position, entry>> pairs of case c

Init == ledger = [c \in Cases |-> {}]

\* One append: the new entry comes after everything a reader has seen.
Append(c, n, entry) ==
    /\ \A p \in ledger[c] : p[1] < n
    /\ ledger' = [ledger EXCEPT ![c] = @ \cup {<<n, entry>>}]

Next == \E c \in Cases, n \in Positions, entry \in Entries : Append(c, n, entry)

Spec == Init /\ [][Next]_ledger

=============================================================================
