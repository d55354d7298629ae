---------------------------- MODULE CustodyChain ----------------------------
(***************************************************************************)
(* The digital chain of custody: security/custody.py over the table        *)
(* custody_log.  Every request that touches a case ends in one or more     *)
(* calls of log_custody_action, each of which                              *)
(*                                                                         *)
(*   1. reads the current_hash of the newest row of the case (ReadPrev),   *)
(*   2. inserts a row that carries that hash as previous_hash (Flush: the  *)
(*      INSERT that db.commit() issues, which allocates the id), and       *)
(*   3. commits (Commit), after which other sessions see the row.          *)
(*                                                                         *)
(* Requests run in a thread pool and each has its own session at READ      *)
(* COMMITTED, so the steps of two requests interleave freely: nothing in   *)
(* the code locks the case between 1 and 3.  An exception, a failed        *)
(* commit or a crash of the server ends a call at any point (Fail).        *)
(*                                                                         *)
(* last_id is the sequence behind the column id, which no rollback resets: *)
(* an INSERT that is rolled back leaves its id unused.  The ids in         *)
(* committed are the ones a query returns.  No code updates or deletes a   *)
(* row.                                                                    *)
(***************************************************************************)
EXTENDS Naturals

CONSTANTS
    Cases,      \* case ids
    Requests,   \* the sessions that append (one call in flight each)
    Entries,    \* action, details and time of a record, as one value
    CasesOf,    \* CasesOf[r]: the cases that request r appends to
    MaxRows     \* bound on the number of ids that are allocated

ASSUME CustodyConstants ==
    /\ CasesOf \in [Requests -> SUBSET Cases]
    /\ MaxRows \in Nat

VARIABLES
    custody_log,    \* custody_log[id] = the row inserted with that id
    last_id,        \* the last id that an INSERT took
    committed,      \* the ids whose INSERT has been committed
    pc,             \* pc[r] = where request r is in log_custody_action
    record,         \* record[r] = the row that r has built but not inserted
    row_id          \* row_id[r] = the id of the row that r has inserted

vars == <<custody_log, last_id, committed, pc, record, row_id>>

-----------------------------------------------------------------------------
\* GENESIS_PREV_HASH: the previous hash of the first record of a case.
Genesis == <<>>

\* SHA-256 of the canonical JSON, as an injective function of what is hashed.
compute_custody_hash(c, entry, prev) == <<c, entry, prev>>

\* Ids of the rows of case c that a query of any session returns.
Visible(c) == {i \in committed : custody_log[i].case_id = c}

\* ORDER BY id DESC LIMIT 1, over a non-empty set of ids.
Newest(ids) == CHOOSE i \in ids : \A j \in ids : j <= i

\* current_hash of the newest row among ids; Genesis if there is none.
LastHash(ids) ==
    IF ids = {} THEN Genesis ELSE custody_log[Newest(ids)].current_hash

\* Mutants of get_latest_case_hash: without the filter on committed rows,
\* without the filter on the case, and without desc in the ordering.
LatestUncommitted(c) ==
    LastHash({i \in 1 .. last_id : custody_log[i].case_id = c})

LatestOfAnyCase(c) == LastHash(committed)

OldestHash(c) ==
    IF Visible(c) = {} THEN Genesis
    ELSE custody_log[CHOOSE i \in Visible(c) :
                        \A j \in Visible(c) : i <= j].current_hash

get_latest_case_hash(c) == LastHash(Visible(c))

\* verify_custody_chain: the loop carries the hash of the preceding record
\* as expected_prev, and recomputes the hash of every record.
expected_prev(c, i) == LastHash({j \in Visible(c) : j < i})

LinkOK(c, i) == custody_log[i].previous_hash = expected_prev(c, i)

HashOK(row) ==
    row.current_hash =
        compute_custody_hash(row.case_id, row.entry, row.previous_hash)

chain_valid(c) == \A i \in Visible(c) : LinkOK(c, i) /\ HashOK(custody_log[i])

-----------------------------------------------------------------------------
NoRow == [case_id |-> "none"]

NewRow(c, entry, prev) ==
    [case_id |-> c, entry |-> entry, previous_hash |-> prev,
     current_hash |-> compute_custody_hash(c, entry, prev)]

Init ==
    /\ custody_log = [i \in 1 .. MaxRows |-> NoRow]
    /\ last_id = 0
    /\ committed = {}
    /\ pc = [r \in Requests |-> "idle"]
    /\ record = [r \in Requests |-> NoRow]
    /\ row_id = [r \in Requests |-> 0]

\* Lines 62-91: the newest hash of the case is read, the record is built.
ReadPrev(r, c, entry) ==
    /\ pc[r] = "idle"
    /\ c \in CasesOf[r]
    /\ pc' = [pc EXCEPT ![r] = "built"]
    /\ record' = [record EXCEPT ![r] =
                    NewRow(c, entry, get_latest_case_hash(c))]
    /\ UNCHANGED <<custody_log, last_id, committed, row_id>>

\* Line 94, first half of db.commit(): the INSERT takes the next id.
Flush(r) ==
    /\ pc[r] = "built"
    /\ last_id < MaxRows
    /\ last_id' = last_id + 1
    /\ custody_log' = [custody_log EXCEPT ![last_id'] = record[r]]
    /\ pc' = [pc EXCEPT ![r] = "inserted"]
    /\ row_id' = [row_id EXCEPT ![r] = last_id']
    /\ record' = [record EXCEPT ![r] = NoRow]
    /\ UNCHANGED committed

\* Line 94, second half of db.commit(): other sessions see the row.
Commit(r) ==
    /\ pc[r] = "inserted"
    /\ pc' = [pc EXCEPT ![r] = "committed"]
    /\ committed' = committed \cup {row_id[r]}
    /\ UNCHANGED <<custody_log, last_id, record, row_id>>

\* Lines 95-96: refresh and return to the caller.
Return(r) ==
    /\ pc[r] = "committed"
    /\ pc' = [pc EXCEPT ![r] = "idle"]
    /\ row_id' = [row_id EXCEPT ![r] = 0]
    /\ UNCHANGED <<custody_log, last_id, committed, record>>

\* Mutant of Fail: the handler of a failing refresh takes the row back.
FailRemovesRow(r) ==
    /\ pc[r] # "idle"
    /\ pc' = [pc EXCEPT ![r] = "idle"]
    /\ committed' = committed \ {row_id[r]}
    /\ record' = [record EXCEPT ![r] = NoRow]
    /\ row_id' = [row_id EXCEPT ![r] = 0]
    /\ UNCHANGED <<custody_log, last_id>>

\* Lines 97-100, or the process dies.  A row inserted but not committed never
\* becomes visible; a committed one stays, although the caller of a failing
\* refresh (line 95) is told that the append failed.
Fail(r) ==
    /\ pc[r] # "idle"
    /\ pc' = [pc EXCEPT ![r] = "idle"]
    /\ record' = [record EXCEPT ![r] = NoRow]
    /\ row_id' = [row_id EXCEPT ![r] = 0]
    /\ UNCHANGED <<custody_log, last_id, committed>>

log_custody_action(r) ==
    \/ \E c \in Cases, entry \in Entries : ReadPrev(r, c, entry)
    \/ Flush(r)
    \/ Commit(r)
    \/ Return(r)
    \/ Fail(r)

Next == \E r \in Requests : log_custody_action(r)

Spec == Init /\ [][Next]_vars

-----------------------------------------------------------------------------
IsRow(row) == row.case_id \in Cases /\ row.entry \in Entries

\* Type invariant of the table and of the calls in flight.
TypeOK ==
    /\ last_id \in 0 .. MaxRows
    /\ DOMAIN custody_log = 1 .. MaxRows
    /\ \A i \in 1 .. last_id : IsRow(custody_log[i])
    /\ committed \subseteq 1 .. last_id
    /\ pc \in [Requests -> {"idle", "built", "inserted", "committed"}]
    /\ row_id \in [Requests -> 0 .. last_id]
    /\ DOMAIN record = Requests
    /\ \A r \in Requests : pc[r] = "built" => IsRow(record[r])

\* The link that row i carries was the current_hash of row j, or Genesis when
\* j = 0.
LinksTo(i, j) ==
    custody_log[i].previous_hash =
        IF j = 0 THEN Genesis ELSE custody_log[j].current_hash

\* A record hangs on the genesis value or on an older record of its own case
\* that was committed: never on one of another case, nor on one that a failed
\* commit took back (get_latest_case_hash filters by case, and reads only
\* what is committed).
NoDanglingLink ==
    \A c \in Cases : \A i \in Visible(c) :
        \E j \in {0} \cup Visible(c) : j < i /\ LinksTo(i, j)

\* Two records of a case that hang on the same hash.
Forked(c) ==
    \E i, j \in Visible(c) :
        i # j /\ custody_log[i].previous_hash = custody_log[j].previous_hash

\* As long as the table holds what log_custody_action wrote, the verification
\* of a case fails exactly when two of its appends read the same hash: the
\* interleaving of ReadPrev and Commit is the only cause of a failed check,
\* and no such interleaving escapes it.
InvalidIffForked == \A c \in Cases : chain_valid(c) <=> ~Forked(c)

\* A failed verification is never healed: no later append makes the chain of
\* that case verify again, so one unlucky interleaving marks the case for good.
InvalidForever ==
    [][\A c \in Cases : ~chain_valid(c) => ~chain_valid(c)']_vars

\* A row that was visible stays visible, and the chain that a reader saw is
\* not re-ordered under the reader when nobody else is between ReadPrev and
\* Commit on that case: a row becomes visible below a visible row only if the
\* chain is forked from then on.
LateRowForks ==
    [][\A c \in Cases :
         (\E i \in Visible(c)' \ Visible(c), j \in Visible(c) : i < j)
           => Forked(c)']_vars

-----------------------------------------------------------------------------
\* What a fork refutes (see InvalidIffForked), and no run checks.

\* What the verification is meant to say of a table that nobody edited
\* ("Append an immutable, verifiable record", custody.py line 58).
UntouchedChainVerifies == \A c \in Cases : chain_valid(c)

=============================================================================
