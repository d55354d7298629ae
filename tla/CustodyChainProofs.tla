------------------------- MODULE CustodyChainProofs -------------------------
(***************************************************************************)
(* Proofs about CustodyChain for every set of cases, requests and entries, *)
(* every assignment of cases to requests and every bound on the ids; and   *)
(* about CustodySerial for every assignment in which no two requests share *)
(* a case.                                                                 *)
(***************************************************************************)
EXTENDS CustodySerial, Integers, FiniteSetTheorems, WellFoundedInduction, TLAPS

\* A non-empty set of row ids has a least element (ORDER BY id).
LEMMA LeastElement ==
    ASSUME NEW n \in Nat, NEW T, T \subseteq 0 .. n, T # {}
    PROVE  \E m \in T : \A k \in T : m <= k
<1> DEFINE below(x) == {y \in T : y <= x}
           U == {below(x) : x \in T}
<1>1. IsFiniteSet(T)
    <2>1. 0 \in Int /\ n \in Int /\ T \in SUBSET (0 .. n)
        OBVIOUS
    <2>2. IsFiniteSet(0 .. n)
        BY <2>1, FS_Interval, Zenon
    <2>3. QED
        BY <2>1, <2>2, FS_Subset, Zenon
<1>2. IsWellFoundedOn(StrictSubsetOrdering(T), SUBSET T)
    BY <1>1, FS_StrictSubsetOrderingWellFounded, FS_FiniteSubsetsOfFinite
<1>3. U \subseteq SUBSET T /\ U # {}
    OBVIOUS
<1>4. PICK u \in U : \A v \in U : <<v, u>> \notin StrictSubsetOrdering(T)
    BY <1>2, <1>3, WFMin, Zenon
<1>5. PICK m \in T : u = below(m)
    OBVIOUS
<1>6. ASSUME NEW k \in T, k < m  PROVE FALSE
    <2>1. m \in below(m) /\ m \notin below(k)
        BY <1>6
    <2>2. below(k) \in U /\ below(m) \in SUBSET T /\ below(k) \in SUBSET T
        OBVIOUS
    <2>3. ASSUME NEW y \in below(k)  PROVE y \in below(m)
        BY <1>6
    <2>4. <<below(k), below(m)>> \in StrictSubsetOrdering(T)
        <3> HIDE DEF below
        <3> QED  BY <2>1, <2>2, <2>3 DEF StrictSubsetOrdering
    <2>5. QED
        BY <1>4, <1>5, <2>2, <2>4
<1>7. QED
    BY <1>6

\* A non-empty set of row ids has a greatest element (ORDER BY id DESC LIMIT 1).
LEMMA GreatestElement ==
    ASSUME NEW n \in Nat, NEW T, T \subseteq 0 .. n, T # {}
    PROVE  \E m \in T : \A k \in T : k <= m
<1> DEFINE U == {n - k : k \in T}
<1>1. U \subseteq 0 .. n /\ U # {}
    OBVIOUS
<1>2. PICK u \in U : \A v \in U : u <= v
    BY <1>1, LeastElement
<1>3. PICK m \in T : u = n - m
    OBVIOUS
<1>4. ASSUME NEW k \in T  PROVE k <= m
    <2>1. u <= n - k
        BY <1>2
    <2>2. QED
        BY <1>3, <2>1
<1>5. QED
    BY <1>4

-----------------------------------------------------------------------------
(***************************************************************************)
(* The inductive invariant: every row that was ever inserted carries its   *)
(* own hash and hangs on a row of its case that is visible, and so does    *)
(* the row that a request has built and not yet inserted.                  *)
(***************************************************************************)
Holding ==
    \A r \in Requests : pc[r] \in {"inserted", "committed"} => row_id[r] # 0

RowHangs(i) ==
    \E j \in {0} \cup Visible(custody_log[i].case_id) :
        j < i /\ LinksTo(i, j)

RecordHangs(r) ==
    \E j \in {0} \cup Visible(record[r].case_id) :
        record[r].previous_hash =
            IF j = 0 THEN Genesis ELSE custody_log[j].current_hash

RowsWritten ==
    \A i \in 1 .. last_id : HashOK(custody_log[i]) /\ RowHangs(i)

RecordsBuilt ==
    \A r \in Requests :
        pc[r] = "built" => HashOK(record[r]) /\ RecordHangs(r)

ChainInv == TypeOK /\ Holding /\ RowsWritten /\ RecordsBuilt

\* Type correctness of custody_log and of the calls in flight.
THEOREM TypeCorrect == Spec => [](TypeOK /\ Holding)
<1>1. Init => TypeOK /\ Holding
    BY CustodyConstants DEF Init, TypeOK, Holding
<1>2. TypeOK /\ Holding /\ [Next]_vars => (TypeOK /\ Holding)'
    <2> SUFFICES ASSUME TypeOK, Holding, [Next]_vars
                 PROVE  (TypeOK /\ Holding)'
        OBVIOUS
    <2> USE CustodyConstants DEF TypeOK, Holding, IsRow
    <2>1. ASSUME NEW r \in Requests, NEW c \in Cases, NEW entry \in Entries,
                 ReadPrev(r, c, entry)
          PROVE  (TypeOK /\ Holding)'
        BY <2>1 DEF ReadPrev, NewRow
    <2>2. ASSUME NEW r \in Requests, Flush(r)
          PROVE  (TypeOK /\ Holding)'
        BY <2>2 DEF Flush
    <2>3. ASSUME NEW r \in Requests, Commit(r)
          PROVE  (TypeOK /\ Holding)'
        <3>1. row_id[r] \in 1 .. last_id /\ row_id[r] \in 0 .. last_id
            BY <2>3 DEF Commit
        <3>2. committed' \subseteq 1 .. last_id'
            BY <2>3, <3>1 DEF Commit
        <3>3. pc' \in [Requests -> {"idle", "built", "inserted", "committed"}]
            BY <2>3 DEF Commit
        <3>4. Holding'
            BY <2>3, <3>1 DEF Commit
        <3>5. QED
            BY <2>3, <3>2, <3>3, <3>4 DEF Commit
    <2>4. ASSUME NEW r \in Requests, Return(r)
          PROVE  (TypeOK /\ Holding)'
        BY <2>4 DEF Return
    <2>5. ASSUME NEW r \in Requests, Fail(r)
          PROVE  (TypeOK /\ Holding)'
        BY <2>5 DEF Fail
    <2>6. CASE UNCHANGED vars
        BY <2>6 DEF vars
    <2>7. QED
        BY <2>1, <2>2, <2>3, <2>4, <2>5, <2>6 DEF Next, log_custody_action
<1>3. QED
    BY <1>1, <1>2, PTL DEF Spec
-----------------------------------------------------------------------------
\* The newest of a set of row ids is one of them and no other is newer.
LEMMA NewestRow ==
    ASSUME TypeOK, NEW ids, ids \subseteq 1 .. last_id, ids # {}
    PROVE  /\ Newest(ids) \in ids
           /\ \A j \in ids : j <= Newest(ids)
<1>1. last_id \in Nat /\ ids \subseteq 0 .. last_id
    BY CustodyConstants DEF TypeOK
<1>2. \E m \in ids : \A j \in ids : j <= m
    BY <1>1, GreatestElement, Zenon
<1>3. QED
    BY <1>2 DEF Newest

\* The visible rows of a case are rows of the table.
LEMMA VisibleRows ==
    ASSUME TypeOK, NEW c
    PROVE  Visible(c) \subseteq 1 .. last_id /\ 0 \notin Visible(c)
<1>1. committed \subseteq 1 .. last_id
    BY DEF TypeOK
<1>2. Visible(c) \subseteq committed
    BY DEF Visible
<1>3. 0 \notin 1 .. last_id
    OBVIOUS
<1>4. QED
    BY <1>1, <1>2, <1>3

\* What get_latest_case_hash returns is Genesis or the hash of a visible row.
LEMMA LatestHashHangs ==
    ASSUME TypeOK, NEW c
    PROVE  \E j \in {0} \cup Visible(c) :
              get_latest_case_hash(c) =
                  IF j = 0 THEN Genesis ELSE custody_log[j].current_hash
<1>1. CASE Visible(c) = {}
    BY <1>1 DEF get_latest_case_hash, LastHash
<1>2. CASE Visible(c) # {}
    <2>1. Newest(Visible(c)) \in Visible(c) /\ Newest(Visible(c)) # 0
        BY <1>2, NewestRow, VisibleRows
    <2>2. QED
        BY <1>2, <2>1 DEF get_latest_case_hash, LastHash
<1>3. QED
    BY <1>1, <1>2

\* No record hashes to the genesis value.
LEMMA HashNotGenesis ==
    ASSUME NEW c, NEW e, NEW p
    PROVE  compute_custody_hash(c, e, p) # Genesis
BY DEF compute_custody_hash, Genesis

-----------------------------------------------------------------------------
\* ChainInv is inductive.
THEOREM ChainInvariant == Spec => []ChainInv
<1>1. Init => RowsWritten /\ RecordsBuilt
    BY DEF Init, RowsWritten, RecordsBuilt
<1>2. ChainInv /\ (TypeOK /\ Holding)' /\ [Next]_vars
        => (RowsWritten /\ RecordsBuilt)'
    <2> SUFFICES ASSUME ChainInv, TypeOK', Holding', [Next]_vars
                 PROVE  (RowsWritten /\ RecordsBuilt)'
        OBVIOUS
    <2>0. \A i \in 1 .. last_id : i \in 1 .. MaxRows
        BY CustodyConstants DEF ChainInv, TypeOK
    <2>1. ASSUME NEW r \in Requests, NEW c \in Cases, NEW entry \in Entries,
                 ReadPrev(r, c, entry)
          PROVE  (RowsWritten /\ RecordsBuilt)'
        <3>1. RowsWritten'
            BY <2>1 DEF ChainInv, RowsWritten, ReadPrev, RowHangs, LinksTo,
                        Visible
        <3>2. ASSUME NEW s \in Requests, pc'[s] = "built", s # r
              PROVE  HashOK(record[s])' /\ RecordHangs(s)'
            BY <2>1, <3>2 DEF ChainInv, RecordsBuilt, ReadPrev, RecordHangs,
                              Visible, TypeOK, HashOK
        <3>3. record'[r] = NewRow(c, entry, get_latest_case_hash(c))
            BY <2>1 DEF ReadPrev, ChainInv, TypeOK
        <3>4. HashOK(record[r])'
            BY <3>3 DEF HashOK, NewRow
        <3>5. RecordHangs(r)'
            <4>1. Visible(c)' = Visible(c) /\ custody_log' = custody_log
                BY <2>1 DEF ReadPrev, Visible
            <4>2. record'[r].case_id = c
                  /\ record'[r].previous_hash = get_latest_case_hash(c)
                BY <3>3 DEF NewRow
            <4>3. QED
                BY <4>1, <4>2, LatestHashHangs DEF RecordHangs, ChainInv
        <3>6. QED
            BY <3>1, <3>2, <3>4, <3>5 DEF RecordsBuilt
    <2>2. ASSUME NEW r \in Requests, Flush(r)
          PROVE  (RowsWritten /\ RecordsBuilt)'
        <3>1. /\ last_id' = last_id + 1
              /\ last_id \in Nat
              /\ last_id' \in 1 .. MaxRows
              /\ custody_log'[last_id'] = record[r]
              /\ \A i \in 1 .. last_id : custody_log'[i] = custody_log[i]
            BY <2>2, <2>0, CustodyConstants DEF Flush, ChainInv, TypeOK
        <3>2. ASSUME NEW c  PROVE Visible(c)' = Visible(c)
            BY <2>2, <3>1 DEF Flush, Visible, ChainInv, TypeOK
        <3>3. ASSUME NEW i \in 1 .. last_id
              PROVE  HashOK(custody_log[i])' /\ RowHangs(i)'
            <4>1. HashOK(custody_log[i]) /\ RowHangs(i)
                BY DEF ChainInv, RowsWritten
            <4>2. PICK j \in {0} \cup Visible(custody_log[i].case_id) :
                      j < i /\ LinksTo(i, j)
                BY <4>1 DEF RowHangs
            <4>3. j = 0 \/ custody_log'[j] = custody_log[j]
                BY <3>1, VisibleRows DEF ChainInv
            <4>4. QED
                BY <3>1, <3>2, <4>1, <4>2, <4>3
                   DEF RowHangs, LinksTo, HashOK
        <3>4. HashOK(custody_log[last_id])' /\ RowHangs(last_id)'
            <4>1. pc[r] = "built" /\ HashOK(record[r]) /\ RecordHangs(r)
                BY <2>2 DEF Flush, ChainInv, RecordsBuilt
            <4>2. PICK j \in {0} \cup Visible(record[r].case_id) :
                      record[r].previous_hash =
                          IF j = 0 THEN Genesis ELSE custody_log[j].current_hash
                BY <4>1 DEF RecordHangs
            <4>3. j \in 0 .. last_id
                  /\ (j = 0 \/ custody_log'[j] = custody_log[j])
                BY <3>1, VisibleRows DEF ChainInv
            <4>4. j < last_id'
                BY <4>3, <3>1
            <4>5. RowHangs(last_id)'
                BY <3>1, <3>2, <4>2, <4>3, <4>4 DEF RowHangs, LinksTo
            <4>6. QED
                BY <3>1, <4>1, <4>5 DEF HashOK
        <3>5. ASSUME NEW s \in Requests, pc'[s] = "built"
              PROVE  HashOK(record[s])' /\ RecordHangs(s)'
            <4>1. s # r /\ pc[s] = "built" /\ record'[s] = record[s]
                BY <2>2, <3>5 DEF Flush, ChainInv, TypeOK
            <4>2. HashOK(record[s]) /\ RecordHangs(s)
                BY <4>1 DEF ChainInv, RecordsBuilt
            <4>3. PICK j \in {0} \cup Visible(record[s].case_id) :
                      record[s].previous_hash =
                          IF j = 0 THEN Genesis ELSE custody_log[j].current_hash
                BY <4>2 DEF RecordHangs
            <4>4. j = 0 \/ custody_log'[j] = custody_log[j]
                BY <3>1, VisibleRows DEF ChainInv
            <4>5. QED
                BY <3>2, <4>1, <4>2, <4>3, <4>4 DEF RecordHangs, HashOK
        <3>6. \A i \in 1 .. last_id' : i \in 1 .. last_id \/ i = last_id'
            BY <3>1
        <3>7. QED
            BY <3>3, <3>4, <3>5, <3>6 DEF RowsWritten, RecordsBuilt
    <2>3. ASSUME NEW r \in Requests, Commit(r)
          PROVE  (RowsWritten /\ RecordsBuilt)'
        <3>1. /\ custody_log' = custody_log
              /\ last_id' = last_id
              /\ record' = record
              /\ \A s \in Requests : pc'[s] = "built" => pc[s] = "built"
            BY <2>3 DEF Commit, ChainInv, TypeOK
        <3>2. ASSUME NEW c  PROVE Visible(c) \subseteq Visible(c)'
            BY <2>3 DEF Commit, Visible
        <3>3. RowsWritten'
            BY <3>1, <3>2 DEF ChainInv, RowsWritten, RowHangs, LinksTo, HashOK
        <3>4. RecordsBuilt'
            BY <3>1, <3>2 DEF ChainInv, RecordsBuilt, RecordHangs, HashOK
        <3>5. QED
            BY <3>3, <3>4
    <2>4. ASSUME NEW r \in Requests, Return(r) \/ Fail(r)
          PROVE  (RowsWritten /\ RecordsBuilt)'
        <3>1. /\ custody_log' = custody_log
              /\ last_id' = last_id
              /\ committed' = committed
              /\ \A s \in Requests :
                    pc'[s] = "built" => pc[s] = "built"
                                        /\ record'[s] = record[s]
            BY <2>4 DEF Return, Fail, ChainInv, TypeOK
        <3>2. RowsWritten'
            BY <3>1 DEF ChainInv, RowsWritten, RowHangs, LinksTo, HashOK,
                        Visible
        <3>3. RecordsBuilt'
            BY <3>1 DEF ChainInv, RecordsBuilt, RecordHangs, HashOK, Visible
        <3>4. QED
            BY <3>2, <3>3
    <2>5. CASE UNCHANGED vars
        BY <2>5 DEF vars, ChainInv, RowsWritten, RecordsBuilt, RowHangs,
                    RecordHangs, LinksTo, HashOK, Visible
    <2>6. QED
        BY <2>1, <2>2, <2>3, <2>4, <2>5 DEF Next, log_custody_action
<1>3. QED
    BY <1>1, <1>2, TypeCorrect, PTL DEF Spec, ChainInv

-----------------------------------------------------------------------------
\* Every visible record hangs on the genesis value or on an older visible
\* record of its own case, whatever the requests interleave and whichever fail.
THEOREM LinksNeverDangle == Spec => []NoDanglingLink
<1>1. ChainInv => NoDanglingLink
    <2> SUFFICES ASSUME ChainInv, NEW c \in Cases, NEW i \in Visible(c)
                 PROVE  \E j \in {0} \cup Visible(c) : j < i /\ LinksTo(i, j)
        BY DEF NoDanglingLink
    <2>1. i \in 1 .. last_id /\ custody_log[i].case_id = c
        BY VisibleRows DEF ChainInv, Visible
    <2>2. QED
        BY <2>1 DEF ChainInv, RowsWritten, RowHangs
<1>2. QED
    BY <1>1, ChainInvariant, PTL

\* The hash that the loop of verify_custody_chain expects of record i: that of
\* the visible record before it, if there is one.
LEMMA ExpectedPrevious ==
    ASSUME TypeOK, NEW c
    PROVE  \A i \in Visible(c) :
             \/ /\ {j \in Visible(c) : j < i} = {}
                /\ expected_prev(c, i) = Genesis
             \/ \E p \in Visible(c) :
                  /\ p < i
                  /\ \A j \in Visible(c) : j < i => j <= p
                  /\ expected_prev(c, i) = custody_log[p].current_hash
<1> TAKE i \in Visible(c)
<1> DEFINE earlier == {j \in Visible(c) : j < i}
<1>1. CASE earlier = {}
    BY <1>1 DEF expected_prev, LastHash
<1>2. CASE earlier # {}
    <2>1. earlier \subseteq 1 .. last_id
        BY VisibleRows
    <2>2. Newest(earlier) \in earlier /\ \A j \in earlier : j <= Newest(earlier)
        <3> HIDE DEF earlier
        <3> QED  BY <1>2, <2>1, NewestRow
    <2>3. expected_prev(c, i) = custody_log[Newest(earlier)].current_hash
        BY <1>2 DEF expected_prev, LastHash
    <2>4. QED
        BY <2>2, <2>3
<1>3. QED
    BY <1>1, <1>2

\* A chain without a fork verifies: otherwise take its first broken link; the
\* record it hangs on is not the one before it, so the successor of that
\* record, whose own link is good, hangs on the same hash.
LEMMA UnforkedIsValid ==
    ASSUME ChainInv, NEW c \in Cases, ~Forked(c)
    PROVE  chain_valid(c)
<1> USE DEF ChainInv
<1> DEFINE broken == {i \in Visible(c) : ~LinkOK(c, i)}
<1>0. /\ last_id \in Nat
      /\ Visible(c) \subseteq 1 .. last_id
      /\ 0 \notin Visible(c)
    BY VisibleRows, CustodyConstants DEF TypeOK
<1>1. \A i \in Visible(c) : HashOK(custody_log[i]) /\ RowHangs(i)
    BY <1>0 DEF RowsWritten
<1>2. SUFFICES ASSUME broken # {}  PROVE FALSE
    BY <1>1 DEF chain_valid
<1>3. PICK i \in broken : \A k \in broken : i <= k
    <2>1. broken \subseteq 0 .. last_id
        BY <1>0
    <2>2. QED
        <3> HIDE DEF broken
        <3> QED  BY <1>0, <1>2, <2>1, LeastElement
<1>4. i \in Visible(c) /\ custody_log[i].previous_hash # expected_prev(c, i)
    BY DEF LinkOK
<1>5. PICK j \in {0} \cup Visible(c) : j < i /\ LinksTo(i, j)
    BY <1>1, <1>4 DEF RowHangs, Visible
<1>6. \E k \in Visible(c) : j < k /\ k < i
    <2>1. CASE {k \in Visible(c) : k < i} = {}
        <3>1. j = 0 /\ expected_prev(c, i) = Genesis
            BY <2>1, <1>4, <1>5, ExpectedPrevious
        <3>2. QED
            BY <3>1, <1>4, <1>5 DEF LinksTo
    <2>2. CASE {k \in Visible(c) : k < i} # {}
        <3>1. PICK p \in Visible(c) :
                /\ p < i
                /\ \A k \in Visible(c) : k < i => k <= p
                /\ expected_prev(c, i) = custody_log[p].current_hash
            BY <2>2, <1>4, ExpectedPrevious
        <3>2. j # p
            BY <3>1, <1>0, <1>4, <1>5 DEF LinksTo
        <3>3. j <= p
            BY <3>1, <1>0, <1>5
        <3>4. QED
            BY <3>1, <3>2, <3>3, <1>0
    <2>3. QED
        BY <2>1, <2>2
<1>7. PICK s \in Visible(c) : /\ j < s /\ s < i
                              /\ \A k \in Visible(c) : j < k => s <= k
    <2> DEFINE after == {k \in Visible(c) : j < k}
    <2>1. after \subseteq 0 .. last_id /\ after # {}
        BY <1>0, <1>6
    <2>2. PICK s \in after : \A k \in after : s <= k
        <3> HIDE DEF after
        <3> QED  BY <1>0, <2>1, LeastElement
    <2>3. s < i
        BY <1>0, <1>6, <2>2
    <2>4. QED
        BY <2>2, <2>3
<1>8. custody_log[s].previous_hash = expected_prev(c, s)
    BY <1>0, <1>3, <1>7 DEF LinkOK
<1>9. custody_log[s].previous_hash = custody_log[i].previous_hash
    <2>1. CASE j = 0
        <3>1. {k \in Visible(c) : k < s} = {}
            BY <2>1, <1>0, <1>7
        <3>2. expected_prev(c, s) = Genesis
            BY <3>1, ExpectedPrevious
        <3>3. QED
            BY <2>1, <3>2, <1>5, <1>8 DEF LinksTo
    <2>2. CASE j \in Visible(c)
        <3>1. PICK p \in Visible(c) :
                /\ p < s
                /\ \A k \in Visible(c) : k < s => k <= p
                /\ expected_prev(c, s) = custody_log[p].current_hash
            BY <2>2, <1>7, ExpectedPrevious
        <3>2. p = j
            BY <2>2, <3>1, <1>0, <1>7
        <3>3. QED
            BY <2>2, <3>1, <3>2, <1>0, <1>5, <1>8 DEF LinksTo
    <2>3. QED
        BY <2>1, <2>2
<1>10. QED
    BY <1>0, <1>4, <1>7, <1>9 DEF Forked

\* A forked chain does not verify: take the first record that shares its link
\* with a later one.  If the chain verified, the records before the two would
\* have equal hashes, hence equal links, and the earlier one would be a smaller
\* such record.
LEMMA ForkedIsInvalid ==
    ASSUME ChainInv, NEW c \in Cases, Forked(c)
    PROVE  ~chain_valid(c)
<1> USE DEF ChainInv
<1> DEFINE Twin(i, j) ==
               i < j /\ custody_log[i].previous_hash = custody_log[j].previous_hash
           twins == {i \in Visible(c) : \E j \in Visible(c) : Twin(i, j)}
<1>0. /\ last_id \in Nat
      /\ Visible(c) \subseteq 1 .. last_id
    BY VisibleRows, CustodyConstants DEF TypeOK
<1>1. SUFFICES ASSUME chain_valid(c)  PROVE FALSE
    OBVIOUS
<1>2. twins # {}
    <2>1. PICK i, j \in Visible(c) :
            i # j /\ custody_log[i].previous_hash = custody_log[j].previous_hash
        BY DEF Forked
    <2>2. i < j \/ j < i
        BY <2>1, <1>0
    <2>3. QED
        BY <2>1, <2>2
<1>3. PICK i \in twins : \A k \in twins : i <= k
    <2>1. twins \subseteq 0 .. last_id
        BY <1>0
    <2>2. QED
        <3> HIDE DEF twins
        <3> QED  BY <1>0, <1>2, <2>1, LeastElement
<1>4. PICK j \in Visible(c) : Twin(i, j)
    OBVIOUS
<1>5. expected_prev(c, i) = expected_prev(c, j)
    BY <1>1, <1>4 DEF chain_valid, LinkOK
<1>6. PICK q \in Visible(c) :
        /\ q < j
        /\ \A k \in Visible(c) : k < j => k <= q
        /\ expected_prev(c, j) = custody_log[q].current_hash
    BY <1>4, ExpectedPrevious
<1>7. i <= q
    BY <1>4, <1>6
<1>8. HashOK(custody_log[q])
    BY <1>1 DEF chain_valid
<1>9. expected_prev(c, i) # Genesis
    BY <1>5, <1>6, <1>8, HashNotGenesis DEF HashOK
<1>10. PICK p \in Visible(c) :
        p < i /\ expected_prev(c, i) = custody_log[p].current_hash
    BY <1>9, ExpectedPrevious
<1>11. custody_log[p].previous_hash = custody_log[q].previous_hash
    <2>1. HashOK(custody_log[p])
        BY <1>1 DEF chain_valid
    <2>2. custody_log[p].current_hash = custody_log[q].current_hash
        BY <1>5, <1>6, <1>10
    <2>3. QED
        BY <1>8, <2>1, <2>2 DEF HashOK, compute_custody_hash
<1>12. p < q
    BY <1>0, <1>7, <1>10
<1>13. p \in twins
    BY <1>11, <1>12
<1>14. QED
    BY <1>0, <1>3, <1>10, <1>13

\* The verification of a case fails exactly when two appends read one hash.
THEOREM FailedVerificationIsAFork == Spec => []InvalidIffForked
<1>1. ChainInv => InvalidIffForked
    BY UnforkedIsValid, ForkedIsInvalid DEF InvalidIffForked
<1>2. QED
    BY <1>1, ChainInvariant, PTL

\* A step never takes a row back, nor changes a visible one.
LEMMA RowsKept ==
    ASSUME ChainInv, [Next]_vars, NEW c
    PROVE  /\ Visible(c) \subseteq Visible(c)'
           /\ \A i \in 1 .. last_id : custody_log'[i] = custody_log[i]
<1> USE CustodyConstants DEF ChainInv, TypeOK, Visible
<1>1. ASSUME NEW r \in Requests, Flush(r)
      PROVE  /\ Visible(c) \subseteq Visible(c)'
             /\ \A i \in 1 .. last_id : custody_log'[i] = custody_log[i]
    <2>1. \A i \in 1 .. last_id : custody_log'[i] = custody_log[i]
        BY <1>1 DEF Flush
    <2>2. committed' = committed /\ committed \subseteq 1 .. last_id
        BY <1>1 DEF Flush
    <2>3. QED
        BY <2>1, <2>2
<1>2. ASSUME NEW r \in Requests,
             \/ \E d \in Cases, entry \in Entries : ReadPrev(r, d, entry)
             \/ Commit(r) \/ Return(r) \/ Fail(r)
      PROVE  custody_log' = custody_log /\ committed \subseteq committed'
    BY <1>2 DEF ReadPrev, Commit, Return, Fail
<1>3. CASE UNCHANGED vars
    BY <1>3 DEF vars
<1>4. QED
    BY <1>1, <1>2, <1>3 DEF Next, log_custody_action

\* A fork stays: the two rows stay visible with the link they share.
LEMMA ForkStays ==
    ASSUME ChainInv, [Next]_vars, NEW c, Forked(c)
    PROVE  Forked(c)'
<1>1. PICK i, j \in Visible(c) :
        i # j /\ custody_log[i].previous_hash = custody_log[j].previous_hash
    BY DEF Forked
<1>2. i \in 1 .. last_id /\ j \in 1 .. last_id
    BY VisibleRows DEF ChainInv
<1>3. QED
    BY <1>1, <1>2, RowsKept DEF Forked

\* A failed verification is final.
THEOREM FailedVerificationIsFinal == Spec => InvalidForever
<1>1. ChainInv /\ ChainInv' /\ [Next]_vars
        => \A c \in Cases : ~chain_valid(c) => ~chain_valid(c)'
    <2> SUFFICES ASSUME ChainInv, ChainInv', [Next]_vars,
                        NEW c \in Cases, ~chain_valid(c)
                 PROVE  ~chain_valid(c)'
        OBVIOUS
    <2>1. Forked(c)
        BY UnforkedIsValid
    <2>2. Forked(c)'
        BY <2>1, ForkStays
    <2>3. ChainInv' /\ Forked(c)' => ~chain_valid(c)'
        BY ForkedIsInvalid, PTL
    <2>4. QED
        BY <2>2, <2>3
<1>2. QED
    BY <1>1, ChainInvariant, PTL DEF Spec, InvalidForever

\* The facts of VisibleRows and ExpectedPrevious, as formulas that can be
\* primed: they hold after a step as well.
InTable(c) == Visible(c) \subseteq 1 .. last_id /\ 0 \notin Visible(c)

PreviousIs(c) ==
    \A i \in Visible(c) :
        \/ {j \in Visible(c) : j < i} = {}
        \/ \E p \in Visible(c) :
             /\ p < i
             /\ \A j \in Visible(c) : j < i => j <= p
             /\ expected_prev(c, i) = custody_log[p].current_hash

\* A row links as the verification expects exactly when its previous row in id
\* order is the one whose hash it stores.
LEMMA NextLinks ==
    ASSUME NEW c
    PROVE  ChainInv' => InTable(c)' /\ PreviousIs(c)'
<1>1. ChainInv => InTable(c)
    BY VisibleRows DEF ChainInv, InTable
<1>2. ChainInv => PreviousIs(c)
    BY ExpectedPrevious DEF ChainInv, PreviousIs
<1>3. QED
    BY <1>1, <1>2, PTL

\* A step makes at most one row visible.
LEMMA OneRowAtATime ==
    ASSUME ChainInv, [Next]_vars, NEW c, NEW i \in Visible(c)' \ Visible(c)
    PROVE  Visible(c)' \ Visible(c) \subseteq {i}
<1> USE CustodyConstants DEF ChainInv, TypeOK, Visible
<1>1. ASSUME NEW r \in Requests, Commit(r)
      PROVE  Visible(c)' \ Visible(c) \subseteq {row_id[r]}
    BY <1>1 DEF Commit
<1>2. ASSUME NEW r \in Requests, Flush(r)
      PROVE  Visible(c)' \ Visible(c) = {}
    <2>1. \A k \in committed : custody_log'[k] = custody_log[k]
        BY <1>2 DEF Flush
    <2>2. committed' = committed
        BY <1>2 DEF Flush
    <2>3. QED
        BY <2>1, <2>2
<1>3. ASSUME NEW r \in Requests,
             \/ \E d \in Cases, entry \in Entries : ReadPrev(r, d, entry)
             \/ Return(r) \/ Fail(r)
      PROVE  Visible(c)' \ Visible(c) = {}
    BY <1>3 DEF ReadPrev, Return, Fail
<1>4. CASE UNCHANGED vars
    BY <1>4 DEF vars
<1>5. QED
    BY <1>1, <1>2, <1>3, <1>4 DEF Next, log_custody_action

\* A record that becomes visible below one that readers have already seen
\* comes with a fork of its case.
THEOREM LateRowIsAFork == Spec => LateRowForks
<1>1. ChainInv /\ ChainInv' /\ [Next]_vars
        => \A c \in Cases :
             (\E i \in Visible(c)' \ Visible(c), j \in Visible(c) : i < j)
               => Forked(c)'
    <2> SUFFICES ASSUME ChainInv, ChainInv', [Next]_vars, NEW c \in Cases,
                        NEW i \in Visible(c)' \ Visible(c),
                        NEW j \in Visible(c), i < j, ~Forked(c)'
                 PROVE  FALSE
        OBVIOUS
    <2>0. /\ last_id \in Nat
          /\ last_id' \in Nat
          /\ Visible(c) \subseteq 1 .. last_id
          /\ Visible(c)' \subseteq 1 .. last_id'
          /\ Visible(c) \subseteq Visible(c)'
          /\ \A k \in Visible(c) : custody_log'[k] = custody_log[k]
        <3>1. last_id \in Nat /\ last_id' \in Nat
            BY CustodyConstants DEF ChainInv, TypeOK
        <3>2. Visible(c) \subseteq 1 .. last_id
            BY VisibleRows DEF ChainInv
        <3>3. Visible(c)' \subseteq 1 .. last_id'
            BY NextLinks DEF InTable
        <3>4. QED
            BY <3>1, <3>2, <3>3, RowsKept
    <2>1. PICK s \in Visible(c)' :
            i < s /\ \A k \in Visible(c)' : i < k => s <= k
        <3> DEFINE after == {k \in Visible(c)' : i < k}
        <3>1. after \subseteq 0 .. last_id' /\ after # {}
            BY <2>0
        <3>2. PICK s \in after : \A k \in after : s <= k
            <4> HIDE DEF after
            <4> QED  BY <2>0, <3>1, LeastElement
        <3>3. QED
            BY <3>2
    <2>2. s <= j
        BY <2>0, <2>1
    <2>3. s \in Visible(c)
        <3>1. Visible(c)' \ Visible(c) \subseteq {i}
            BY OneRowAtATime
        <3>2. QED
            BY <2>0, <2>1, <3>1
    <2>4. chain_valid(c)'
        <3>1. ChainInv' /\ ~Forked(c)' => chain_valid(c)'
            BY UnforkedIsValid, PTL
        <3>2. QED
            BY <3>1
    <2>5. custody_log'[s].previous_hash = custody_log'[i].current_hash
        <3>1. custody_log'[s].previous_hash = expected_prev(c, s)'
            BY <2>1, <2>4 DEF chain_valid, LinkOK
        <3>2. \/ {k \in Visible(c)' : k < s} = {}
              \/ \E p \in Visible(c)' :
                   /\ p < s
                   /\ \A k \in Visible(c)' : k < s => k <= p
                   /\ expected_prev(c, s)' = custody_log'[p].current_hash
            BY <2>1, NextLinks DEF PreviousIs
        <3>3. PICK p \in Visible(c)' :
                   /\ p < s
                   /\ \A k \in Visible(c)' : k < s => k <= p
                   /\ expected_prev(c, s)' = custody_log'[p].current_hash
            BY <2>1, <3>2
        <3>4. p = i
            BY <2>0, <2>1, <3>3
        <3>5. QED
            BY <3>1, <3>3, <3>4
    <2>6. HashOK(custody_log'[i])
        BY <2>4 DEF chain_valid
    <2>7. PICK x \in {0} \cup Visible(c) : x < s /\ LinksTo(s, x)
        BY <2>0, <2>3 DEF ChainInv, RowsWritten, RowHangs, Visible
    <2>8. x \in Visible(c) /\ custody_log'[i].current_hash = custody_log'[x].current_hash
        BY <2>0, <2>3, <2>5, <2>6, <2>7, HashNotGenesis DEF LinksTo, HashOK
    <2>9. HashOK(custody_log'[x])
        BY <2>0, <2>4, <2>8 DEF chain_valid
    <2>10. custody_log'[i].previous_hash = custody_log'[x].previous_hash
        BY <2>6, <2>8, <2>9 DEF HashOK, compute_custody_hash
    <2>11. i \in Visible(c)' /\ x \in Visible(c)' /\ i # x
        BY <2>0, <2>8
    <2>12. QED
        BY <2>10, <2>11 DEF Forked
<1>2. QED
    BY <1>1, ChainInvariant, PTL DEF Spec, LateRowForks

-----------------------------------------------------------------------------
(***************************************************************************)
(* Cases with one writer.  Between ReadPrev and Commit of their request    *)
(* nothing becomes visible in them, so the hash it read is still the       *)
(* newest one when its row becomes visible.                                *)
(***************************************************************************)
StillNewest(r) ==
    /\ pc[r] = "built" =>
         /\ record[r].case_id \in CasesOf[r]
         /\ OneWriter(record[r].case_id) =>
              record[r].previous_hash = get_latest_case_hash(record[r].case_id)
    /\ pc[r] = "inserted" =>
         LET c == custody_log[row_id[r]].case_id
         IN  /\ c \in CasesOf[r]
             /\ OneWriter(c) =>
                  /\ custody_log[row_id[r]].previous_hash
                       = get_latest_case_hash(c)
                  /\ \A i \in Visible(c) : i < row_id[r]

SerialInv ==
    /\ \A r \in Requests : StillNewest(r)
    /\ OneWriterVerifies

\* A step that leaves the table and the visible rows of case c alone changes
\* nothing that is read from them.
LEMMA SameReads ==
    ASSUME NEW c, Visible(c)' = Visible(c), TypeOK,
           \A i \in 1 .. last_id : custody_log'[i] = custody_log[i]
    PROVE  /\ get_latest_case_hash(c)' = get_latest_case_hash(c)
           /\ \A i \in Visible(c) : expected_prev(c, i)' = expected_prev(c, i)
           /\ chain_valid(c)' <=> chain_valid(c)
<1>1. ASSUME NEW ids \in SUBSET Visible(c)
      PROVE  LastHash(ids)' = LastHash(ids)
    <2>1. CASE ids = {}
        BY <2>1 DEF LastHash
    <2>2. CASE ids # {}
        <3>1. Newest(ids) \in ids
            BY <2>2, VisibleRows, NewestRow
        <3>2. custody_log'[Newest(ids)] = custody_log[Newest(ids)]
            BY <3>1, VisibleRows
        <3>3. QED
            BY <2>2, <3>2 DEF LastHash
    <2>3. QED
        BY <2>1, <2>2
<1>2. get_latest_case_hash(c)' = get_latest_case_hash(c)
    BY <1>1 DEF get_latest_case_hash
<1>3. ASSUME NEW i \in Visible(c)
      PROVE  expected_prev(c, i)' = expected_prev(c, i)
    <2>1. {j \in Visible(c) : j < i} \in SUBSET Visible(c)
        OBVIOUS
    <2>2. QED
        BY <1>1, <2>1 DEF expected_prev
<1>4. \A i \in Visible(c) : custody_log'[i] = custody_log[i]
    BY VisibleRows
<1>5. QED
    BY <1>2, <1>3, <1>4 DEF chain_valid, LinkOK, HashOK

\* In a case with one writer, every step keeps the rows in commit order and
\* the previous hash of the writer's record that of the newest row.
LEMMA SerialStep ==
    ASSUME ChainInv, ChainInv', SerialInv, [Next]_vars
    PROVE  SerialInv'
<1> USE DEF ChainInv
<1>0. \A i \in 1 .. last_id : custody_log'[i] = custody_log[i]
    BY RowsKept
<1>1. ASSUME NEW r \in Requests, NEW d \in Cases, NEW entry \in Entries,
             ReadPrev(r, d, entry)
      PROVE  SerialInv'
    <2>1. \A c : Visible(c)' = Visible(c)
        BY <1>1 DEF ReadPrev, Visible
    <2>2. OneWriterVerifies'
        BY <1>0, <2>1, SameReads DEF SerialInv, OneWriterVerifies, SerialCases
    <2>3. ASSUME NEW s \in Requests  PROVE StillNewest(s)'
        <3>1. CASE s = r
            <4>1. record'[r] = NewRow(d, entry, get_latest_case_hash(d))
                  /\ pc'[r] = "built" /\ d \in CasesOf[r]
                BY <1>1 DEF ReadPrev, TypeOK
            <4>2. get_latest_case_hash(d)' = get_latest_case_hash(d)
                BY <1>0, <2>1, SameReads
            <4>3. QED
                BY <3>1, <4>1, <4>2 DEF StillNewest, NewRow
        <3>2. CASE s # r
            <4>1. pc'[s] = pc[s] /\ record'[s] = record[s]
                  /\ row_id'[s] = row_id[s] /\ custody_log' = custody_log
                BY <1>1, <3>2 DEF ReadPrev, TypeOK
            <4>2. StillNewest(s)
                BY DEF SerialInv
            <4>3. QED
                BY <4>1, <4>2, <1>0, <2>1, SameReads DEF StillNewest
        <3>3. QED
            BY <3>1, <3>2
    <2>4. QED
        BY <2>2, <2>3 DEF SerialInv
<1>2. ASSUME NEW r \in Requests, Flush(r)
      PROVE  SerialInv'
    <2>0. /\ last_id \in Nat
          /\ last_id' = last_id + 1
          /\ custody_log'[last_id'] = record[r]
          /\ row_id'[r] = last_id'
          /\ pc[r] = "built" /\ pc'[r] = "inserted"
        BY <1>2, CustodyConstants DEF Flush, TypeOK
    <2>1. ASSUME NEW c  PROVE Visible(c)' = Visible(c)
        BY <1>0, <1>2, VisibleRows DEF Flush, Visible, TypeOK
    <2>2. OneWriterVerifies'
        BY <1>0, <2>1, SameReads DEF SerialInv, OneWriterVerifies, SerialCases
    <2>3. ASSUME NEW s \in Requests  PROVE StillNewest(s)'
        <3>1. CASE s = r
            <4>1. /\ record[r].case_id \in CasesOf[r]
                  /\ OneWriter(record[r].case_id) => record[r].previous_hash
                       = get_latest_case_hash(record[r].case_id)
                BY <2>0 DEF SerialInv, StillNewest
            <4>2. \A i \in Visible(record[r].case_id) : i < last_id'
                BY <2>0, VisibleRows
            <4>3. QED
                BY <3>1, <4>1, <4>2, <2>0, <2>1, <1>0, SameReads
                   DEF StillNewest
        <3>2. CASE s # r
            <4>1. pc'[s] = pc[s] /\ record'[s] = record[s]
                  /\ row_id'[s] = row_id[s]
                BY <1>2, <3>2 DEF Flush, TypeOK
            <4>2. pc[s] = "inserted" => row_id[s] \in 1 .. last_id
                BY <2>0 DEF Holding, TypeOK
            <4>3. StillNewest(s)
                BY DEF SerialInv
            <4>4. QED
                BY <4>1, <4>2, <4>3, <1>0, <2>1, SameReads DEF StillNewest
        <3>3. QED
            BY <3>1, <3>2
    <2>4. QED
        BY <2>2, <2>3 DEF SerialInv
<1>3. ASSUME NEW r \in Requests, Commit(r)
      PROVE  SerialInv'
    <2>i. PICK id : id = row_id[r]
        OBVIOUS
    <2>d. PICK d : d = custody_log[id].case_id
        OBVIOUS
    <2>0. /\ id \in 1 .. last_id
          /\ custody_log' = custody_log
          /\ committed' = committed \cup {id}
          /\ last_id \in Nat
          /\ d \in CasesOf[r]
          /\ OneWriter(d) =>
               /\ custody_log[id].previous_hash = get_latest_case_hash(d)
               /\ \A i \in Visible(d) : i < id
        BY <1>3, <2>i, <2>d, CustodyConstants
           DEF Commit, TypeOK, Holding, SerialInv, StillNewest
    <2>1. ASSUME NEW c, c # d  PROVE Visible(c)' = Visible(c)
        BY <2>0, <2>1, <2>d DEF Visible
    <2>2. Visible(d)' = Visible(d) \cup {id}
        BY <2>0, <2>d DEF Visible
    <2>3. ASSUME NEW c \in SerialCases  PROVE chain_valid(c)'
        <3>1. CASE c # d
            BY <1>0, <2>1, <3>1, SameReads DEF SerialInv, OneWriterVerifies, SerialCases
        <3>2. CASE c = d
            <4>0. OneWriter(d)
                BY <3>2 DEF SerialCases
            <4>1. ASSUME NEW i \in Visible(d)
                  PROVE  LinkOK(d, i)'
                <5>1. i < id
                    BY <2>0, <4>0
                <5>2. i \in 1 .. last_id
                    BY VisibleRows
                <5>3. {j \in Visible(d)' : j < i} = {j \in Visible(d) : j < i}
                    BY <2>0, <2>2, <5>1, <5>2
                <5>4. expected_prev(d, i)' = expected_prev(d, i)
                    <6>1. PICK ids : ids = {j \in Visible(d) : j < i}
                        OBVIOUS
                    <6>2. expected_prev(d, i) = LastHash(ids)
                        BY <6>1 DEF expected_prev
                    <6>3. expected_prev(d, i)' = LastHash(ids)'
                        BY <5>3, <6>1 DEF expected_prev, LastHash
                    <6>4. LastHash(ids)' = LastHash(ids)
                        BY <2>0 DEF LastHash
                    <6>5. QED
                        BY <6>2, <6>3, <6>4
                <5>5. LinkOK(d, i)
                    BY <3>2 DEF SerialInv, OneWriterVerifies, SerialCases, chain_valid
                <5>6. QED
                    BY <2>0, <5>4, <5>5 DEF LinkOK
            <4>2. LinkOK(d, id)'
                <5>1. {j \in Visible(d)' : j < id} = Visible(d)
                    BY <2>0, <2>2, <4>0
                <5>2. expected_prev(d, id)' = get_latest_case_hash(d)
                    <6>1. PICK ids : ids = Visible(d)
                        OBVIOUS
                    <6>2. expected_prev(d, id)' = LastHash(ids)'
                        BY <5>1, <6>1 DEF expected_prev, LastHash
                    <6>3. LastHash(ids)' = LastHash(ids)
                        BY <2>0 DEF LastHash
                    <6>4. QED
                        BY <6>1, <6>2, <6>3 DEF get_latest_case_hash
                <5>3. QED
                    BY <2>0, <4>0, <5>2 DEF LinkOK
            <4>3. \A i \in Visible(d)' : HashOK(custody_log'[i])
                <5>1. \A i \in 1 .. last_id : HashOK(custody_log[i])
                    BY DEF RowsWritten
                <5>2. Visible(d)' \subseteq 1 .. last_id
                    BY <2>0, <2>2, VisibleRows
                <5>3. QED
                    BY <2>0, <5>1, <5>2
            <4>4. QED
                BY <2>2, <3>2, <4>1, <4>2, <4>3 DEF chain_valid
        <3>3. QED
            BY <3>1, <3>2
    <2>4. ASSUME NEW s \in Requests  PROVE StillNewest(s)'
        <3>1. CASE s = r
            BY <1>3, <3>1 DEF Commit, TypeOK, StillNewest
        <3>2. CASE s # r
            <4>1. pc'[s] = pc[s] /\ record'[s] = record[s]
                  /\ row_id'[s] = row_id[s]
                BY <1>3, <3>2 DEF Commit, TypeOK
            <4>2. StillNewest(s)
                BY DEF SerialInv
            <4>3. \A c \in CasesOf[s] : OneWriter(c) => c # d
                BY <2>0, <3>2 DEF OneWriter
            <4>4. QED
                BY <4>1, <4>2, <4>3, <2>0, <2>1, <1>0, SameReads DEF StillNewest
        <3>3. QED
            BY <3>1, <3>2
    <2>5. QED
        BY <2>3, <2>4 DEF SerialInv, OneWriterVerifies, SerialCases
<1>4. ASSUME NEW r \in Requests, Return(r) \/ Fail(r)
      PROVE  SerialInv'
    <2>1. \A c : Visible(c)' = Visible(c)
        BY <1>4 DEF Return, Fail, Visible
    <2>2. OneWriterVerifies'
        BY <1>0, <2>1, SameReads DEF SerialInv, OneWriterVerifies, SerialCases
    <2>3. ASSUME NEW s \in Requests  PROVE StillNewest(s)'
        <3>1. CASE s = r
            BY <1>4, <3>1 DEF Return, Fail, TypeOK, StillNewest
        <3>2. CASE s # r
            <4>1. pc'[s] = pc[s] /\ record'[s] = record[s]
                  /\ row_id'[s] = row_id[s] /\ custody_log' = custody_log
                BY <1>4, <3>2 DEF Return, Fail, TypeOK
            <4>2. StillNewest(s)
                BY DEF SerialInv
            <4>3. QED
                BY <4>1, <4>2, <1>0, <2>1, SameReads DEF StillNewest
        <3>3. QED
            BY <3>1, <3>2
    <2>4. QED
        BY <2>2, <2>3 DEF SerialInv
<1>5. CASE UNCHANGED vars
    <2>1. \A c : Visible(c)' = Visible(c)
        BY <1>5 DEF vars, Visible
    <2>2. OneWriterVerifies'
        BY <1>0, <2>1, SameReads DEF SerialInv, OneWriterVerifies, SerialCases
    <2>3. \A s \in Requests : StillNewest(s)'
        BY <1>0, <1>5, <2>1, SameReads DEF vars, SerialInv, StillNewest
    <2>4. QED
        BY <2>2, <2>3 DEF SerialInv
<1>6. QED
    BY <1>1, <1>2, <1>3, <1>4, <1>5 DEF Next, log_custody_action

\* Every case with one writer verifies.
THEOREM SerialChainVerifies == Spec => []OneWriterVerifies
<1>1. Init => SerialInv
    BY DEF Init, SerialInv, StillNewest, OneWriterVerifies, chain_valid,
           Visible
<1>2. ChainInv /\ ChainInv' /\ SerialInv /\ [Next]_vars => SerialInv'
    BY SerialStep
<1>3. SerialInv => OneWriterVerifies
    BY DEF SerialInv
<1>4. QED
    BY <1>1, <1>2, <1>3, ChainInvariant, PTL DEF Spec

\* The cases with one writer implement the append-only ledger.
THEOREM SerialIsAppendOnly == Spec => AppendOnlyLedger
<1> DEFINE ledger == [c \in SerialCases |->
                        {<<i, custody_log[i].entry>> : i \in Visible(c)}]
<1>1. Init => Ledger!Init
    BY DEF Init, Ledger!Init, Visible
<1>2. ChainInv /\ SerialInv /\ [Next]_vars => [Ledger!Next]_ledger
    <2> SUFFICES ASSUME ChainInv, SerialInv, [Next]_vars
                 PROVE  [Ledger!Next]_ledger
        OBVIOUS
    <2> USE DEF ChainInv
    <2>1. ASSUME NEW r \in Requests, Commit(r)
          PROVE  Ledger!Next \/ ledger' = ledger
        <3>1. PICK id : id = row_id[r]
            OBVIOUS
        <3>2. PICK d : d = custody_log[id].case_id
            OBVIOUS
        <3>3. /\ id \in 1 .. last_id
              /\ id \in 1 .. MaxRows
              /\ custody_log' = custody_log
              /\ committed' = committed \cup {id}
              /\ d \in Cases
              /\ custody_log[id].entry \in Entries
              /\ OneWriter(d) => \A i \in Visible(d) : i < id
            BY <2>1, <3>1, <3>2, CustodyConstants
               DEF Commit, TypeOK, IsRow, Holding, SerialInv, StillNewest
        <3>4. ASSUME NEW c \in SerialCases, c # d
              PROVE  /\ Visible(c)' = Visible(c)
                     /\ {<<i, custody_log'[i].entry>> : i \in Visible(c)'}
                           = {<<i, custody_log[i].entry>> : i \in Visible(c)}
            <4>1. Visible(c)' = Visible(c)
                BY <3>2, <3>3, <3>4 DEF Visible
            <4>2. QED
                BY <3>3, <4>1
        <3>5. CASE d \notin SerialCases
            <4>1. \A c \in SerialCases : c # d
                BY <3>5
            <4>2. ledger' = ledger
                BY <3>4, <4>1
            <4>3. QED
                BY <4>2
        <3>6. CASE d \in SerialCases
            <4>1. \A i \in Visible(d) : i < id
                BY <3>3, <3>6 DEF SerialCases
            <4>2. Visible(d)' = Visible(d) \cup {id}
                BY <3>2, <3>3 DEF Visible
            <4>3. {<<i, custody_log'[i].entry>> : i \in Visible(d)'}
                    = {<<i, custody_log[i].entry>> : i \in Visible(d)}
                        \cup {<<id, custody_log[id].entry>>}
                BY <3>3, <4>2
            <4>4. ledger' = [ledger EXCEPT ![d] =
                               @ \cup {<<id, custody_log[id].entry>>}]
                BY <3>4, <3>6, <4>3
            <4>5. \A p \in ledger[d] : p[1] < id
                BY <3>6, <4>1
            <4>6. PICK entry \in Entries : entry = custody_log[id].entry
                BY <3>3
            <4>7. Ledger!Append(d, id, entry)
                BY <4>4, <4>5, <4>6 DEF Ledger!Append
            <4>8. QED
                BY <3>3, <3>6, <4>7 DEF Ledger!Next
        <3>7. QED
            BY <3>5, <3>6
    <2>2. ASSUME \A c \in Cases : Visible(c)' = Visible(c)
          PROVE  ledger' = ledger
        <3>1. \A c \in Cases : \A i \in Visible(c) :
                custody_log'[i] = custody_log[i]
            BY VisibleRows, RowsKept
        <3>2. ASSUME NEW c \in SerialCases
              PROVE  {<<i, custody_log'[i].entry>> : i \in Visible(c)'}
                       = {<<i, custody_log[i].entry>> : i \in Visible(c)}
            BY <2>2, <3>1 DEF SerialCases
        <3>3. QED
            BY <3>2
    <2>3. ASSUME NEW r \in Requests, Flush(r)
          PROVE  \A c \in Cases : Visible(c)' = Visible(c)
        <3>1. committed' = committed /\ committed \subseteq 1 .. last_id
            BY <2>3 DEF Flush, TypeOK
        <3>2. QED
            BY <3>1, RowsKept DEF Visible
    <2>4. ASSUME NEW r \in Requests,
                 \/ \E c \in Cases, entry \in Entries : ReadPrev(r, c, entry)
                 \/ Return(r) \/ Fail(r)
          PROVE  \A c \in Cases : Visible(c)' = Visible(c)
        BY <2>4 DEF ReadPrev, Return, Fail, Visible
    <2>5. CASE UNCHANGED vars
        BY <2>5 DEF vars, Visible
    <2>6. QED
        <3> HIDE DEF ledger
        <3> QED
            BY <2>1, <2>2, <2>3, <2>4, <2>5 DEF Next, log_custody_action
<1>3. Init => SerialInv
    BY DEF Init, SerialInv, StillNewest, OneWriterVerifies, chain_valid,
           Visible
<1>4. ChainInv /\ ChainInv' /\ SerialInv /\ [Next]_vars => SerialInv'
    BY SerialStep
<1>5. QED
    BY <1>1, <1>2, <1>3, <1>4, ChainInvariant, PTL
       DEF Spec, AppendOnlyLedger, Ledger!Spec

=============================================================================
