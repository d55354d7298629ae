----------------------------- MODULE CaseAnalysis -----------------------------
(***************************************************************************)
(* A case that grows, and what is made of it: a document is read sentence  *)
(* by sentence, rows of calls and transfers are added, an archive is put   *)
(* together, and a case file of the reference application gets artifacts.  *)
(*                                                                         *)
(* The pipelines are functions of what they are given (modules             *)
(* TextExtraction, Detection, ForensicArchive, ReferenceEngine).  A        *)
(* behaviour lets one input grow, so that an invariant speaks of every     *)
(* input up to the bound, and an action property of what a further record  *)
(* does to the results that an investigator has already seen.  Calls and   *)
(* transfers grow together, as the summary of the time reads both.         *)
(***************************************************************************)
EXTENDS Integers, Sequences, FiniteSets

CONSTANTS
    Persons, Locations, Organizations, Phones, Vehicles, Within, Offset, Widest, Similar,
    Length, Near, CloseTo, MaxMinutes,
    Sentences, CallRows, TransferRows, Members, CaseIds, CaseArtifacts,  \* inputs
    MaxSentences, MaxRows, MaxMembers, MaxArtifacts     \* bounds on the inputs

ASSUME AmountsAreNumbers == \A t \in TransferRows : t.amount \in Nat

ASSUME TimesAreNumbers == MaxMinutes \in Nat /\ \A x \in CaseArtifacts : x.time \in Int

ASSUME DistanceIsSymmetric == \A p \in CloseTo : <<p[2], p[1]>> \in CloseTo

ASSUME RatioIsSymmetric == \A p \in Similar : <<p[2], p[1]>> \in Similar

ASSUME LengthsAreNumbers ==
    \A n \in Persons \cup Locations \cup Organizations : Length[n] \in Nat

\* A part of a name that is not shorter differs from it in case only, which
\* the ratio does not see.
ASSUME PartsAreShorter ==
    \A p \in Within : {p[1], p[2]} \subseteq Persons =>
        Length[p[1]] < Length[p[2]] \/ p \in Similar

ASSUME OffsetsAreNumbers ==
    /\ Widest \in Nat
    /\ Offset \in [Within -> Nat]
    /\ \A p \in Within : Offset[p] < Widest

ASSUME SentencesAreSequences == \A s \in Sentences : s \in Seq({s[i] : i \in DOMAIN s})

VARIABLES
    document,       \* sentences of a document
    calls,          \* CallRecord rows of a case
    transfers,      \* TransactionRecord rows of a case
    archive,        \* members of a forensic archive
    caseFile        \* entity ids and artifacts of a reference case

analysisVars == <<document, calls, transfers, archive, caseFile>>

Text == INSTANCE TextExtraction
Detect == INSTANCE Detection
Zip == INSTANCE ForensicArchive
Engine == INSTANCE ReferenceEngine

-----------------------------------------------------------------------------
AnalysisInit ==
    /\ document = <<>>
    /\ calls = <<>>
    /\ transfers = <<>>
    /\ archive = <<>>
    /\ caseFile \in [ids : {ids \in CaseIds : Engine!Valid(ids)}, artifacts : {<<>>}]

NoText == document = <<>>
NoRows == calls = <<>> /\ transfers = <<>>
NoArchive == archive = <<>>
NoArtifacts == caseFile.artifacts = <<>>

ReadSentence(s) ==
    /\ NoRows /\ NoArchive /\ NoArtifacts
    /\ Len(document) < MaxSentences
    /\ document' = Append(document, s)
    /\ UNCHANGED <<calls, transfers, archive, caseFile>>

AddCall(c) ==
    /\ NoText /\ NoArchive /\ NoArtifacts
    /\ Len(calls) + Len(transfers) < MaxRows
    /\ calls' = Append(calls, c)
    /\ UNCHANGED <<document, transfers, archive, caseFile>>

AddTransfer(t) ==
    /\ NoText /\ NoArchive /\ NoArtifacts
    /\ Len(calls) + Len(transfers) < MaxRows
    /\ transfers' = Append(transfers, t)
    /\ UNCHANGED <<document, calls, archive, caseFile>>

AddMember(m) ==
    /\ NoText /\ NoRows /\ NoArtifacts
    /\ Len(archive) < MaxMembers
    /\ archive' = Append(archive, m)
    /\ UNCHANGED <<document, calls, transfers, caseFile>>

AddArtifact(x) ==
    /\ NoText /\ NoRows /\ NoArchive
    /\ Len(caseFile.artifacts) < MaxArtifacts
    /\ caseFile' = [caseFile EXCEPT !.artifacts = Append(@, x)]
    /\ UNCHANGED <<document, calls, transfers, archive>>

AnalysisNext ==
    \/ \E s \in Sentences : ReadSentence(s)
    \/ \E c \in CallRows : AddCall(c)
    \/ \E t \in TransferRows : AddTransfer(t)
    \/ \E m \in Members : AddMember(m)
    \/ \E x \in CaseArtifacts : AddArtifact(x)

AnalysisSpec == AnalysisInit /\ [][AnalysisNext]_analysisVars

-----------------------------------------------------------------------------
Elements(s) == {s[i] : i \in DOMAIN s}

\* "No relationship edge is created between two entities simply because they
\* appear in the same document" (relation_extractor.py line 28): the two ends
\* of every relation but that to the case stand in one sentence.
RelationsHaveSentence ==
    \A rel \in Elements(Text!extract_relationships(document)) :
        rel[1] # "MENTIONED_IN" =>
            \E s \in Elements(document) : {rel[2], rel[3]} \subseteq Elements(s)

\* "the longest canonical entity name" (entity_extractor.py line 63): every
\* person of the text is represented by a name that is kept, and no name is
\* kept beside one that it is a variation or a part of.
NamesAreCanonical ==
    LET names == Text!Found(Text!FlattenSeq(document), Persons)
        kept == Elements(Text!deduplicate_entities_fuzzy(names))
    IN  /\ \A n \in Elements(names) : \E k \in kept : Text!Subsumed(n, k)
        /\ \A k, l \in kept : Text!Subsumed(k, l) => k = l

\* A call or transfer that is flagged stays flagged when more rows are added:
\* an alert that has been raised does not lose its ground.
FlaggedStaysFlagged ==
    [][/\ Detect!detect_suspicious_calls(calls)
            \subseteq Detect!detect_suspicious_calls(calls')
       /\ Detect!detect_suspicious_transactions(transfers)
            \subseteq Detect!detect_suspicious_transactions(transfers')]_analysisVars

\* The calls that are flagged if the first n came in one request and the others in
\* another: the routes examine the rows of one request, never those of the case.
RaisedBy(n) ==
    Detect!detect_suspicious_calls(SubSeq(calls, 1, n))
    \cup {n + i : i \in Detect!detect_suspicious_calls(SubSeq(calls, n + 1, Len(calls)))}

\* What the summaries of a case count, an investigator has been alerted to,
\* although each applies thresholds of its own (call_detection.py 60,
\* call_analysis.py 34, time_analysis.py 31): the night of a timeline that can
\* be made is that of its hours, and no shorter than that of the call summary,
\* whose nocturnal calls are flagged in whatever requests they came, and whose
\* busiest pair is if all calls came in one; a large largest transfer is flagged.
SummariesAgree ==
    LET timeline == Detect!analyze_case_timeline(calls, transfers)
        summary == Detect!analyze_case_calls(calls)
        hour == timeline.hours
    IN  /\ ~timeline.fails =>
              /\ timeline.nocturnal =
                     hour[0] + hour[1] + hour[2] + hour[3] + hour[4] + hour[5]
              /\ summary.nocturnal <= timeline.nocturnal
        /\ \A n \in 0 .. Len(calls) : summary.nocturnal <= Cardinality(RaisedBy(n))
        /\ summary.pairCount >= Detect!BurstCount =>
               summary.pairCount <= Cardinality(Detect!detect_suspicious_calls(calls))
        /\ Detect!analyze_case_transactions(transfers).largest >= Detect!LargeAmount =>
               \A n \in 0 .. Len(transfers) :
                   \E rows \in {SubSeq(transfers, 1, n),
                                SubSeq(transfers, n + 1, Len(transfers))} :
                       Detect!detect_suspicious_transactions(rows) # {}


\* The sweep over the pings in the order of time, which stops at the window,
\* finds exactly the entities that a comparison of all pings finds.
SweepFindsAllPairs ==
    LET ids == Elements(caseFile.ids)
        edges == Engine!Edges(ids, caseFile.artifacts)
        pings == {caseFile.artifacts[i] : i \in Engine!Pings(caseFile.artifacts)}
        together == {p \in pings \X pings :
                        /\ {p[1].a, p[2].a} \subseteq ids /\ p[1].a # p[2].a
                        /\ p[1].time - p[2].time \in -MaxMinutes .. MaxMinutes
                        /\ <<p[1].place, p[2].place>> \in CloseTo}
    IN  {e.ends : e \in {f \in edges : f.kind = "colocation"}}
            = {{p[1].a, p[2].a} : p \in together}

=============================================================================
