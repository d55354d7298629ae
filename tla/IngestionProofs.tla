---------------------------- MODULE IngestionProofs ----------------------------
(***************************************************************************)
(* Proofs about what comes into a case, for any number of handlers, any    *)
(* cases, names and contents: what an ingestion leaves behind in whatever  *)
(* order the steps of several requests interleave and wherever one of them *)
(* fails; and, in a second part, about the graph that they write, which    *)
(* DualGraph models call by call.                                          *)
(*                                                                         *)
(* The invariant is StepsInv: every step that a handler has behind it has  *)
(* left what it commits (Made), and a name or an alert that a handler no   *)
(* longer has in memory is on file (Memory).  Which steps come before      *)
(* which is read off the tables of Ingestion once (Relies, LastStep), and  *)
(* that nothing committed is taken back is one lemma (StepKeeps).          *)
(*                                                                         *)
(* For the graph it is StoresInv: what a thread has to store, the memory   *)
(* has or has lost or the thread is still to add (Planned); the database   *)
(* has nothing that the memory never had; and what the memory has beyond   *)
(* the database is owed, by a thread or for good (Within).                 *)
(***************************************************************************)
EXTENDS Ingestion, DualGraph, TLAPS, WellFoundedInduction

USE DEF graphs

\* The values of a sequence.
Elements(s) == {s[i] : i \in DOMAIN s}

\* The step that a handler with record k makes next, and those it has made.
Current(k) == Steps[request[k.on].kind][k.step]

Before(steps, i) == {steps[j] : j \in 1..(i - 1)}

Done(k) == Before(Steps[request[k.on].kind], k.step)

\* What holds once a handler has made step s: what the step commits, and of a
\* loop that nothing is left.
Made(k, s) ==
    LET q == request[k.on] IN
    /\ s \in Logged \cup {"FORENSIC_ZIP_INGESTED"} => <<s, k.on>> \in custody
    /\ s = "evidence" => <<"EVIDENCE_UPLOADED", k.on>> \in custody
    /\ s \in {"case", "FORENSIC_ZIP_INGESTED"} => q.case \in caseRows
    /\ s = "look" => k.names = <<>>
    /\ s = "commit lookups" => People(k.on) \subseteq lookup
    /\ s = "rows" => /\ <<"rows", k.on>> \in rows
                     /\ q.kind = "zip" => People(k.on) \subseteq lookup
    /\ s = "near" => k.near = 0
    /\ s = "alerts" => k.flagged = 0
    /\ s = "graph" => k.on \in graph[q.case] \cup wiped

\* What a handler no longer has in memory is committed: every name is still to
\* look up, to insert or on file, and every alert still to raise or on file.
Memory(k) ==
    LET held == request[k.on].holds IN
    /\ People(k.on) \subseteq Elements(k.names) \cup Elements(k.adds) \cup lookup
    /\ \A i \in 1..held.near : i <= k.near \/ <<"CO_LOCATION", i, k.on>> \in alerts
    /\ \A i \in 1..held.flagged : i <= k.flagged \/ <<"PATTERN", i, k.on>> \in alerts

Progress(k) == Memory(k) /\ \A s \in Done(k) : Made(k, s)

\* A handler that has made its last step.
Finished(k) ==
    /\ Progress(k)
    /\ Made(k, Current(k))
    /\ k.step = Len(Steps[request[k.on].kind])

\* The kinds without a step for some content have none.
ContentFits ==
    \A r \in Requests :
        LET q == request[r] IN
        /\ q.kind \notin {"bundle", "archive"} => q.holds.near = 0
        /\ q.kind \in {"zip", "archive", "json"} => q.holds.flagged = 0
        /\ q.kind \in {"archive", "json"} => q.holds.people = <<>>

StepsInv == ContentFits /\ \A h \in Handlers : handler[h] # Idle => Progress(handler[h])

-----------------------------------------------------------------------------
(* The order of the steps of each kind. *)

LEMMA StepsOfKind ==
    /\ Steps["report"] = Narrative /\ Steps["upload"] = Narrative
    /\ Steps["bundle"] = Bundle /\ Steps["zip"] = ZipUpload /\ Steps["archive"] = Archive
    /\ Steps["json"] = Json
    /\ Len(Narrative) = 10 /\ Len(Bundle) = 10 /\ Len(ZipUpload) = 6 /\ Len(Archive) = 3
    /\ Len(Json) = 4
  BY DEF Steps, Narrative, Bundle, ZipUpload, Archive, Json

\* Which step is the i-th of each kind, and what a request that makes it has
\* made before, as far as the step relies on it.
LEMMA NarrativeOrder ==
    ASSUME NEW i \in 1..10
    PROVE  \/ Narrative[i] = "document"
           \/ Narrative[i] = "INVESTIGATION_REPORT_SUBMITTED"
           \/ Narrative[i] = "look"
           \/ Narrative[i] = "commit lookups" /\ "look" \in Before(Narrative, i)
           \/ Narrative[i] = "rows"
           \/ Narrative[i] = "nodes" /\ "commit lookups" \in Before(Narrative, i)
           \/ Narrative[i] = "graph" /\ "commit lookups" \in Before(Narrative, i)
           \/ Narrative[i] = "alerts" /\ "rows" \in Before(Narrative, i)
           \/ Narrative[i] = "NLP_ANALYSIS_COMPLETED"
           \/ /\ Narrative[i] = "GRAPH_UPDATED"
              /\ {"INVESTIGATION_REPORT_SUBMITTED", "commit lookups", "rows", "graph",
                  "alerts", "NLP_ANALYSIS_COMPLETED"} \subseteq Before(Narrative, i)
  <1>0. /\ Narrative[1] = "document" /\ Narrative[2] = "INVESTIGATION_REPORT_SUBMITTED"
        /\ Narrative[3] = "look" /\ Narrative[4] = "commit lookups"
        /\ Narrative[5] = "rows" /\ Narrative[6] = "nodes" /\ Narrative[7] = "graph"
        /\ Narrative[8] = "alerts" /\ Narrative[9] = "NLP_ANALYSIS_COMPLETED"
        /\ Narrative[10] = "GRAPH_UPDATED"
    BY DEF Narrative
  <1>1. i = 1 \/ i = 2 \/ i = 3 \/ i = 4 \/ i = 5 \/ i = 6 \/ i = 7 \/ i = 8 \/ i = 9 \/ i = 10
    OBVIOUS
  <1>2. CASE i = 1
    BY <1>0, <1>2
  <1>3. CASE i = 2
    BY <1>0, <1>3
  <1>4. CASE i = 3
    BY <1>0, <1>4
  <1>5. CASE i = 4
    <2>1. Narrative[3] \in Before(Narrative, 4)
      BY DEF Before
    <2> QED
      BY <1>0, <1>5, <2>1
  <1>6. CASE i = 5
    BY <1>0, <1>6
  <1>7. CASE i = 6
    <2>1. Narrative[4] \in Before(Narrative, 6)
      BY DEF Before
    <2> QED
      BY <1>0, <1>7, <2>1
  <1>8. CASE i = 7
    <2>1. Narrative[4] \in Before(Narrative, 7)
      BY DEF Before
    <2> QED
      BY <1>0, <1>8, <2>1
  <1>9. CASE i = 8
    <2>1. Narrative[5] \in Before(Narrative, 8)
      BY DEF Before
    <2> QED
      BY <1>0, <1>9, <2>1
  <1>10. CASE i = 9
    BY <1>0, <1>10
  <1>11. CASE i = 10
    <2>1. /\ Narrative[2] \in Before(Narrative, 10)
          /\ Narrative[4] \in Before(Narrative, 10)
          /\ Narrative[5] \in Before(Narrative, 10)
          /\ Narrative[7] \in Before(Narrative, 10)
          /\ Narrative[8] \in Before(Narrative, 10)
          /\ Narrative[9] \in Before(Narrative, 10)
      BY DEF Before
    <2> QED
      BY <1>0, <1>11, <2>1
  <1> QED
    BY <1>1, <1>2, <1>3, <1>4, <1>5, <1>6, <1>7, <1>8, <1>9, <1>10, <1>11

LEMMA BundleOrder ==
    ASSUME NEW i \in 1..10
    PROVE  \/ Bundle[i] = "find case"
           \/ Bundle[i] = "case"
           \/ Bundle[i] = "look"
           \/ Bundle[i] = "commit lookups" /\ "look" \in Before(Bundle, i)
           \/ Bundle[i] = "near" /\ "case" \in Before(Bundle, i)
           \/ Bundle[i] = "rows" /\ "case" \in Before(Bundle, i)
           \/ Bundle[i] = "alerts" /\ "rows" \in Before(Bundle, i)
           \/ Bundle[i] = "nodes" /\ "commit lookups" \in Before(Bundle, i)
           \/ Bundle[i] = "graph" /\ "commit lookups" \in Before(Bundle, i)
           \/ /\ Bundle[i] = "CASE_BUNDLE_INGESTED"
              /\ {"commit lookups", "near", "rows", "alerts", "graph"} \subseteq Before(Bundle, i)
  <1>0. /\ Bundle[1] = "find case" /\ Bundle[2] = "case" /\ Bundle[3] = "look"
        /\ Bundle[4] = "commit lookups" /\ Bundle[5] = "near" /\ Bundle[6] = "rows"
        /\ Bundle[7] = "alerts" /\ Bundle[8] = "nodes" /\ Bundle[9] = "graph"
        /\ Bundle[10] = "CASE_BUNDLE_INGESTED"
    BY DEF Bundle
  <1>1. i = 1 \/ i = 2 \/ i = 3 \/ i = 4 \/ i = 5 \/ i = 6 \/ i = 7 \/ i = 8 \/ i = 9 \/ i = 10
    OBVIOUS
  <1>2. CASE i = 1
    BY <1>0, <1>2
  <1>3. CASE i = 2
    BY <1>0, <1>3
  <1>4. CASE i = 3
    BY <1>0, <1>4
  <1>5. CASE i = 4
    <2>1. Bundle[3] \in Before(Bundle, 4)
      BY DEF Before
    <2> QED
      BY <1>0, <1>5, <2>1
  <1>6. CASE i = 5
    <2>1. Bundle[2] \in Before(Bundle, 5)
      BY DEF Before
    <2> QED
      BY <1>0, <1>6, <2>1
  <1>7. CASE i = 6
    <2>1. Bundle[2] \in Before(Bundle, 6)
      BY DEF Before
    <2> QED
      BY <1>0, <1>7, <2>1
  <1>8. CASE i = 7
    <2>1. Bundle[6] \in Before(Bundle, 7)
      BY DEF Before
    <2> QED
      BY <1>0, <1>8, <2>1
  <1>9. CASE i = 8
    <2>1. Bundle[4] \in Before(Bundle, 8)
      BY DEF Before
    <2> QED
      BY <1>0, <1>9, <2>1
  <1>10. CASE i = 9
    <2>1. Bundle[4] \in Before(Bundle, 9)
      BY DEF Before
    <2> QED
      BY <1>0, <1>10, <2>1
  <1>11. CASE i = 10
    <2>1. /\ Bundle[4] \in Before(Bundle, 10)
          /\ Bundle[5] \in Before(Bundle, 10)
          /\ Bundle[6] \in Before(Bundle, 10)
          /\ Bundle[7] \in Before(Bundle, 10)
          /\ Bundle[9] \in Before(Bundle, 10)
      BY DEF Before
    <2> QED
      BY <1>0, <1>11, <2>1
  <1> QED
    BY <1>1, <1>2, <1>3, <1>4, <1>5, <1>6, <1>7, <1>8, <1>9, <1>10, <1>11

LEMMA ZipOrder ==
    ASSUME NEW i \in 1..6
    PROVE  \/ ZipUpload[i] = "find case"
           \/ ZipUpload[i] = "FORENSIC_ZIP_INGESTED"
           \/ ZipUpload[i] = "look"
           \/ /\ ZipUpload[i] = "rows"
              /\ {"FORENSIC_ZIP_INGESTED", "look"} \subseteq Before(ZipUpload, i)
           \/ /\ ZipUpload[i] = "reset"
              /\ {"FORENSIC_ZIP_INGESTED", "rows"} \subseteq Before(ZipUpload, i)
           \/ /\ ZipUpload[i] = "graph"
              /\ {"FORENSIC_ZIP_INGESTED", "rows"} \subseteq Before(ZipUpload, i)
  <1>0. /\ ZipUpload[1] = "find case" /\ ZipUpload[2] = "FORENSIC_ZIP_INGESTED"
        /\ ZipUpload[3] = "look" /\ ZipUpload[4] = "rows" /\ ZipUpload[5] = "reset"
        /\ ZipUpload[6] = "graph"
    BY DEF ZipUpload
  <1>1. i = 1 \/ i = 2 \/ i = 3 \/ i = 4 \/ i = 5 \/ i = 6
    OBVIOUS
  <1>2. CASE i = 1
    BY <1>0, <1>2
  <1>3. CASE i = 2
    BY <1>0, <1>3
  <1>4. CASE i = 3
    BY <1>0, <1>4
  <1>5. CASE i = 4
    <2>1. /\ ZipUpload[2] \in Before(ZipUpload, 4)
          /\ ZipUpload[3] \in Before(ZipUpload, 4)
      BY DEF Before
    <2> QED
      BY <1>0, <1>5, <2>1
  <1>6. CASE i = 5
    <2>1. /\ ZipUpload[2] \in Before(ZipUpload, 5)
          /\ ZipUpload[4] \in Before(ZipUpload, 5)
      BY DEF Before
    <2> QED
      BY <1>0, <1>6, <2>1
  <1>7. CASE i = 6
    <2>1. /\ ZipUpload[2] \in Before(ZipUpload, 6)
          /\ ZipUpload[4] \in Before(ZipUpload, 6)
      BY DEF Before
    <2> QED
      BY <1>0, <1>7, <2>1
  <1> QED
    BY <1>1, <1>2, <1>3, <1>4, <1>5, <1>6, <1>7

LEMMA ArchiveOrder ==
    ASSUME NEW i \in 1..3
    PROVE  \/ Archive[i] = "evidence"
           \/ Archive[i] = "rows"
           \/ Archive[i] = "near" /\ "evidence" \in Before(Archive, i)
  <1>0. /\ Archive[1] = "evidence" /\ Archive[2] = "rows" /\ Archive[3] = "near"
    BY DEF Archive
  <1>1. i = 1 \/ i = 2 \/ i = 3
    OBVIOUS
  <1>2. CASE i = 1
    BY <1>0, <1>2
  <1>3. CASE i = 2
    BY <1>0, <1>3
  <1>4. CASE i = 3
    <2>1. Archive[1] \in Before(Archive, 3)
      BY DEF Before
    <2> QED
      BY <1>0, <1>4, <2>1
  <1> QED
    BY <1>1, <1>2, <1>3, <1>4

LEMMA JsonOrder ==
    ASSUME NEW i \in 1..4
    PROVE  \/ Json[i] = "find case"
           \/ Json[i] = "case"
           \/ Json[i] = "reset" /\ "case" \in Before(Json, i)
           \/ Json[i] = "graph" /\ "case" \in Before(Json, i)
  <1>0. /\ Json[1] = "find case" /\ Json[2] = "case" /\ Json[3] = "reset"
        /\ Json[4] = "graph"
    BY DEF Json
  <1>1. i = 1 \/ i = 2 \/ i = 3 \/ i = 4
    OBVIOUS
  <1>2. CASE i = 1
    BY <1>0, <1>2
  <1>3. CASE i = 2
    BY <1>0, <1>3
  <1>4. CASE i = 3
    <2>1. Json[2] \in Before(Json, 3)
      BY DEF Before
    <2> QED
      BY <1>0, <1>4, <2>1
  <1>5. CASE i = 4
    <2>1. Json[2] \in Before(Json, 4)
      BY DEF Before
    <2> QED
      BY <1>0, <1>5, <2>1
  <1> QED
    BY <1>1, <1>2, <1>3, <1>4, <1>5

\* The same by step: what the handler of a request has made when it makes it.
LEMMA Relies ==
    ASSUME NEW k, request[k.on].kind \in Kinds,
           k.step \in 1..Len(Steps[request[k.on].kind]),
           NEW s, s = Current(k), NEW kind, kind = request[k.on].kind
    PROVE  /\ s = "document" => kind \in {"report", "upload"}
           /\ s = "evidence" => kind = "archive"
           /\ s = "commit lookups" => "look" \in Done(k)
           /\ s = "rows" /\ kind = "bundle" => "case" \in Done(k)
           /\ s = "rows" /\ kind = "zip" => {"FORENSIC_ZIP_INGESTED", "look"} \subseteq Done(k)
           /\ s = "near" => kind \in {"bundle", "archive"}
           /\ s = "near" /\ kind = "bundle" => "case" \in Done(k)
           /\ s = "alerts" => "rows" \in Done(k) /\ kind \notin {"zip", "archive", "json"}
           /\ s \in {"nodes", "reset", "graph"} =>
                \/ "commit lookups" \in Done(k) /\ kind \notin {"zip", "json"}
                \/ kind = "zip" /\ {"FORENSIC_ZIP_INGESTED", "rows"} \subseteq Done(k)
                \/ kind = "json" /\ "case" \in Done(k)
           /\ s = "GRAPH_UPDATED" =>
                /\ kind \in {"report", "upload"}
                /\ {"INVESTIGATION_REPORT_SUBMITTED", "commit lookups", "rows", "graph", "alerts",
                     "NLP_ANALYSIS_COMPLETED"} \subseteq Done(k)
           /\ s = "CASE_BUNDLE_INGESTED" =>
                /\ kind = "bundle"
                /\ {"commit lookups", "near", "rows", "alerts", "graph"} \subseteq Done(k)
           /\ s = "FORENSIC_ZIP_INGESTED" => kind = "zip"
  <1>1. CASE kind \in {"report", "upload"}
    <2>1. Steps[kind] = Narrative /\ k.step \in 1..10
      BY <1>1, StepsOfKind
    <2>2. s = Narrative[k.step] /\ Done(k) = Before(Narrative, k.step)
      BY <2>1 DEF Current, Done
    <2> QED
      BY <1>1, <2>1, <2>2, NarrativeOrder
  <1>2. CASE kind = "bundle"
    <2>1. Steps[kind] = Bundle /\ k.step \in 1..10
      BY <1>2, StepsOfKind
    <2>2. s = Bundle[k.step] /\ Done(k) = Before(Bundle, k.step)
      BY <2>1 DEF Current, Done
    <2> QED
      BY <1>2, <2>1, <2>2, BundleOrder
  <1>3. CASE kind = "zip"
    <2>1. Steps[kind] = ZipUpload /\ k.step \in 1..6
      BY <1>3, StepsOfKind
    <2>2. s = ZipUpload[k.step] /\ Done(k) = Before(ZipUpload, k.step)
      BY <2>1 DEF Current, Done
    <2> QED
      BY <1>3, <2>1, <2>2, ZipOrder
  <1>4. CASE kind = "archive"
    <2>1. Steps[kind] = Archive /\ k.step \in 1..3
      BY <1>4, StepsOfKind
    <2>2. s = Archive[k.step] /\ Done(k) = Before(Archive, k.step)
      BY <2>1 DEF Current, Done
    <2> QED
      BY <1>4, <2>1, <2>2, ArchiveOrder
  <1>5. CASE kind = "json"
    <2>1. Steps[kind] = Json /\ k.step \in 1..4
      BY <1>5, StepsOfKind
    <2>2. s = Json[k.step] /\ Done(k) = Before(Json, k.step)
      BY <2>1 DEF Current, Done
    <2> QED
      BY <1>5, <2>1, <2>2, JsonOrder
  <1> QED
    BY <1>1, <1>2, <1>3, <1>4, <1>5 DEF Kinds

\* The last step of each kind.
LEMMA LastStep ==
    ASSUME NEW k, NEW kind, kind = request[k.on].kind, k.step = Len(Steps[kind])
    PROVE  /\ kind \in {"report", "upload"} => Current(k) = "GRAPH_UPDATED"
           /\ kind = "bundle" => Current(k) = "CASE_BUNDLE_INGESTED"
           /\ kind \in {"zip", "json"} => Current(k) = "graph"
           /\ kind = "archive" => Current(k) = "near" /\ "evidence" \in Done(k)
  <1>1. Narrative[10] = "GRAPH_UPDATED" /\ Bundle[10] = "CASE_BUNDLE_INGESTED"
    BY DEF Narrative, Bundle
  <1>2. /\ ZipUpload[6] = "graph" /\ Json[4] = "graph"
        /\ Archive[3] = "near" /\ Archive[1] = "evidence"
    BY DEF ZipUpload, Json, Archive
  <1>3. Archive[1] \in Before(Archive, 3)
    BY DEF Before
  <1> QED
    BY <1>1, <1>2, <1>3, StepsOfKind DEF Current, Done

-----------------------------------------------------------------------------
(* Types. *)

LEMMA WorkingTyped ==
    ASSUME TypeOK, NEW h \in Handlers, handler[h] # Idle
    PROVE  /\ handler[h] \in Working
           /\ handler[h].on \in Requests
           /\ Of(h) \in [kind : Kinds, case : Cases, holds : Contents]
           /\ handler[h].step \in 1..Len(Steps[Of(h).kind])
           /\ Len(Steps[Of(h).kind]) \in Nat
  <1>1. handler[h] \in Working /\ handler[h].step <= Len(Steps[Of(h).kind])
    BY DEF TypeOK, HandlersOK, StoredOK
  <1>2. handler[h].on \in Requests /\ handler[h].step \in Nat \ {0}
    BY <1>1 DEF Working
  <1>3. Of(h) \in [kind : Kinds, case : Cases, holds : Contents]
    <2> DEFINE R == [kind : Kinds, case : Cases, holds : Contents]
    <2>1. request \in Seq(R)
      BY DEF TypeOK, HandlersOK, StoredOK
    <2>2. request[handler[h].on] \in R
      <3> HIDE DEF R
      <3> QED
        BY <1>2, <2>1 DEF Requests
    <2> QED
      BY <2>2 DEF Of
  <1>4. Len(Steps[Of(h).kind]) \in Nat
    BY <1>3, StepsOfKind DEF Kinds
  <1> QED
    BY <1>1, <1>2, <1>3, <1>4

\* A handler that works on a request is not idle.
LEMMA WorkingIsNotIdle ==
    ASSUME NEW k \in Working
    PROVE  k # Idle
  BY DEF Working, Idle, Requests

LEMMA GoTyped ==
    ASSUME TypeOK, NEW h \in Handlers, handler[h] # Idle, Go(h), UNCHANGED request
    PROVE  HandlersOK'
  <1> DEFINE k == handler[h]
             n == [k EXCEPT !.step = k.step + 1]
  <1>5. handler \in [Handlers -> {Idle} \cup Working]
    BY DEF TypeOK, HandlersOK, StoredOK
  <1>1. Working' = Working
    BY DEF Working, Requests
  <1>2. n \in Working /\ n.on = k.on /\ n.step = k.step + 1
    BY WorkingTyped, SMTT(60) DEF Working
  <1>3. handler' = [handler EXCEPT ![h] = IF k.step = Len(Steps[Of(h).kind]) THEN Idle ELSE n]
    BY DEF Go
  <1>4. k.step # Len(Steps[Of(h).kind]) => n.step <= Len(Steps[Of(h).kind])
    BY <1>2, WorkingTyped
  <1> HIDE DEF n
  <1>6. handler' \in [Handlers -> {Idle} \cup Working]
    BY <1>2, <1>3, <1>5
  <1>7. ASSUME NEW g \in Handlers, handler'[g] # Idle
        PROVE  handler'[g].step <= Len(Steps[request'[handler'[g].on].kind])
    <2>1. CASE g = h
      BY <1>2, <1>3, <1>4, <1>5, <1>7, <2>1 DEF Of
    <2>2. CASE g # h
      BY <1>3, <1>5, <1>7, <2>2 DEF TypeOK, HandlersOK, Of
    <2> QED
      BY <2>1, <2>2
  <1> QED
    BY <1>1, <1>6, <1>7 DEF HandlersOK, Of

LEMMA RaiseTyped ==
    ASSUME TypeOK, NEW h \in Handlers, handler[h] # Idle, Raise(h), UNCHANGED request
    PROVE  HandlersOK' /\ failed' \subseteq Requests
  BY WorkingTyped DEF Raise, TypeOK, StoredOK, HandlersOK, Working, Requests, Of

\* A handler that stays at its step, with other names or alerts in memory.
LEMMA StayTyped ==
    ASSUME TypeOK, NEW h \in Handlers, handler[h] # Idle, UNCHANGED request,
           NEW n \in Working, n.on = handler[h].on,
           n.step <= Len(Steps[Of(h).kind]), handler' = [handler EXCEPT ![h] = n]
    PROVE  HandlersOK'
  <1>1. Working' = Working /\ handler \in [Handlers -> {Idle} \cup Working]
    BY DEF Working, Requests, TypeOK, HandlersOK
  <1>2. handler' \in [Handlers -> {Idle} \cup Working]
    BY <1>1
  <1>3. ASSUME NEW g \in Handlers, handler'[g] # Idle
        PROVE  handler'[g].step <= Len(Steps[request'[handler'[g].on].kind])
    <2>1. CASE g = h
      BY <1>1, <2>1 DEF Of
    <2>2. CASE g # h
      BY <1>1, <1>3, <2>2 DEF TypeOK, HandlersOK, Of
    <2> QED
      BY <2>1, <2>2
  <1> QED
    BY <1>1, <1>2, <1>3 DEF HandlersOK, Of

LEMMA PairAdded ==
    ASSUME NEW A, NEW B, NEW pairs, pairs \subseteq A \X B, NEW a \in A, NEW b \in B
    PROVE  pairs \cup {<<a, b>>} \subseteq A \X B
  OBVIOUS

LEMMA TripleAdded ==
    ASSUME NEW A, NEW B, NEW C, NEW triples, triples \subseteq A \X B \X C,
           NEW a \in A, NEW b \in B, NEW c \in C
    PROVE  triples \cup {<<a, b, c>>} \subseteq A \X B \X C
  OBVIOUS

LEMMA EntriesTyped ==
    ASSUME TypeOK, NEW r \in Requests
    PROVE  /\ \A t \in Tables : rows \cup {<<t, r>>} \subseteq Tables \X Requests
           /\ \A a \in Actions : custody \cup {<<a, r>>} \subseteq Actions \X Requests
           /\ \A p \in Patterns, i \in Nat \ {0} :
                 alerts \cup {<<p, i, r>>} \subseteq Patterns \X (Nat \ {0}) \X Requests
  BY PairAdded, TripleAdded DEF TypeOK, StoredOK

LEMMA EntryNames ==
    /\ \A t \in {"document", "evidence", "rows", "early rows"} : t \in Tables
    /\ \A a \in Logged \cup {"EVIDENCE_UPLOADED", "FORENSIC_ZIP_INGESTED"} : a \in Actions
    /\ \A p \in {"CO_LOCATION", "PATTERN"} : p \in Patterns
  BY DEF Tables, Actions, Patterns

LEMMA AddedTyped ==
    ASSUME TypeOK, NEW h \in Handlers, handler[h] # Idle
    PROVE  Added(h) \subseteq Names
  BY WorkingTyped DEF Added, Working

LEMMA TypeInit == Init => TypeOK
  BY DEF Init, TypeOK, StoredOK, HandlersOK, Requests

LEMMA StartTyped ==
    ASSUME TypeOK, NEW h \in Handlers, NEW kind \in Kinds, NEW c \in Cases,
           NEW content \in Contents, Start(h, kind, c, content)
    PROVE  TypeOK'
  <1> DEFINE R == [kind : Kinds, case : Cases, holds : Contents]
             q == [kind |-> kind, case |-> c, holds |-> content]
             k == [on |-> Len(request) + 1, step |-> 1, names |-> content.people, adds |-> <<>>,
                   near |-> content.near, flagged |-> content.flagged, new |-> FALSE]
  <1>1. request' = Append(request, q) /\ handler' = [handler EXCEPT ![h] = k]
    BY DEF Start
  <1>2. request \in Seq(R) /\ q \in R
    BY DEF TypeOK, HandlersOK, StoredOK
  <1>3. content \in [people : Seq(Names), near : Nat, flagged : Nat]
    BY ContentsAreRecords
  <1>4. Len(Steps[kind]) \in Nat /\ 1 <= Len(Steps[kind])
    <2>1. Len(Steps[kind]) \in {3, 4, 6, 10}
      BY StepsOfKind, Zenon DEF Kinds
    <2>2. \A n \in {3, 4, 6, 10} : n \in Nat /\ 1 <= n
      OBVIOUS
    <2> QED
      BY <2>1, <2>2, Zenon
  <1> HIDE DEF R, q
  <1>5. /\ request' \in Seq(R)
        /\ Requests' = 1..(Len(request) + 1) /\ Requests = 1..Len(request)
        /\ Len(request) \in Nat /\ Requests \subseteq Requests'
        /\ request'[Len(request) + 1] = q
        /\ \A r \in Requests : request'[r] = request[r]
    BY <1>1, <1>2 DEF Requests
  <1>6. k \in Working'
    BY <1>3, <1>5 DEF Working
  <1>7. Working \subseteq Working'
    BY <1>5 DEF Working
  <1>8. handler' \in [Handlers -> {Idle} \cup Working']
    BY <1>1, <1>6, <1>7 DEF TypeOK, HandlersOK, StoredOK
  <1>9. ASSUME NEW g \in Handlers, handler'[g] # Idle
        PROVE  handler'[g].step <= Len(Steps[request'[handler'[g].on].kind])
    <2>1. CASE g = h
      <3>1. handler'[g] = k
        BY <1>1, <2>1 DEF TypeOK, HandlersOK, StoredOK
      <3> QED
        BY <1>4, <1>5, <3>1 DEF q
    <2>2. CASE g # h
      <3>1. handler'[g] = handler[g] /\ handler[g] # Idle
        BY <1>1, <1>9, <2>2 DEF TypeOK, HandlersOK, StoredOK
      <3>2. handler[g].on \in Requests
        BY <3>1, WorkingTyped
      <3>3. handler[g].step <= Len(Steps[request[handler[g].on].kind])
        BY <3>1 DEF TypeOK, HandlersOK, StoredOK, Of
      <3> QED
        BY <1>5, <3>1, <3>2, <3>3
    <2> QED
      BY <2>1, <2>2
  <1>10. /\ UNCHANGED <<caseRows, lookup, rows, alerts, custody, entries, searching, graph,
                        failed, wiped>>
         /\ request' \in Seq([kind : Kinds, case : Cases, holds : Contents])
    BY <1>5 DEF Start, R
  <1> HIDE DEF k
  <1>11. StoredOK'
    <2>1. StoredOK
      BY DEF TypeOK
    <2> QED
      BY <1>5, <1>10, <2>1 DEF StoredOK
  <1>12. HandlersOK'
    BY <1>8, <1>9 DEF HandlersOK, Of
  <1> QED
    BY <1>10, <1>11, <1>12 DEF TypeOK

\* Every step keeps the types.
LEMMA TypeStep ==
    ASSUME TypeOK, [Next]_vars
    PROVE  TypeOK'
  <1>1. ASSUME NEW h \in Handlers, NEW kind \in Kinds, NEW c \in Cases, NEW content \in Contents,
               Start(h, kind, c, content)
        PROVE  TypeOK'
    BY <1>1, StartTyped
  <1>2. ASSUME NEW h \in Handlers, NEW action \in Logged, LogAction(h, action)
        PROVE  TypeOK'
    <2>1. handler[h] # Idle /\ UNCHANGED request
      BY <1>2 DEF LogAction, At
    <2>2. HandlersOK'
      BY <1>2, <2>1, GoTyped DEF LogAction
    <2>3. Requests' = Requests /\ handler[h].on \in Requests
      BY <2>1, WorkingTyped DEF Requests
    <2>4. StoredOK'
      <3>1. custody \cup {<<action, handler[h].on>>} \subseteq Actions \X Requests
        BY <1>2, <2>3, EntriesTyped, EntryNames
      <3> QED
        BY <1>2, <2>3, <3>1 DEF LogAction, TypeOK, StoredOK
    <2> QED
      BY <2>1, <2>2, <2>4 DEF TypeOK
  <1>3. ASSUME NEW h \in Handlers, StoreDocument(h)
        PROVE  TypeOK'
    <2>1. handler[h] # Idle /\ UNCHANGED request
      BY <1>3 DEF StoreDocument, At
    <2>2. HandlersOK'
      BY <1>3, <2>1, GoTyped DEF StoreDocument
    <2>3. Requests' = Requests /\ handler[h].on \in Requests
      BY <2>1, WorkingTyped DEF Requests
    <2>4. StoredOK'
      <3>1. rows \cup {<<"document", handler[h].on>>} \subseteq Tables \X Requests
        BY <2>3, EntriesTyped, EntryNames
      <3> QED
        BY <1>3, <2>3, <3>1 DEF StoreDocument, TypeOK, StoredOK
    <2> QED
      BY <2>1, <2>2, <2>4 DEF TypeOK
  <1>4. ASSUME NEW h \in Handlers, RegisterEvidence(h)
        PROVE  TypeOK'
    <2>1. handler[h] # Idle /\ UNCHANGED request
      BY <1>4 DEF RegisterEvidence, At
    <2>2. HandlersOK'
      BY <1>4, <2>1, GoTyped DEF RegisterEvidence
    <2>3. Requests' = Requests /\ handler[h].on \in Requests
      BY <2>1, WorkingTyped DEF Requests
    <2>4. StoredOK'
      <3>1. custody \cup {<<"EVIDENCE_UPLOADED", handler[h].on>>} \subseteq Actions \X Requests
        BY <2>3, EntriesTyped, EntryNames
      <3>2. rows \cup {<<"evidence", handler[h].on>>} \subseteq Tables \X Requests
        BY <2>3, EntriesTyped, EntryNames
      <3> QED
        BY <1>4, <2>3, <3>1, <3>2 DEF RegisterEvidence, TypeOK, StoredOK
    <2> QED
      BY <2>1, <2>2, <2>4 DEF TypeOK
  <1>5. ASSUME NEW h \in Handlers, FindCase(h)
        PROVE  TypeOK'
    <2>1. handler[h] # Idle /\ UNCHANGED request /\ Steps[Of(h).kind][handler[h].step] = "find case"
      BY <1>5 DEF FindCase, At
    <2>2. handler[h].step # Len(Steps[Of(h).kind])
      BY <2>1, WorkingTyped, LastStep DEF Current, Of, Kinds
    <2>3. PICK new : /\ new \in BOOLEAN
                     /\ handler' = [handler EXCEPT ![h].new = new, ![h].step = @ + 1]
      BY <1>5 DEF FindCase
    <2> DEFINE k == handler[h]
               n == [on |-> k.on, step |-> k.step + 1, names |-> k.names, adds |-> k.adds,
                     near |-> k.near, flagged |-> k.flagged, new |-> new]
    <2>4. /\ k \in Working /\ k.on \in Requests /\ k.step + 1 \in Nat \ {0}
          /\ k.names \in Seq(Names) /\ k.adds \in Seq(Names)
          /\ k.near \in Nat /\ k.flagged \in Nat
      <3>1. k \in Working
        BY <2>1, WorkingTyped
      <3> QED
        BY <3>1 DEF Working
    <2>5. n \in Working /\ n.on = k.on /\ n.step = k.step + 1
      BY <2>3, <2>4, Zenon DEF Working
    <2>6. handler' = [handler EXCEPT ![h] = n]
      BY <2>3, <2>4 DEF TypeOK, HandlersOK, Working
    <2> HIDE DEF n
    <2>9. n.step <= Len(Steps[Of(h).kind])
      <3>1. k.step \in 1..Len(Steps[Of(h).kind]) /\ Len(Steps[Of(h).kind]) \in Nat
        BY <2>1, WorkingTyped
      <3> QED
        BY <2>2, <2>5, <3>1
    <2>7. HandlersOK'
      BY <2>1, <2>5, <2>6, <2>9, StayTyped
    <2>8. StoredOK'
      BY <1>5 DEF FindCase, TypeOK, StoredOK, Requests
    <2> QED
      BY <2>1, <2>7, <2>8 DEF TypeOK
  <1>6. ASSUME NEW h \in Handlers, InsertCase(h)
        PROVE  TypeOK'
    <2>1. handler[h] # Idle /\ UNCHANGED request
      BY <1>6 DEF InsertCase, At
    <2>2. HandlersOK'
      BY <1>6, <2>1, GoTyped, RaiseTyped DEF InsertCase
    <2>3. Requests' = Requests /\ handler[h].on \in Requests
      BY <2>1, WorkingTyped DEF Requests
    <2>4. StoredOK'
      BY <1>6, <2>1, <2>3, WorkingTyped, RaiseTyped DEF InsertCase, TypeOK, StoredOK
    <2> QED
      BY <2>1, <2>2, <2>4 DEF TypeOK
  <1>7. ASSUME NEW h \in Handlers, LogZip(h)
        PROVE  TypeOK'
    <2>1. handler[h] # Idle /\ UNCHANGED request
      BY <1>7 DEF LogZip, At
    <2>2. HandlersOK'
      BY <1>7, <2>1, GoTyped, RaiseTyped DEF LogZip
    <2>3. Requests' = Requests /\ handler[h].on \in Requests
      BY <2>1, WorkingTyped DEF Requests
    <2>4. StoredOK'
      <3>1. custody \cup {<<"FORENSIC_ZIP_INGESTED", handler[h].on>>} \subseteq Actions \X Requests
        BY <2>3, EntriesTyped, EntryNames
      <3> QED
        BY <1>7, <2>1, <2>3, <3>1, WorkingTyped, RaiseTyped DEF LogZip, TypeOK, StoredOK
    <2> QED
      BY <2>1, <2>2, <2>4 DEF TypeOK
  <1>8. ASSUME NEW h \in Handlers, LookUp(h)
        PROVE  TypeOK'
    <2> DEFINE k == handler[h]
               n == [k EXCEPT !.names = Tail(k.names),
                              !.adds = IF Head(k.names) \in lookup THEN k.adds
                                       ELSE Append(k.adds, Head(k.names))]
    <2>1. handler[h] # Idle /\ UNCHANGED request /\ k \in Working
      BY <1>8, WorkingTyped DEF LookUp, At
    <2>2. HandlersOK'
      <3>1. CASE k.names = <<>>
        BY <1>8, <2>1, <3>1, GoTyped DEF LookUp
      <3>2. CASE ~(k.names = <<>>)
        <4>1. n \in Working /\ n.on = k.on /\ n.step = k.step
          <5>1. k.names \in Seq(Names) /\ k.adds \in Seq(Names)
            BY <2>1 DEF Working
          <5>2. Tail(k.names) \in Seq(Names) /\ Head(k.names) \in Names
            BY <3>2, <5>1
          <5>3. Append(k.adds, Head(k.names)) \in Seq(Names)
            BY <5>1, <5>2
          <5> QED
            BY <2>1, <5>1, <5>2, <5>3 DEF Working
        <4>2. handler' = [handler EXCEPT ![h] = n]
          BY <1>8, <3>2 DEF LookUp, TypeOK, HandlersOK
        <4>3. n.step <= Len(Steps[Of(h).kind])
          BY <2>1, <4>1, WorkingTyped
        <4> HIDE DEF n
        <4> QED
          BY <2>1, <4>1, <4>2, <4>3, StayTyped
      <3> QED
        BY <3>1, <3>2
    <2>3. StoredOK'
      <3>1. k.near \in Nat /\ k.flagged \in Nat /\ k.on \in Requests
        BY <2>1 DEF Working
      <3>2. Requests' = Requests
        BY <2>1 DEF Requests
      <3> QED
        BY <1>8, <3>1, <3>2 DEF LookUp, TypeOK, StoredOK
    <2> QED
      BY <2>1, <2>2, <2>3 DEF TypeOK
  <1>9. ASSUME NEW h \in Handlers, CommitLookups(h)
        PROVE  TypeOK'
    <2>1. handler[h] # Idle /\ UNCHANGED request
      BY <1>9 DEF CommitLookups, At
    <2>2. HandlersOK'
      BY <1>9, <2>1, GoTyped, RaiseTyped DEF CommitLookups
    <2>3. Requests' = Requests /\ handler[h].on \in Requests
      BY <2>1, WorkingTyped DEF Requests
    <2>4. StoredOK'
      BY <1>9, <2>1, <2>3, WorkingTyped, RaiseTyped, AddedTyped DEF CommitLookups, TypeOK, StoredOK
    <2> QED
      BY <2>1, <2>2, <2>4 DEF TypeOK
  <1>10. ASSUME NEW h \in Handlers, CommitRows(h)
        PROVE  TypeOK'
    <2>1. handler[h] # Idle /\ UNCHANGED request
      BY <1>10 DEF CommitRows, At
    <2>2. HandlersOK'
      BY <1>10, <2>1, GoTyped, RaiseTyped DEF CommitRows
    <2>3. Requests' = Requests /\ handler[h].on \in Requests
      BY <2>1, WorkingTyped DEF Requests
    <2>4. StoredOK'
      <3>1. rows \cup {<<"rows", handler[h].on>>} \subseteq Tables \X Requests
        BY <2>3, EntriesTyped, EntryNames
      <3> QED
        BY <1>10, <2>1, <2>3, <3>1, WorkingTyped, RaiseTyped, AddedTyped
        DEF CommitRows, TypeOK, StoredOK
    <2> QED
      BY <2>1, <2>2, <2>4 DEF TypeOK
  <1>11. ASSUME NEW h \in Handlers, CoLocate(h)
        PROVE  TypeOK'
    <2> DEFINE k == handler[h]
               n == [k EXCEPT !.near = k.near - 1]
    <2>1. handler[h] # Idle /\ UNCHANGED request /\ k \in Working
      BY <1>11, WorkingTyped DEF CoLocate, At
    <2>2. HandlersOK'
      <3>1. CASE k.near = 0
        BY <1>11, <2>1, <3>1, GoTyped DEF CoLocate
      <3>2. CASE ~(k.near = 0)
        <4>1. n \in Working /\ n.on = k.on /\ n.step = k.step
          BY <2>1, <3>2, SMTT(60) DEF Working
        <4>2. handler' = [handler EXCEPT ![h] = n]
          BY <1>11, <3>2 DEF CoLocate, TypeOK, HandlersOK
        <4>3. n.step <= Len(Steps[Of(h).kind])
          BY <2>1, <4>1, WorkingTyped
        <4> HIDE DEF n
        <4> QED
          BY <2>1, <4>1, <4>2, <4>3, StayTyped
      <3> QED
        BY <3>1, <3>2
    <2>3. StoredOK'
      <3>1. k.near \in Nat /\ k.flagged \in Nat /\ k.on \in Requests
        BY <2>1 DEF Working
      <3>2. Requests' = Requests
        BY <2>1 DEF Requests
      <3>3. k.near # 0 =>
              alerts \cup {<<"CO_LOCATION", k.near, k.on>>}
                \subseteq Patterns \X (Nat \ {0}) \X Requests
        BY <3>1, EntriesTyped, EntryNames
      <3>4. /\ rows \cup {<<"rows", k.on>>} \subseteq Tables \X Requests
            /\ rows \cup {<<"early rows", k.on>>} \subseteq Tables \X Requests
        BY <3>1, EntriesTyped, EntryNames
      <3> QED
        BY <1>11, <3>2, <3>3, <3>4 DEF CoLocate, TypeOK, StoredOK
    <2> QED
      BY <2>1, <2>2, <2>3 DEF TypeOK
  <1>12. ASSUME NEW h \in Handlers, CreateAlert(h)
        PROVE  TypeOK'
    <2> DEFINE k == handler[h]
               n == [k EXCEPT !.flagged = k.flagged - 1]
    <2>1. handler[h] # Idle /\ UNCHANGED request /\ k \in Working
      BY <1>12, WorkingTyped DEF CreateAlert, At
    <2>2. HandlersOK'
      <3>1. CASE k.flagged = 0
        BY <1>12, <2>1, <3>1, GoTyped DEF CreateAlert
      <3>2. CASE ~(k.flagged = 0)
        <4>1. n \in Working /\ n.on = k.on /\ n.step = k.step
          BY <2>1, <3>2 DEF Working
        <4>2. handler' = [handler EXCEPT ![h] = n]
          BY <1>12, <3>2 DEF CreateAlert, TypeOK, HandlersOK
        <4>3. n.step <= Len(Steps[Of(h).kind])
          BY <2>1, <4>1, WorkingTyped
        <4> HIDE DEF n
        <4> QED
          BY <2>1, <4>1, <4>2, <4>3, StayTyped
      <3> QED
        BY <3>1, <3>2
    <2>3. StoredOK'
      <3>1. k.near \in Nat /\ k.flagged \in Nat /\ k.on \in Requests
        BY <2>1 DEF Working
      <3>2. Requests' = Requests
        BY <2>1 DEF Requests
      <3>3. k.flagged # 0 =>
              alerts \cup {<<"PATTERN", k.flagged, k.on>>}
                \subseteq Patterns \X (Nat \ {0}) \X Requests
        BY <3>1, EntriesTyped, EntryNames
      <3> QED
        BY <1>12, <3>2, <3>3 DEF CreateAlert, TypeOK, StoredOK
    <2> QED
      BY <2>1, <2>2, <2>3 DEF TypeOK
  <1>13. ASSUME NEW h \in Handlers, UpdateGraph(h)
        PROVE  TypeOK'
    <2>1. handler[h] # Idle /\ UNCHANGED request /\ Of(h).case \in Cases
      BY <1>13, WorkingTyped DEF UpdateGraph, AddNodes, At
    <2>2. HandlersOK'
      BY <1>13, <2>1, GoTyped DEF UpdateGraph, AddNodes
    <2>3. Requests' = Requests /\ handler[h].on \in Requests
      BY <2>1, WorkingTyped DEF Requests
    <2>4. StoredOK'
      BY <1>13, <2>1, <2>3 DEF UpdateGraph, AddNodes, TypeOK, StoredOK
    <2> QED
      BY <2>1, <2>2, <2>4 DEF TypeOK
  <1>14. ASSUME NEW h \in Handlers, ResetGraph(h)
        PROVE  TypeOK'
    <2>1. handler[h] # Idle /\ UNCHANGED request /\ Of(h).case \in Cases
      BY <1>14, WorkingTyped DEF ResetGraph, At
    <2>2. HandlersOK'
      BY <1>14, <2>1, GoTyped DEF ResetGraph
    <2>3. Requests' = Requests /\ handler[h].on \in Requests
      BY <2>1, WorkingTyped DEF Requests
    <2>4. StoredOK'
      BY <1>14, <2>1, <2>3 DEF ResetGraph, TypeOK, StoredOK
    <2> QED
      BY <2>1, <2>2, <2>4 DEF TypeOK
  <1>15. ASSUME NEW h \in Handlers, Fail(h)
        PROVE  TypeOK'
    <2>1. handler[h] # Idle /\ UNCHANGED request
      BY <1>15 DEF Fail
    <2>2. HandlersOK'
      BY <1>15, <2>1, RaiseTyped DEF Fail
    <2>3. Requests' = Requests /\ handler[h].on \in Requests
      BY <2>1, WorkingTyped DEF Requests
    <2>4. StoredOK'
      BY <1>15, <2>1, <2>3, WorkingTyped, RaiseTyped DEF Fail, TypeOK, StoredOK
    <2> QED
      BY <2>1, <2>2, <2>4 DEF TypeOK
  <1>16. CASE Restart
    <2>1. \A h \in Handlers : handler[h].on # 0 => handler[h].on \in Requests
      BY WorkingTyped DEF Idle
    <2> QED
      BY <1>16, <2>1 DEF Restart, TypeOK, StoredOK, HandlersOK, Requests
  <1>17. ASSUME NEW c \in Cases, FindNoGraph(c) \/ StoreGraph(c)
        PROVE  TypeOK'
    <2>1. UNCHANGED <<caseRows, lookup, rows, alerts, custody, request, handler, failed>>
      BY <1>17 DEF FindNoGraph, StoreGraph
    <2>2. Requests' = Requests /\ Working' = Working
      BY <2>1 DEF Requests, Working
    <2>3. HandlersOK'
      BY <2>1, <2>2 DEF TypeOK, HandlersOK, Of
    <2>4. entries' \subseteq Cases /\ searching' \subseteq Cases /\ wiped' \subseteq Requests
          /\ graph' \in [Cases -> SUBSET Requests]
      BY <1>17 DEF FindNoGraph, StoreGraph, TypeOK, StoredOK
    <2> QED
      BY <2>1, <2>2, <2>3, <2>4 DEF TypeOK, StoredOK
  <1>18. CASE UNCHANGED vars
    BY <1>18 DEF vars, TypeOK, StoredOK, HandlersOK, Requests, Of, Working
  <1> QED
    BY <1>1, <1>2, <1>3, <1>4, <1>5, <1>6, <1>7, <1>8, <1>9, <1>10, <1>11, <1>12, <1>13, <1>14,
       <1>15, <1>16, <1>17, <1>18 DEF Next

\* Type correctness.
THEOREM TypeCorrect == Spec => []TypeOK
  BY TypeInit, TypeStep, PTL DEF Spec

-----------------------------------------------------------------------------
(* No step takes back what is committed; what leaves the graph is wiped. *)

Kept ==
    /\ Requests \subseteq Requests'
    /\ \A r \in Requests : request'[r] = request[r]
    /\ caseRows \subseteq caseRows'
    /\ lookup \subseteq lookup'
    /\ rows \subseteq rows'
    /\ alerts \subseteq alerts'
    /\ custody \subseteq custody'
    /\ failed \subseteq failed'
    /\ \A c \in Cases : graph[c] \cup wiped \subseteq graph'[c] \cup wiped'

LEMMA StepKeeps ==
    ASSUME TypeOK, [Next]_vars
    PROVE  Kept
  <1>1. ASSUME NEW h \in Handlers, NEW kind \in Kinds, NEW c \in Cases, NEW content \in Contents,
               Start(h, kind, c, content)
        PROVE  Kept
    <2> DEFINE R == [kind : Kinds, case : Cases, holds : Contents]
               q == [kind |-> kind, case |-> c, holds |-> content]
    <2>1. request' = Append(request, q) /\ request \in Seq(R) /\ q \in R
      BY <1>1 DEF Start, TypeOK
    <2> HIDE DEF R, q
    <2>2. Requests \subseteq Requests' /\ \A r \in Requests : request'[r] = request[r]
      BY <2>1 DEF Requests
    <2> QED
      BY <1>1, <2>2 DEF Start, Kept
  <1>2. ASSUME NEW h \in Handlers, UpdateGraph(h)
        PROVE  Kept
    BY <1>2 DEF UpdateGraph, AddNodes, Kept, Requests, TypeOK, StoredOK
  <1>3. ASSUME NEW h \in Handlers, ResetGraph(h)
        PROVE  Kept
    BY <1>3 DEF ResetGraph, Kept, Requests, TypeOK, StoredOK
  <1>4. CASE Restart
    BY <1>4 DEF Restart, Kept, Requests
  <1>5. ASSUME NEW c \in Cases, FindNoGraph(c) \/ StoreGraph(c)
        PROVE  Kept
    BY <1>5 DEF FindNoGraph, StoreGraph, Kept, Requests, TypeOK, StoredOK
  <1>6. CASE UNCHANGED vars
    BY <1>6 DEF vars, Kept, Requests
  <1> QED
    BY <1>1, <1>2, <1>3, <1>4, <1>5, <1>6
    DEF Next, LogAction, StoreDocument, RegisterEvidence, FindCase, InsertCase, LogZip, LookUp,
        CommitLookups, CommitRows, CoLocate, CreateAlert, Fail, Raise, Kept, Requests

\* So what a handler has made, and what is on file of its names and alerts,
\* stays while the others go on.
LEMMA MadeStays ==
    ASSUME Kept, NEW k, k.on \in Requests, request[k.on].case \in Cases, NEW s, Made(k, s)
    PROVE  Made(k, s)'
  BY DEF Kept, Made, People

LEMMA MemoryStays ==
    ASSUME Kept, NEW k, k.on \in Requests, Memory(k)
    PROVE  Memory(k)'
  BY DEF Kept, Memory, People

LEMMA ProgressStays ==
    ASSUME Kept, NEW k, k.on \in Requests, request[k.on].case \in Cases, Progress(k)
    PROVE  Progress(k)' /\ Done(k)' = Done(k) /\ Current(k)' = Current(k)
  <1>1. Done(k)' = Done(k) /\ Current(k)' = Current(k)
    BY DEF Kept, Done, Current
  <1> QED
    BY <1>1, MadeStays, MemoryStays DEF Progress

-----------------------------------------------------------------------------
(* What a step of a handler does to the handler. *)

\* After a step the handler works on, has given up, or is done.
Outcome(h, k) ==
    \/ handler'[h] # Idle /\ handler'[h].on = k.on /\ Progress(handler[h])'
    \/ handler'[h] = Idle /\ k.on \in failed'
    \/ handler'[h] = Idle /\ Finished(k)'

\* What comes before the next place is what came before, and the step made there.
LEMMA BeforeNext ==
    ASSUME NEW steps, NEW i \in Nat, NEW s \in Before(steps, i + 1)
    PROVE  s \in Before(steps, i) \/ s = steps[i]
  BY DEF Before

LEMMA GoOutcome ==
    ASSUME TypeOK, Kept, UNCHANGED request, NEW h \in Handlers, NEW k, k = handler[h], k # Idle,
           Progress(k), Go(h), Made(k, Current(k))'
    PROVE  Outcome(h, k)
  <1>1. k \in Working /\ k.on \in Requests /\ request[k.on].case \in Cases
        /\ k.step \in Nat \ {0}
    BY WorkingTyped DEF Of, Working
  <1>2. Progress(k)' /\ Done(k)' = Done(k) /\ Current(k)' = Current(k)
    BY <1>1, ProgressStays
  <1>3. CASE k.step = Len(Steps[request[k.on].kind])
    <2>1. handler'[h] = Idle
      BY <1>3 DEF Go, TypeOK, HandlersOK, Of
    <2> QED
      BY <1>2, <1>3, <2>1 DEF Outcome, Finished
  <1>4. CASE k.step # Len(Steps[request[k.on].kind])
    <2> DEFINE n == [k EXCEPT !.step = k.step + 1]
    <2>1. handler'[h] = n
      BY <1>4 DEF Go, TypeOK, HandlersOK, Of
    <2>2. /\ n.on = k.on /\ n.names = k.names /\ n.adds = k.adds /\ n.near = k.near
          /\ n.flagged = k.flagged /\ n.step = k.step + 1 /\ n # Idle
      BY <1>1 DEF Working, Idle, Requests
    <2>3. PICK m : m = n
      OBVIOUS
    <2> HIDE DEF n
    <2>4. Memory(m)'
      BY <1>2, <2>2, <2>3 DEF Progress, Memory
    <2>5. ASSUME NEW s, Made(k, s)'
          PROVE  Made(m, s)'
      BY <2>2, <2>3, <2>5 DEF Made
    <2>6. ASSUME NEW s \in Done(m)'
          PROVE  s \in Done(k)' \/ s = Current(k)
      <3>1. s \in Before(Steps[request[k.on].kind], k.step + 1)
        BY <2>2, <2>3, <2>6 DEF Done
      <3>2. s \in Before(Steps[request[k.on].kind], k.step) \/ s = Steps[request[k.on].kind][k.step]
        BY <1>1, <3>1, BeforeNext
      <3> QED
        BY <1>2, <3>2 DEF Done, Current, Of
    <2>7. Progress(m)'
      BY <1>2, <2>4, <2>5, <2>6 DEF Progress
    <2> QED
      BY <2>1, <2>2, <2>3, <2>7 DEF Outcome
  <1> QED
    BY <1>3, <1>4

\* A round of a loop.
LEMMA RoundOutcome ==
    ASSUME TypeOK, Kept, UNCHANGED request, NEW h \in Handlers, NEW k, k = handler[h], k # Idle,
           Progress(k), NEW m, m # Idle, handler'[h] = m, m.on = k.on, m.step = k.step,
           Memory(m)',
           \/ "look" \notin Done(k) /\ m.near = k.near /\ m.flagged = k.flagged
           \/ "near" \notin Done(k) /\ m.names = k.names /\ m.flagged = k.flagged
           \/ "alerts" \notin Done(k) /\ m.names = k.names /\ m.near = k.near
    PROVE  Outcome(h, k)
  <1>1. k.on \in Requests /\ request[k.on].case \in Cases
    BY WorkingTyped DEF Of
  <1>2. Progress(k)' /\ Done(k)' = Done(k)
    BY <1>1, ProgressStays
  <1>3. Done(m)' = Done(k)
    BY <1>2 DEF Done
  <1>4. ASSUME NEW s \in Done(k)
        PROVE  Made(m, s)'
    BY <1>2, <1>4 DEF Progress, Made
  <1> QED
    BY <1>3, <1>4 DEF Outcome, Progress

LEMMA ElementsOfTail ==
    ASSUME NEW S, NEW s \in Seq(S), s # <<>>
    PROVE  Elements(s) \subseteq {Head(s)} \cup Elements(Tail(s))
  <1>1. ASSUME NEW i \in DOMAIN s
        PROVE  s[i] \in {Head(s)} \cup Elements(Tail(s))
    <2>1. CASE i = 1
      BY <2>1
    <2>2. CASE i # 1
      <3>1. i - 1 \in DOMAIN Tail(s) /\ Tail(s)[i - 1] = s[i]
        BY <2>2
      <3> QED
        BY <3>1 DEF Elements
    <2> QED
      BY <2>1, <2>2
  <1> QED
    BY <1>1 DEF Elements

LEMMA ElementsOfAppend ==
    ASSUME NEW S, NEW s \in Seq(S), NEW e \in S
    PROVE  /\ Elements(s) \subseteq Elements(Append(s, e))
           /\ e \in Elements(Append(s, e))
  <1>1. ASSUME NEW i \in DOMAIN s
        PROVE  i \in DOMAIN Append(s, e) /\ Append(s, e)[i] = s[i]
    OBVIOUS
  <1>2. Len(s) + 1 \in DOMAIN Append(s, e) /\ Append(s, e)[Len(s) + 1] = e
    OBVIOUS
  <1> QED
    BY <1>1, <1>2 DEF Elements

LEMMA NoElements == Elements(<<>>) = {}
  BY DEF Elements

\* Once every name is looked up, those that are not on file are in the session.
LEMMA LookedUp ==
    ASSUME NEW k, Progress(k), "look" \in Done(k)
    PROVE  People(k.on) \subseteq Elements(k.adds) \cup lookup
  BY NoElements DEF Progress, Made, Memory

LEMMA LookUpOutcome ==
    ASSUME TypeOK, Kept, NEW h \in Handlers, NEW k, k = handler[h], Progress(k), LookUp(h)
    PROVE  Outcome(h, k)
  <1>1. k # Idle /\ UNCHANGED request /\ Current(k) = "look" /\ k \in Working
    BY WorkingTyped DEF LookUp, At, Current, Of
  <1>2. CASE k.names = <<>>
    <2>1. Go(h)
      BY <1>2 DEF LookUp
    <2>2. Current(k)' = "look"
      BY <1>1 DEF Current
    <2>3. Made(k, Current(k))'
      BY <1>2, <2>2 DEF Made, Logged
    <2> QED
      BY <1>1, <2>1, <2>3, GoOutcome
  <1>3. CASE k.names # <<>>
    <2> DEFINE m == [k EXCEPT !.names = Tail(k.names),
                              !.adds = IF Head(k.names) \in lookup THEN k.adds
                                       ELSE Append(k.adds, Head(k.names))]
    <2>1. handler'[h] = m
      BY <1>3 DEF LookUp, TypeOK, HandlersOK
    <2>2. /\ m.on = k.on /\ m.step = k.step /\ m.near = k.near /\ m.flagged = k.flagged
          /\ m.names = Tail(k.names) /\ m # Idle
          /\ m.adds = IF Head(k.names) \in lookup THEN k.adds ELSE Append(k.adds, Head(k.names))
      BY <1>1 DEF Working, Idle, Requests
    <2> HIDE DEF m
    <2>3. PICK n : n = m
      OBVIOUS
    <2>4. k.names \in Seq(Names) /\ k.adds \in Seq(Names) /\ Head(k.names) \in Names
      <3>1. k.names \in Seq(Names) /\ k.adds \in Seq(Names)
        BY <1>1 DEF Working
      <3> QED
        BY <1>3, <3>1
    <2>5. Elements(k.names) \cup Elements(k.adds) \cup lookup
            \subseteq Elements(n.names) \cup Elements(n.adds) \cup lookup
      BY <1>3, <2>2, <2>3, <2>4, ElementsOfTail, ElementsOfAppend
    <2>6. Memory(n)'
      BY <1>1, <2>2, <2>3, <2>5 DEF Progress, Memory, People, LookUp
    <2>7. "look" \notin Done(k)
      BY <1>3 DEF Progress, Made
    <2> QED
      BY <1>1, <2>1, <2>2, <2>3, <2>6, <2>7, RoundOutcome
  <1> QED
    BY <1>2, <1>3

LEMMA CoLocateOutcome ==
    ASSUME TypeOK, Kept, NEW h \in Handlers, NEW k, k = handler[h], Progress(k), CoLocate(h)
    PROVE  Outcome(h, k)
  <1>1. k # Idle /\ UNCHANGED request /\ Current(k) = "near" /\ k \in Working /\ k.near \in Nat
    BY WorkingTyped DEF CoLocate, At, Current, Of, Working
  <1>2. CASE k.near = 0
    <2>1. Go(h)
      BY <1>2 DEF CoLocate
    <2>2. Current(k)' = "near"
      BY <1>1 DEF Current
    <2>3. Made(k, Current(k))'
      BY <1>2, <2>2 DEF Made, Logged
    <2> QED
      BY <1>1, <2>1, <2>3, GoOutcome
  <1>3. CASE k.near # 0
    <2> DEFINE m == [k EXCEPT !.near = k.near - 1]
    <2>1. handler'[h] = m
      BY <1>3 DEF CoLocate, TypeOK, HandlersOK
    <2>2. /\ m.on = k.on /\ m.step = k.step /\ m.near = k.near - 1 /\ m.flagged = k.flagged
          /\ m.names = k.names /\ m.adds = k.adds /\ m # Idle
      BY <1>1 DEF Working, Idle, Requests
    <2> HIDE DEF m
    <2>3. PICK n : n = m
      OBVIOUS
    <2>4. ASSUME NEW i \in 1..request[k.on].holds.near
          PROVE  i <= n.near \/ <<"CO_LOCATION", i, k.on>> \in alerts'
      <3>1. i <= k.near \/ <<"CO_LOCATION", i, k.on>> \in alerts
        BY DEF Progress, Memory
      <3>2. i = k.near \/ i <= n.near \/ ~(i <= k.near)
        BY <1>1, <2>2, <2>3
      <3>3. alerts' = alerts \cup {<<"CO_LOCATION", k.near, k.on>>}
        BY <1>3 DEF CoLocate
      <3> QED
        BY <3>1, <3>2, <3>3, Zenon
    <2>5. Memory(n)'
      <3>1. Memory(k) /\ UNCHANGED <<lookup, request>> /\ alerts \subseteq alerts'
        BY <1>1, <1>3 DEF Progress, CoLocate
      <3>2. UNCHANGED People(k.on)
        BY <3>1 DEF People
      <3> QED
        BY <2>2, <2>3, <2>4, <3>1, <3>2, SMTT(60) DEF Memory
    <2>6. "near" \notin Done(k)
      BY <1>3 DEF Progress, Made
    <2> QED
      BY <1>1, <2>1, <2>2, <2>3, <2>5, <2>6, RoundOutcome
  <1> QED
    BY <1>2, <1>3

LEMMA CreateAlertOutcome ==
    ASSUME TypeOK, Kept, NEW h \in Handlers, NEW k, k = handler[h], Progress(k), CreateAlert(h)
    PROVE  Outcome(h, k)
  <1>1. /\ k # Idle /\ UNCHANGED request /\ Current(k) = "alerts" /\ k \in Working
        /\ k.flagged \in Nat
    BY WorkingTyped DEF CreateAlert, At, Current, Of, Working
  <1>2. CASE k.flagged = 0
    <2>1. Go(h)
      BY <1>2 DEF CreateAlert
    <2>2. Current(k)' = "alerts"
      BY <1>1 DEF Current
    <2>3. Made(k, Current(k))'
      BY <1>2, <2>2 DEF Made, Logged
    <2> QED
      BY <1>1, <2>1, <2>3, GoOutcome
  <1>3. CASE k.flagged # 0
    <2> DEFINE m == [k EXCEPT !.flagged = k.flagged - 1]
    <2>1. handler'[h] = m
      BY <1>3 DEF CreateAlert, TypeOK, HandlersOK
    <2>2. /\ m.on = k.on /\ m.step = k.step /\ m.flagged = k.flagged - 1 /\ m.near = k.near
          /\ m.names = k.names /\ m.adds = k.adds /\ m # Idle
      BY <1>1 DEF Working, Idle, Requests
    <2> HIDE DEF m
    <2>3. PICK n : n = m
      OBVIOUS
    <2>4. ASSUME NEW i \in 1..request[k.on].holds.flagged
          PROVE  i <= n.flagged \/ <<"PATTERN", i, k.on>> \in alerts'
      <3>1. i <= k.flagged \/ <<"PATTERN", i, k.on>> \in alerts
        BY DEF Progress, Memory
      <3>2. i = k.flagged \/ i <= n.flagged \/ ~(i <= k.flagged)
        BY <1>1, <2>2, <2>3
      <3>3. alerts' = alerts \cup {<<"PATTERN", k.flagged, k.on>>}
        BY <1>3 DEF CreateAlert
      <3> QED
        BY <3>1, <3>2, <3>3, Zenon
    <2>5. Memory(n)'
      BY <1>1, <2>2, <2>3, <2>4 DEF Progress, Memory, People, CreateAlert, Kept
    <2>6. "alerts" \notin Done(k)
      BY <1>3 DEF Progress, Made
    <2> QED
      BY <1>1, <2>1, <2>2, <2>3, <2>5, <2>6, RoundOutcome
  <1> QED
    BY <1>2, <1>3

\* Whichever step a handler makes, it has then made it.
LEMMA OwnStep ==
    ASSUME TypeOK, Kept, NEW h \in Handlers, NEW k, k = handler[h], k # Idle, Progress(k),
           \/ \E action \in Logged : LogAction(h, action)
           \/ StoreDocument(h) \/ RegisterEvidence(h) \/ FindCase(h) \/ InsertCase(h)
           \/ LogZip(h) \/ LookUp(h) \/ CommitLookups(h) \/ CommitRows(h) \/ CoLocate(h)
           \/ CreateAlert(h) \/ UpdateGraph(h) \/ ResetGraph(h) \/ Fail(h)
    PROVE  Outcome(h, k)
  <1>0. /\ k \in Working /\ k.on \in Requests
        /\ request[k.on] \in [kind : Kinds, case : Cases, holds : Contents]
        /\ k.step \in 1..Len(Steps[request[k.on].kind])
    BY WorkingTyped DEF Of
  <1>1. ASSUME Raise(h)
        PROVE  Outcome(h, k)
    BY <1>1 DEF Raise, Outcome, TypeOK, HandlersOK
  <1>2. ASSUME NEW action \in Logged, LogAction(h, action)
        PROVE  Outcome(h, k)
    <2>1. Go(h) /\ UNCHANGED request /\ Current(k) = action /\ Current(k)' = action
      BY <1>2 DEF LogAction, At, Current, Of
    <2>2. Made(k, Current(k))'
      BY <1>2, <2>1 DEF LogAction, Made, Logged
    <2> QED
      BY <2>1, <2>2, GoOutcome
  <1>3. ASSUME StoreDocument(h)
        PROVE  Outcome(h, k)
    <2>1. Go(h) /\ UNCHANGED request /\ Current(k) = "document" /\ Current(k)' = "document"
      BY <1>3 DEF StoreDocument, At, Current, Of
    <2>2. Made(k, Current(k))'
      BY <1>3, <2>1 DEF StoreDocument, Made, Logged
    <2> QED
      BY <2>1, <2>2, GoOutcome
  <1>4. ASSUME RegisterEvidence(h)
        PROVE  Outcome(h, k)
    <2>1. Go(h) /\ UNCHANGED request /\ Current(k) = "evidence" /\ Current(k)' = "evidence"
      BY <1>4 DEF RegisterEvidence, At, Current, Of
    <2>2. Made(k, Current(k))'
      BY <1>4, <2>1 DEF RegisterEvidence, Made, Logged
    <2> QED
      BY <2>1, <2>2, GoOutcome
  <1>5. CASE FindCase(h)
    <2>1. Current(k) = "find case" /\ UNCHANGED request
      BY <1>5 DEF FindCase, At, Current, Of
    <2>2. k.step # Len(Steps[request[k.on].kind])
      BY <1>0, <2>1, LastStep DEF Kinds
    <2>3. PICK new : handler' = [handler EXCEPT ![h].new = new, ![h].step = @ + 1]
      BY <1>5 DEF FindCase
    <2> DEFINE m == [k EXCEPT !.new = new, !.step = k.step + 1]
    <2>4. handler'[h] = m
      BY <2>3 DEF TypeOK, HandlersOK
    <2>5. /\ m.on = k.on /\ m.names = k.names /\ m.adds = k.adds /\ m.near = k.near
          /\ m.flagged = k.flagged /\ m.step = k.step + 1 /\ m # Idle
      BY <1>0 DEF Working, Idle, Requests
    <2> HIDE DEF m
    <2>6. PICK n : n = m
      OBVIOUS
    <2>7. Progress(k)' /\ Done(k)' = Done(k)
      BY <1>0, ProgressStays
    <2>8. ASSUME NEW s \in Done(n)'
          PROVE  s \in Done(k) \/ s = "find case"
      <3>1. k.step \in Nat \ {0}
        BY <1>0 DEF Working
      <3>2. UNCHANGED request
        BY <2>1
      <3>3. s \in Done(k)' \/ s = Current(k)
        BY <2>5, <2>6, <2>8, <3>1, <3>2 DEF Done, Before, Current
      <3> QED
        BY <2>1, <2>7, <3>3
    <2>9. ASSUME NEW s \in Done(n)'
          PROVE  Made(n, s)'
      BY <2>5, <2>6, <2>7, <2>8, <2>9 DEF Progress, Made, Logged
    <2>10. Memory(n)'
      BY <2>5, <2>6, <2>7 DEF Progress, Memory
    <2> QED
      BY <2>4, <2>5, <2>6, <2>9, <2>10 DEF Outcome, Progress
  <1>6. CASE InsertCase(h)
    <2>1. UNCHANGED request /\ Current(k) = "case" /\ Current(k)' = "case"
      BY <1>6 DEF InsertCase, At, Current, Of
    <2>2. ASSUME Go(h), ~Raise(h)
          PROVE  Outcome(h, k)
      <3>2. Made(k, Current(k))'
        BY <1>6, <2>1, <2>2 DEF InsertCase, Made, Logged, Of
      <3> QED
        BY <2>1, <2>2, <3>2, GoOutcome
    <2> QED
      BY <1>6, <1>1, <2>2 DEF InsertCase
  <1>7. CASE LogZip(h)
    <2>1. /\ UNCHANGED request
          /\ Current(k) = "FORENSIC_ZIP_INGESTED"
          /\ Current(k)' = "FORENSIC_ZIP_INGESTED"
      BY <1>7 DEF LogZip, At, Current, Of
    <2>2. ASSUME Go(h), ~Raise(h)
          PROVE  Outcome(h, k)
      <3>2. Made(k, Current(k))'
        BY <1>7, <2>1, <2>2 DEF LogZip, Made, Logged, Of
      <3> QED
        BY <2>1, <2>2, <3>2, GoOutcome
    <2> QED
      BY <1>7, <1>1, <2>2 DEF LogZip
  <1>8. CASE LookUp(h)
    BY <1>8, LookUpOutcome
  <1>9. CASE CommitLookups(h)
    <2>1. UNCHANGED request /\ Current(k) = "commit lookups" /\ Current(k)' = "commit lookups"
      BY <1>9 DEF CommitLookups, At, Current, Of
    <2>2. ASSUME Go(h), ~Raise(h)
          PROVE  Outcome(h, k)
      <3>1. People(k.on) \subseteq lookup'
        <4>1. "look" \in Done(k)
          BY <1>0, <2>1, Relies
        <4>2. lookup' = lookup \cup Elements(k.adds)
          BY <1>9, <2>2 DEF CommitLookups, Added, Elements
        <4> QED
          BY <4>1, <4>2, LookedUp
      <3>2. Made(k, Current(k))'
        BY <2>1, <3>1 DEF Made, Logged, People
      <3> QED
        BY <2>1, <2>2, <3>2, GoOutcome
    <2> QED
      BY <1>9, <1>1, <2>2 DEF CommitLookups
  <1>10. CASE CommitRows(h)
    <2>1. UNCHANGED request /\ Current(k) = "rows" /\ Current(k)' = "rows"
      BY <1>10 DEF CommitRows, At, Current, Of
    <2>2. ASSUME Go(h), ~Raise(h)
          PROVE  Outcome(h, k)
      <3>1. request[k.on].kind = "zip" => People(k.on) \subseteq lookup'
        <4> SUFFICES ASSUME request[k.on].kind = "zip"
                     PROVE  People(k.on) \subseteq lookup'
          OBVIOUS
        <4>1. "look" \in Done(k)
          BY <1>0, <2>1, Relies
        <4>2. lookup' = lookup \cup Elements(k.adds)
          BY <1>10, <2>2 DEF CommitRows, Added, Elements, Of
        <4> QED
          BY <4>1, <4>2, LookedUp
      <3>3. <<"rows", k.on>> \in rows'
        BY <1>10, <2>2 DEF CommitRows
      <3>2. Made(k, Current(k))'
        BY <2>1, <3>1, <3>3 DEF Made, Logged, People
      <3> QED
        BY <2>1, <2>2, <3>2, GoOutcome
    <2> QED
      BY <1>10, <1>1, <2>2 DEF CommitRows
  <1>11. CASE CoLocate(h)
    BY <1>11, CoLocateOutcome
  <1>12. CASE CreateAlert(h)
    BY <1>12, CreateAlertOutcome
  <1>13. ASSUME UpdateGraph(h)
        PROVE  Outcome(h, k)
    <2>1. PICK step \in {"nodes", "graph"} : AddNodes(h, step)
      BY <1>13 DEF UpdateGraph
    <2>2. Go(h) /\ UNCHANGED request /\ Current(k) = step /\ Current(k)' = step
      BY <2>1 DEF AddNodes, At, Current, Of
    <2>3. k.on \in graph'[request[k.on].case]
      BY <2>1, <1>0 DEF AddNodes, Of, TypeOK, StoredOK
    <2>4. Made(k, Current(k))'
      BY <2>2, <2>3 DEF Made, Logged
    <2> QED
      BY <2>2, <2>4, GoOutcome
  <1>14. ASSUME ResetGraph(h)
        PROVE  Outcome(h, k)
    <2>1. Go(h) /\ UNCHANGED request /\ Current(k) = "reset" /\ Current(k)' = "reset"
      BY <1>14 DEF ResetGraph, At, Current, Of
    <2>2. Made(k, Current(k))'
      BY <1>14, <2>1 DEF ResetGraph, Made, Logged
    <2> QED
      BY <2>1, <2>2, GoOutcome
  <1>15. CASE Fail(h)
    BY <1>1, <1>15 DEF Fail
  <1> QED
    BY <1>2, <1>3, <1>4, <1>5, <1>6, <1>7, <1>8, <1>9, <1>10, <1>11, <1>12, <1>13, <1>14, <1>15

LEMMA StepOutcome ==
    ASSUME TypeOK, StepsInv, [Next]_vars, NEW h \in Handlers, NEW k, k = handler[h], k # Idle
    PROVE  Outcome(h, k)
  <1>1. Kept /\ Progress(k)
    BY StepKeeps DEF StepsInv
  <1>2. k.on \in Requests /\ request[k.on].case \in Cases
    BY WorkingTyped DEF Of
  <1>3. CASE handler'[h] = k
    BY <1>1, <1>2, <1>3, ProgressStays DEF Outcome
  <1>4. CASE Restart
    <2>1. k.on # 0
      BY <1>2 DEF Requests, TypeOK
    <2>2. k.on \in {handler[g].on : g \in Handlers}
      OBVIOUS
    <2>3. k.on \in failed'
      BY <1>4, <2>1, <2>2 DEF Restart
    <2> QED
      BY <1>4, <2>3 DEF Restart, Outcome
  <1>5. ASSUME NEW g \in Handlers, g # h, handler'[h] # k,
               \/ \E kind \in Kinds, c \in Cases, content \in Contents : Start(g, kind, c, content)
               \/ \E action \in Logged : LogAction(g, action)
               \/ StoreDocument(g) \/ RegisterEvidence(g) \/ FindCase(g) \/ InsertCase(g)
               \/ LogZip(g) \/ LookUp(g) \/ CommitLookups(g) \/ CommitRows(g) \/ CoLocate(g)
               \/ CreateAlert(g) \/ UpdateGraph(g) \/ ResetGraph(g) \/ Fail(g)
        PROVE  FALSE
    BY <1>5 DEF Start, LogAction, StoreDocument, RegisterEvidence, FindCase, InsertCase, LogZip,
        LookUp, CommitLookups, CommitRows, CoLocate, CreateAlert, UpdateGraph, AddNodes,
        ResetGraph, Fail, Go,
        Raise, TypeOK, HandlersOK
  <1>6. ~ \E kind \in Kinds, c \in Cases, content \in Contents : Start(h, kind, c, content)
    BY DEF Start
  <1>7. CASE UNCHANGED vars \/ \E c \in Cases : FindNoGraph(c) \/ StoreGraph(c)
    BY <1>3, <1>7 DEF vars, FindNoGraph, StoreGraph
  <1> QED
    BY <1>1, <1>3, <1>4, <1>5, <1>6, <1>7, OwnStep DEF Next

LEMMA ContentFitsStep ==
    ASSUME TypeOK, ContentFits, [Next]_vars
    PROVE  ContentFits'
  <1>1. CASE UNCHANGED request
    BY <1>1 DEF ContentFits, Requests
  <1>2. ASSUME NEW h \in Handlers, NEW kind \in Kinds, NEW c \in Cases, NEW content \in Contents,
               Start(h, kind, c, content)
        PROVE  ContentFits'
    <2> DEFINE q == [kind |-> kind, case |-> c, holds |-> content]
    <2>1. request' = Append(request, q)
      BY <1>2 DEF Start
    <2>2. /\ kind \notin {"bundle", "archive"} => content.near = 0
          /\ kind \in {"zip", "archive", "json"} => content.flagged = 0
          /\ kind \in {"archive", "json"} => content.people = <<>>
      BY <1>2 DEF Start
    <2>3. PICK p : p = q
      OBVIOUS
    <2>4. /\ p.kind \notin {"bundle", "archive"} => p.holds.near = 0
          /\ p.kind \in {"zip", "archive", "json"} => p.holds.flagged = 0
          /\ p.kind \in {"archive", "json"} => p.holds.people = <<>>
      BY <2>2, <2>3
    <2> HIDE DEF q
    <2>5. \A r \in Requests' : request'[r] = p \/ (r \in Requests /\ request'[r] = request[r])
      <3> DEFINE R == [kind : Kinds, case : Cases, holds : Contents]
      <3>1. request \in Seq(R)
        BY DEF TypeOK
      <3> HIDE DEF R
      <3> QED
        BY <2>1, <2>3, <3>1 DEF Requests
    <2> QED
      BY <2>4, <2>5 DEF ContentFits
  <1> QED
    BY <1>1, <1>2 DEF Next, vars, LogAction, StoreDocument, RegisterEvidence, FindCase, InsertCase,
        LogZip, LookUp, CommitLookups, CommitRows, CoLocate, CreateAlert, UpdateGraph, AddNodes,
        ResetGraph,
        FindNoGraph, StoreGraph, Fail, Restart

\* A request that starts has everything before it.
LEMMA StartProgress ==
    ASSUME TypeOK, NEW h \in Handlers, NEW kind \in Kinds, NEW c \in Cases,
           NEW content \in Contents, Start(h, kind, c, content)
    PROVE  Progress(handler[h])'
  <1> DEFINE R == [kind : Kinds, case : Cases, holds : Contents]
             q == [kind |-> kind, case |-> c, holds |-> content]
             k == [on |-> Len(request) + 1, step |-> 1, names |-> content.people, adds |-> <<>>,
                   near |-> content.near, flagged |-> content.flagged, new |-> FALSE]
  <1>1. request' = Append(request, q) /\ handler'[h] = k /\ request \in Seq(R) /\ q \in R
    BY DEF Start, TypeOK, HandlersOK
  <1>2. content \in [people : Seq(Names), near : Nat, flagged : Nat]
    BY ContentsAreRecords
  <1>3. PICK n, p : n = k /\ p = q
    OBVIOUS
  <1>4. /\ n.on = Len(request) + 1 /\ n.step = 1 /\ n.names = content.people
        /\ n.near = content.near /\ n.flagged = content.flagged /\ p.holds = content
    BY <1>3
  <1> HIDE DEF R, q, k
  <1>5. request'[n.on] = p
    BY <1>1, <1>3, <1>4
  <1>6. Done(n)' = {}
    BY <1>4 DEF Done, Before
  <1>7. Memory(n)'
    <2>1. People(n.on)' = Elements(n.names)
      BY <1>4, <1>5 DEF People, Elements
    <2>2. \A i \in 1..content.near : i <= n.near
      BY <1>2, <1>4
    <2>3. \A i \in 1..content.flagged : i <= n.flagged
      BY <1>2, <1>4
    <2> QED
      BY <1>4, <1>5, <2>1, <2>2, <2>3 DEF Memory
  <1> QED
    BY <1>1, <1>3, <1>6, <1>7 DEF Progress

\* Whatever is committed by the steps before is in place at every step.
LEMMA StepsInvariant == Spec => [](TypeOK /\ StepsInv)
  <1>1. Init => StepsInv
    BY DEF Init, StepsInv, ContentFits, Requests
  <1>2. TypeOK /\ StepsInv /\ [Next]_vars => StepsInv'
    <2> SUFFICES ASSUME TypeOK, StepsInv, [Next]_vars
                 PROVE  StepsInv'
      OBVIOUS
    <2>1. ContentFits'
      BY ContentFitsStep DEF StepsInv
    <2>2. ASSUME NEW h \in Handlers, handler'[h] # Idle
          PROVE  Progress(handler[h])'
      <3>1. CASE handler[h] # Idle
        <4>1. PICK k : k = handler[h]
          OBVIOUS
        <4> QED
          BY <2>2, <3>1, <4>1, StepOutcome DEF Outcome
      <3>2. CASE handler[h] = Idle
        <4>1. \E kind \in Kinds, c \in Cases, content \in Contents : Start(h, kind, c, content)
          <5>1. ASSUME NEW g \in Handlers,
                       \/ \E action \in Logged : LogAction(g, action)
                       \/ StoreDocument(g) \/ RegisterEvidence(g) \/ FindCase(g) \/ InsertCase(g)
                       \/ LogZip(g) \/ LookUp(g) \/ CommitLookups(g) \/ CommitRows(g)
                       \/ CoLocate(g) \/ CreateAlert(g) \/ UpdateGraph(g) \/ ResetGraph(g)
                       \/ Fail(g)
                PROVE  FALSE
            <6>1. handler[g] # Idle
              BY <5>1 DEF LogAction, StoreDocument, RegisterEvidence, FindCase, InsertCase, LogZip,
                 LookUp, CommitLookups, CommitRows, CoLocate, CreateAlert, UpdateGraph, AddNodes,
                 ResetGraph,
                 Fail, At
            <6> QED
              BY <2>2, <3>2, <5>1, <6>1 DEF LogAction, StoreDocument, RegisterEvidence, FindCase,
                 InsertCase, LogZip, LookUp, CommitLookups, CommitRows, CoLocate, CreateAlert,
                 UpdateGraph, AddNodes, ResetGraph, Fail, Go, Raise, TypeOK, HandlersOK
          <5>2. ASSUME NEW g \in Handlers, NEW kind \in Kinds, NEW c \in Cases,
                       NEW content \in Contents, Start(g, kind, c, content)
                PROVE  g = h
            BY <2>2, <3>2, <5>2 DEF Start, TypeOK, HandlersOK
          <5>3. /\ ~Restart /\ ~UNCHANGED vars
                /\ ~ \E c \in Cases : FindNoGraph(c) \/ StoreGraph(c)
            BY <2>2, <3>2 DEF Restart, vars, FindNoGraph, StoreGraph
          <5> QED
            BY <5>1, <5>2, <5>3 DEF Next
        <4> QED
          BY <4>1, StartProgress
      <3> QED
        BY <3>1, <3>2
    <2> QED
      BY <2>1, <2>2 DEF StepsInv
  <1> QED
    BY <1>1, <1>2, TypeInit, TypeStep, PTL DEF Spec

-----------------------------------------------------------------------------
(* What the chain of custody says was done was done. *)

LEMMA AllRaised ==
    ASSUME NEW on, NEW near \in Nat, NEW flagged \in Nat, NEW raised,
           NEW i0, NEW j0, i0 = 0 \/ near = 0, j0 = 0 \/ flagged = 0,
           \A i \in 1..near : i <= i0 \/ <<"CO_LOCATION", i, on>> \in raised,
           \A i \in 1..flagged : i <= j0 \/ <<"PATTERN", i, on>> \in raised
    PROVE  {<<"CO_LOCATION", i, on>> : i \in 1..near}
             \cup {<<"PATTERN", i, on>> : i \in 1..flagged} \subseteq raised
  <1>1. ASSUME NEW i \in 1..near
        PROVE  <<"CO_LOCATION", i, on>> \in raised
    <2>1. i0 = 0 => ~(i <= i0)
      OBVIOUS
    <2>2. near # 0
      OBVIOUS
    <2> QED
      BY <2>1, <2>2
  <1>2. ASSUME NEW i \in 1..flagged
        PROVE  <<"PATTERN", i, on>> \in raised
    <2>1. j0 = 0 => ~(i <= j0)
      OBVIOUS
    <2>2. flagged # 0
      OBVIOUS
    <2> QED
      BY <2>1, <2>2
  <1> QED
    BY <1>1, <1>2

LEMMA ContentTyped ==
    ASSUME TypeOK, NEW r \in Requests
    PROVE  /\ request[r].kind \in Kinds /\ request[r].case \in Cases
           /\ request[r].holds \in [people : Seq(Names), near : Nat, flagged : Nat]
           /\ request[r].holds.near \in Nat /\ request[r].holds.flagged \in Nat
  <1> DEFINE R == [kind : Kinds, case : Cases, holds : Contents]
  <1>1. request \in Seq(R)
    BY DEF TypeOK
  <1>2. request[r] \in R
    <2> HIDE DEF R
    <2> QED
      BY <1>1 DEF Requests
  <1> QED
    BY <1>2, ContentsAreRecords

\* Before the record that closes a request comes everything else.
LEMMA ClosingIsLast ==
    ASSUME TypeOK, StepsInv, NEW h \in Handlers, NEW k, k = handler[h], k # Idle,
           NEW q, q = request[k.on], q.kind \in DOMAIN Closing, Current(k) = Closing[q.kind]
    PROVE  /\ <<"rows", k.on>> \in rows
           /\ Alerts(k.on) \subseteq alerts
           /\ People(k.on) \subseteq lookup
           /\ k.on \in graph[q.case] \cup wiped
  <1>1. /\ k.on \in Requests /\ k.step \in 1..Len(Steps[q.kind]) /\ q.kind \in Kinds
        /\ Progress(k)
    BY WorkingTyped DEF Of, StepsInv
  <1>2. q.kind \in {"report", "upload", "bundle"}
    BY DEF Closing
  <1>3. {"commit lookups", "rows", "alerts", "graph"} \subseteq Done(k)
        /\ (q.kind = "bundle" => "near" \in Done(k))
    <2>1. CASE q.kind \in {"report", "upload"}
      <3>1. Current(k) = "GRAPH_UPDATED"
        BY <2>1 DEF Closing
      <3>2. /\ {"INVESTIGATION_REPORT_SUBMITTED", "commit lookups", "rows", "graph", "alerts",
                "NLP_ANALYSIS_COMPLETED"} \subseteq Done(k)
        BY <1>1, <3>1, Relies
      <3> QED
        BY <2>1, <3>2
    <2>2. CASE q.kind = "bundle"
      <3>1. Current(k) = "CASE_BUNDLE_INGESTED"
        BY <2>2 DEF Closing
      <3>2. {"commit lookups", "near", "rows", "alerts", "graph"} \subseteq Done(k)
        BY <1>1, <3>1, Relies
      <3> QED
        BY <2>2, <3>2
    <2> QED
      BY <1>2, <2>1, <2>2
  <1>4. k.flagged = 0 /\ (k.near = 0 \/ q.holds.near = 0)
    BY <1>1, <1>2, <1>3 DEF Progress, Made, StepsInv, ContentFits
  <1>5. Alerts(k.on) \subseteq alerts
    <2>1. /\ \A i \in 1..q.holds.near : i <= k.near \/ <<"CO_LOCATION", i, k.on>> \in alerts
          /\ \A i \in 1..q.holds.flagged : i <= k.flagged \/ <<"PATTERN", i, k.on>> \in alerts
      BY <1>1 DEF Progress, Memory
    <2>2. q.holds.near \in Nat /\ q.holds.flagged \in Nat
      BY <1>1, ContentTyped
    <2> DEFINE near == q.holds.near
               flagged == q.holds.flagged
    <2>3. near \in Nat /\ flagged \in Nat /\ (k.near = 0 \/ near = 0) /\ k.flagged = 0
      BY <1>4, <2>2
    <2>4. Alerts(k.on) = {<<"CO_LOCATION", i, k.on>> : i \in 1..near}
                           \cup {<<"PATTERN", i, k.on>> : i \in 1..flagged}
      BY DEF Alerts
    <2> HIDE DEF near, flagged
    <2>5. /\ \A i \in 1..near : i <= k.near \/ <<"CO_LOCATION", i, k.on>> \in alerts
          /\ \A i \in 1..flagged : i <= k.flagged \/ <<"PATTERN", i, k.on>> \in alerts
      BY <2>1 DEF near, flagged
    <2> QED
      BY <2>3, <2>4, <2>5, AllRaised
  <1> QED
    BY <1>1, <1>3, <1>5 DEF Progress, Made

\* A handler that made its last step has left what its kind promises.
LEMMA FinishedIsDone ==
    ASSUME TypeOK, StepsInv, Kept, NEW h \in Handlers, NEW k, k = handler[h], k # Idle,
           Finished(k)', NEW q, q = request[k.on]
    PROVE  /\ q.kind \in {"report", "upload"} =>
                {<<"INVESTIGATION_REPORT_SUBMITTED", k.on>>, <<"NLP_ANALYSIS_COMPLETED", k.on>>,
                 <<"GRAPH_UPDATED", k.on>>} \subseteq custody'
           /\ q.kind = "bundle" => <<"CASE_BUNDLE_INGESTED", k.on>> \in custody'
           /\ q.kind = "zip" => /\ <<"FORENSIC_ZIP_INGESTED", k.on>> \in custody'
                                /\ <<"rows", k.on>> \in rows'
                                /\ People(k.on) \subseteq lookup'
           /\ q.kind = "archive" => /\ <<"EVIDENCE_UPLOADED", k.on>> \in custody'
                                    /\ Alerts(k.on) \subseteq alerts'
           /\ q.kind = "json" => q.case \in caseRows'
  <1>1. /\ k.on \in Requests /\ k.step \in 1..Len(Steps[q.kind]) /\ q.kind \in Kinds
        /\ q.case \in Cases /\ Progress(k)
    BY WorkingTyped DEF Of, StepsInv
  <1>2. Progress(k)' /\ Done(k)' = Done(k) /\ Current(k)' = Current(k) /\ request'[k.on] = q
    BY <1>1, ProgressStays DEF Kept
  <1>3. k.step = Len(Steps[q.kind]) /\ Made(k, Current(k))'
    BY <1>2 DEF Finished
  <1>4. \A s \in Done(k) : Made(k, s)'
    BY <1>2 DEF Progress
  <1>5. CASE q.kind \in {"report", "upload"}
    <2>1. Current(k) = "GRAPH_UPDATED"
      BY <1>3, <1>5, LastStep
    <2>2. {"INVESTIGATION_REPORT_SUBMITTED", "NLP_ANALYSIS_COMPLETED"} \subseteq Done(k)
      BY <1>1, <2>1, Relies
    <2>3. /\ Made(k, "INVESTIGATION_REPORT_SUBMITTED")' /\ Made(k, "NLP_ANALYSIS_COMPLETED")'
          /\ Made(k, "GRAPH_UPDATED")'
      BY <1>2, <1>3, <1>4, <2>1, <2>2
    <2> QED
      BY <1>5, <2>3 DEF Made, Logged
  <1>6. CASE q.kind = "bundle"
    <2>1. Current(k) = "CASE_BUNDLE_INGESTED"
      BY <1>3, <1>6, LastStep
    <2>2. Made(k, "CASE_BUNDLE_INGESTED")'
      BY <1>2, <1>3, <2>1
    <2> QED
      BY <1>6, <2>2 DEF Made, Logged
  <1>7. CASE q.kind = "zip"
    <2>1. Current(k) = "graph"
      BY <1>3, <1>7, LastStep
    <2>2. {"FORENSIC_ZIP_INGESTED", "rows"} \subseteq Done(k)
      BY <1>1, <1>7, <2>1, Relies
    <2>3. Made(k, "FORENSIC_ZIP_INGESTED")' /\ Made(k, "rows")'
      BY <1>4, <2>2
    <2>4. People(k.on)' = People(k.on)
      BY <1>2 DEF People
    <2> QED
      BY <1>2, <1>7, <2>3, <2>4 DEF Made
  <1>8. CASE q.kind = "archive"
    <2>1. Current(k) = "near" /\ "evidence" \in Done(k)
      BY <1>3, <1>8, LastStep
    <2>2. <<"EVIDENCE_UPLOADED", k.on>> \in custody' /\ k.near = 0
      <3>1. Made(k, "evidence")' /\ Made(k, "near")'
        BY <1>2, <1>3, <1>4, <2>1
      <3> QED
        BY <3>1 DEF Made
    <2>3. q.holds.flagged = 0
      BY <1>1, <1>8 DEF StepsInv, ContentFits
    <2>4. /\ \A i \in 1..q.holds.near : i <= k.near \/ <<"CO_LOCATION", i, k.on>> \in alerts'
          /\ \A i \in 1..q.holds.flagged : i <= k.flagged \/ <<"PATTERN", i, k.on>> \in alerts'
      BY <1>2 DEF Progress, Memory
    <2>5. Alerts(k.on) \subseteq alerts'
      BY <1>1, <2>2, <2>3, <2>4, ContentTyped, AllRaised DEF Alerts
    <2> QED
      BY <1>8, <2>2, <2>5
  <1>9. CASE q.kind = "json"
    <2>1. Current(k) = "graph"
      BY <1>3, <1>9, LastStep
    <2>2. "case" \in Done(k)
      BY <1>1, <1>9, <2>1, Relies
    <2>3. Made(k, "case")'
      BY <1>4, <2>2
    <2> QED
      BY <1>2, <1>9, <2>3 DEF Made
  <1> QED
    BY <1>1, <1>5, <1>6, <1>7, <1>8, <1>9 DEF Kinds

\* A request that is new: it runs, and nothing of it is on file.
LEMMA NewRequest ==
    ASSUME TypeOK, [Next]_vars, NEW r \in Requests', r \notin Requests
    PROVE  /\ UNCHANGED <<caseRows, lookup, rows, alerts, custody, graph, failed, wiped>>
           /\ Running(r)'
  <1>1. ~UNCHANGED request
    BY DEF Requests
  <1>2. PICK h \in Handlers, kind \in Kinds, c \in Cases, content \in Contents :
               Start(h, kind, c, content)
    BY <1>1 DEF Next, vars, LogAction, StoreDocument, RegisterEvidence, FindCase, InsertCase,
       LogZip, LookUp, CommitLookups, CommitRows, CoLocate, CreateAlert, UpdateGraph, AddNodes,
       ResetGraph, FindNoGraph, StoreGraph, Fail, Restart
  <1> DEFINE R == [kind : Kinds, case : Cases, holds : Contents]
             q == [kind |-> kind, case |-> c, holds |-> content]
  <1>3. request' = Append(request, q) /\ request \in Seq(R) /\ q \in R
    BY <1>2 DEF Start, TypeOK
  <1>4. handler'[h].on = Len(request) + 1
    BY <1>2 DEF Start, TypeOK, HandlersOK
  <1> HIDE DEF R, q
  <1>5. r = Len(request) + 1
    BY <1>3 DEF Requests
  <1> QED
    BY <1>2, <1>4, <1>5 DEF Start, Running

\* A request that ran is still running, has failed, or is done.
LEMMA RunningStep ==
    ASSUME TypeOK, StepsInv, [Next]_vars, NEW r \in Requests, Running(r)
    PROVE  \/ Running(r)'
           \/ r \in failed'
           \/ \E h \in Handlers : \E k :
                k = handler[h] /\ k # Idle /\ k.on = r /\ Finished(k)'
  <1>0. PICK h \in Handlers : handler[h].on = r
    BY DEF Running
  <1>1. PICK k : k = handler[h] /\ k.on = r
    BY <1>0
  <1>2. k # Idle
    BY <1>1 DEF Idle, Requests, TypeOK
  <1>3. Outcome(h, k)
    BY <1>1, <1>2, StepOutcome
  <1> QED
    BY <1>1, <1>2, <1>3 DEF Outcome, Running

\* A custody record is that of the step that its request makes.
LEMMA NewRecord ==
    ASSUME TypeOK, [Next]_vars, NEW action, NEW r, <<action, r>> \in custody',
           <<action, r>> \notin custody, action # "EVIDENCE_UPLOADED"
    PROVE  \E h \in Handlers : \E k :
             k = handler[h] /\ k # Idle /\ k.on = r /\ Current(k) = action
  <1>1. ASSUME NEW h \in Handlers, NEW a \in Logged, LogAction(h, a)
        PROVE  handler[h] # Idle /\ handler[h].on = r /\ Current(handler[h]) = action
    BY <1>1 DEF LogAction, At, Current, Of
  <1>2. ASSUME NEW h \in Handlers, LogZip(h)
        PROVE  handler[h] # Idle /\ handler[h].on = r /\ Current(handler[h]) = action
    BY <1>2 DEF LogZip, At, Current, Of
  <1>3. ASSUME NEW h \in Handlers, RegisterEvidence(h)
        PROVE  FALSE
    BY <1>3 DEF RegisterEvidence
  <1>4. ~UNCHANGED custody
    OBVIOUS
  <1> QED
    BY <1>1, <1>2, <1>3, <1>4, ZenonT(60)
    DEF Next, vars, Start, StoreDocument, FindCase, InsertCase, LookUp, CommitLookups, CommitRows,
        CoLocate, CreateAlert, UpdateGraph, AddNodes, ResetGraph, FindNoGraph, StoreGraph, Fail,
        Restart

ZipRecords ==
    \A r \in Requests :
        <<"FORENSIC_ZIP_INGESTED", r>> \in custody => request[r].kind = "zip"

LEMMA RecordedStep ==
    ASSUME TypeOK, StepsInv, RecordedIsDone, ZipRecords, [Next]_vars
    PROVE  RecordedIsDone' /\ ZipRecords'
  <1>1. Kept
    BY StepKeeps
  <1>2. ASSUME NEW r \in Requests', r \notin Requests, NEW action
        PROVE  <<action, r>> \notin custody'
    BY <1>2, NewRequest DEF TypeOK, StoredOK
  <1>3. ASSUME NEW r \in Requests, <<"FORENSIC_ZIP_INGESTED", r>> \in custody'
        PROVE  request[r].kind = "zip"
    <2>1. CASE <<"FORENSIC_ZIP_INGESTED", r>> \in custody
      BY <2>1 DEF ZipRecords
    <2>2. CASE <<"FORENSIC_ZIP_INGESTED", r>> \notin custody
      <3>0. PICK h \in Handlers : \E k :
               k = handler[h] /\ k # Idle /\ k.on = r /\ Current(k) = "FORENSIC_ZIP_INGESTED"
        BY <1>3, <2>2, NewRecord
      <3>1. PICK k :
               k = handler[h] /\ k # Idle /\ k.on = r /\ Current(k) = "FORENSIC_ZIP_INGESTED"
        BY <3>0
      <3>2. request[k.on].kind \in Kinds /\ k.step \in 1..Len(Steps[request[k.on].kind])
        BY <3>1, WorkingTyped DEF Of
      <3> QED
        BY <3>1, <3>2, Relies
    <2> QED
      BY <2>1, <2>2
  <1>4. ASSUME NEW r \in Requests, request[r].kind \in DOMAIN Closing,
               <<Closing[request[r].kind], r>> \in custody'
        PROVE  /\ <<"rows", r>> \in rows'
               /\ Alerts(r) \subseteq alerts'
               /\ People(r) \subseteq lookup'
               /\ r \in graph'[request[r].case] \cup wiped'
    <2>1. /\ <<"rows", r>> \in rows
          /\ Alerts(r) \subseteq alerts
          /\ People(r) \subseteq lookup
          /\ r \in graph[request[r].case] \cup wiped
      <3>1. CASE <<Closing[request[r].kind], r>> \in custody
        BY <1>4, <3>1 DEF RecordedIsDone
      <3>2. CASE <<Closing[request[r].kind], r>> \notin custody
        <4>1. Closing[request[r].kind] # "EVIDENCE_UPLOADED"
          BY <1>4 DEF Closing
        <4>0. PICK h \in Handlers : \E k :
                 /\ k = handler[h] /\ k # Idle /\ k.on = r
                 /\ Current(k) = Closing[request[r].kind]
          BY <1>4, <3>2, <4>1, NewRecord
        <4>2. PICK k :
                 /\ k = handler[h] /\ k # Idle /\ k.on = r
                 /\ Current(k) = Closing[request[r].kind]
          BY <4>0
        <4> QED
          BY <1>4, <4>2, ClosingIsLast
      <3> QED
        BY <3>1, <3>2
    <2>2. request[r].case \in Cases
      BY ContentTyped
    <2> QED
      BY <1>1, <2>1, <2>2 DEF Kept
  <1>5. ASSUME NEW r \in Requests, <<"FORENSIC_ZIP_INGESTED", r>> \in custody'
        PROVE  \/ <<"rows", r>> \in rows' /\ People(r) \subseteq lookup'
               \/ Running(r)'
               \/ r \in failed'
    <2>1. CASE Running(r)
      <3>1. ASSUME NEW h \in Handlers, NEW k, k = handler[h], k # Idle, k.on = r, Finished(k)'
            PROVE  <<"rows", r>> \in rows' /\ People(r) \subseteq lookup'
        BY <1>1, <1>3, <1>5, <3>1, FinishedIsDone
      <3> QED
        BY <2>1, <3>1, RunningStep
    <2>2. CASE <<"FORENSIC_ZIP_INGESTED", r>> \in custody /\ ~Running(r)
      <3>1. request[r].kind \notin DOMAIN Closing
        BY <1>3, <1>5 DEF Closing
      <3> QED
        BY <1>1, <2>2, <3>1 DEF RecordedIsDone, Kept
    <2>3. CASE <<"FORENSIC_ZIP_INGESTED", r>> \notin custody /\ ~Running(r)
      <3>0. PICK h \in Handlers : \E k : k = handler[h] /\ k # Idle /\ k.on = r
        BY <1>5, <2>3, NewRecord
      <3>1. PICK k : k = handler[h] /\ k # Idle /\ k.on = r
        BY <3>0
      <3> QED
        BY <2>3, <3>1 DEF Running
    <2> QED
      BY <2>1, <2>2, <2>3
  <1>6. \A r \in Requests : /\ request'[r] = request[r]
                            /\ Alerts(r)' = Alerts(r)
                            /\ People(r)' = People(r)
    BY <1>1 DEF Kept, Alerts, People
  <1>7. ZipRecords'
    BY <1>2, <1>3, <1>6 DEF ZipRecords
  <1>8. RecordedIsDone'
    BY <1>2, <1>4, <1>5, <1>6 DEF RecordedIsDone
  <1> QED
    BY <1>7, <1>8

\* Behind the record that closes a report or a bundle stand its rows, alerts,
\* identities and its part of the graph, however many requests run at once and
\* whatever fails.
THEOREM RecordedAreDone == Spec => []RecordedIsDone
  <1>1. Init => RecordedIsDone /\ ZipRecords
    BY DEF Init, RecordedIsDone, ZipRecords, Requests
  <1>2. TypeOK /\ StepsInv /\ RecordedIsDone /\ ZipRecords /\ [Next]_vars
          => RecordedIsDone' /\ ZipRecords'
    BY RecordedStep
  <1> QED
    BY <1>1, <1>2, StepsInvariant, PTL DEF Spec

-----------------------------------------------------------------------------
(* Nothing is on file without its records. *)

LEMMA StoredStep ==
    ASSUME TypeOK, StepsInv, StoredIsRecorded, [Next]_vars
    PROVE  StoredIsRecorded'
  <1>1. Kept
    BY StepKeeps
  <1>2. \A r \in Requests' : r \in Requests \/ Running(r)'
    BY NewRequest
  <1>3. \A r \in Requests : request'[r] = request[r] /\ Alerts(r)' = Alerts(r)
    BY <1>1 DEF Kept, Alerts
  <1> DEFINE Recorded(r, q, records, raised, cases) ==
                /\ q.kind \in {"report", "upload"} =>
                     {<<"INVESTIGATION_REPORT_SUBMITTED", r>>, <<"NLP_ANALYSIS_COMPLETED", r>>,
                      <<"GRAPH_UPDATED", r>>} \subseteq records
                /\ q.kind = "bundle" => <<"CASE_BUNDLE_INGESTED", r>> \in records
                /\ q.kind = "zip" => <<"FORENSIC_ZIP_INGESTED", r>> \in records
                /\ q.kind = "archive" => /\ <<"EVIDENCE_UPLOADED", r>> \in records
                                         /\ Alerts(r) \subseteq raised
                /\ q.kind = "json" => q.case \in cases
  <1>4. ASSUME NEW r \in Requests, ~Running(r)', r \notin failed'
        PROVE  Recorded(r, request[r], custody', alerts', caseRows')
    <2>1. CASE Running(r)
      <3>1. ASSUME NEW h \in Handlers, NEW k, k = handler[h], k # Idle, k.on = r, Finished(k)'
            PROVE  Recorded(r, request[r], custody', alerts', caseRows')
        BY <1>1, <3>1, FinishedIsDone
      <3> HIDE DEF Recorded
      <3> QED
        BY <1>4, <2>1, <3>1, RunningStep
    <2>2. CASE ~Running(r)
      <3>1. r \notin failed
        BY <1>1, <1>4 DEF Kept
      <3>2. request[r].kind \in Kinds
        BY ContentTyped
      <3>3. Recorded(r, request[r], custody, alerts, caseRows)
        BY <2>2, <3>1, <3>2 DEF StoredIsRecorded, Kinds
      <3> QED
        BY <1>1, <3>3 DEF Kept
    <2> QED
      BY <2>1, <2>2
  <1>5. ASSUME NEW r \in Requests', ~Running(r)', r \notin failed'
        PROVE  /\ r \in Requests /\ request'[r] = request[r] /\ Alerts(r)' = Alerts(r)
               /\ request[r].kind \in Kinds
               /\ Recorded(r, request[r], custody', alerts', caseRows')
    BY <1>2, <1>3, <1>4, <1>5, ContentTyped
  <1> QED
    BY <1>5 DEF StoredIsRecorded, Kinds

\* A request that has ended without failing has left its custody records, in
\* every interleaving with others: no way through its steps skips them.
THEOREM StoredAreRecorded == Spec => []StoredIsRecorded
  <1>1. Init => StoredIsRecorded
    BY DEF Init, StoredIsRecorded, Requests
  <1>2. TypeOK /\ StepsInv /\ StoredIsRecorded /\ [Next]_vars => StoredIsRecorded'
    BY StoredStep
  <1> QED
    BY <1>1, <1>2, StepsInvariant, PTL DEF Spec

-----------------------------------------------------------------------------
(* What is on file rests on what it refers to. *)

\* A row that is new was committed by a step of its request that comes after
\* the commit of its case.
LEMMA NewRow ==
    ASSUME TypeOK, StepsInv, [Next]_vars, NEW t, NEW r, <<t, r>> \in rows', <<t, r>> \notin rows
    PROVE  /\ r \in Requests
           /\ request[r].kind \in {"bundle", "zip"} => request[r].case \in caseRows
  <1>1. PICK h \in Handlers :
             StoreDocument(h) \/ RegisterEvidence(h) \/ CommitRows(h) \/ CoLocate(h)
    BY ZenonT(60)
    DEF Next, vars, Start, LogAction, FindCase, InsertCase, LogZip, LookUp, CommitLookups,
       CreateAlert, UpdateGraph, AddNodes, ResetGraph, FindNoGraph, StoreGraph, Fail, Restart
  <1>2. PICK k : k = handler[h]
    OBVIOUS
  <1>3. k # Idle /\ k.on = r /\ Current(k) \in {"document", "evidence", "rows", "near"}
    <2>1. CASE StoreDocument(h)
      BY <1>2, <2>1 DEF StoreDocument, At, Current, Of
    <2>2. CASE RegisterEvidence(h)
      BY <1>2, <2>2 DEF RegisterEvidence, At, Current, Of
    <2>3. CASE CommitRows(h)
      BY <1>2, <2>3 DEF CommitRows, At, Current, Of
    <2>4. CASE CoLocate(h)
      <3>1. k # Idle /\ Current(k) = "near"
        BY <1>2, <2>4 DEF CoLocate, At, Current, Of
      <3>2. \/ rows' = rows \/ rows' = rows \cup {<<"rows", k.on>>}
            \/ rows' = rows \cup {<<"early rows", k.on>>}
        BY <1>2, <2>4 DEF CoLocate
      <3>3. <<t, r>> = <<"rows", k.on>> \/ <<t, r>> = <<"early rows", k.on>>
        BY <3>2, Zenon
      <3>4. r = k.on
        BY <3>3
      <3> QED
        BY <3>1, <3>4
    <2> QED
      BY <1>1, <2>1, <2>2, <2>3, <2>4
  <1>4. /\ r \in Requests /\ request[r].kind \in Kinds /\ Progress(k)
        /\ k.step \in 1..Len(Steps[request[r].kind])
    BY <1>2, <1>3, WorkingTyped DEF Of, StepsInv
  <1>5. CASE request[r].kind = "bundle"
    <2>1. "case" \in Done(k)
      BY <1>3, <1>4, <1>5, Relies
    <2> QED
      BY <1>3, <1>4, <2>1 DEF Progress, Made
  <1>6. CASE request[r].kind = "zip"
    <2>1. "FORENSIC_ZIP_INGESTED" \in Done(k)
      BY <1>3, <1>4, <1>6, Relies
    <2> QED
      BY <1>3, <1>4, <2>1 DEF Progress, Made
  <1> QED
    BY <1>4, <1>5, <1>6

\* An alert that is new was raised with the rows it rests on, or after them.
LEMMA NewAlert ==
    ASSUME TypeOK, StepsInv, [Next]_vars, NEW a \in alerts', a \notin alerts
    PROVE  {<<"rows", a[3]>>, <<"early rows", a[3]>>} \cap rows' # {}
  <1>1. PICK h \in Handlers : CoLocate(h) \/ CreateAlert(h)
    BY ZenonT(60)
    DEF Next, vars, Start, LogAction, StoreDocument, RegisterEvidence, FindCase, InsertCase,
       LogZip, LookUp, CommitLookups, CommitRows, UpdateGraph, AddNodes, ResetGraph, FindNoGraph,
       StoreGraph, Fail, Restart
  <1>2. CASE CoLocate(h)
    <2>1. /\ a = <<"CO_LOCATION", handler[h].near, handler[h].on>>
          /\ \/ <<"rows", handler[h].on>> \in rows'
             \/ <<"early rows", handler[h].on>> \in rows'
      BY <1>2 DEF CoLocate
    <2>2. a[3] = handler[h].on
      BY <2>1
    <2> QED
      BY <2>1, <2>2
  <1>3. CASE CreateAlert(h)
    <2>1. PICK k : k = handler[h]
      OBVIOUS
    <2>2. k # Idle /\ Current(k) = "alerts" /\ a[3] = k.on /\ rows' = rows
      BY <1>3, <2>1 DEF CreateAlert, At, Current, Of
    <2>3. /\ request[k.on].kind \in Kinds /\ Progress(k)
          /\ k.step \in 1..Len(Steps[request[k.on].kind])
      BY <2>1, <2>2, WorkingTyped DEF Of, StepsInv
    <2>4. "rows" \in Done(k)
      BY <2>2, <2>3, Relies
    <2> QED
      BY <2>2, <2>3, <2>4 DEF Progress, Made
  <1> QED
    BY <1>1, <1>2, <1>3

\* An alert rests on rows that are committed, and the rows of a bundle or of a
\* forensic archive on the row of their case.
THEOREM AlertsHaveRows == Spec => []AlertsRestOnRows
  <1>1. Init => AlertsRestOnRows
    BY DEF Init, AlertsRestOnRows
  <1>2. TypeOK /\ StepsInv /\ AlertsRestOnRows /\ [Next]_vars => AlertsRestOnRows'
    <2> SUFFICES ASSUME TypeOK, StepsInv, AlertsRestOnRows, [Next]_vars
                 PROVE  AlertsRestOnRows'
      OBVIOUS
    <2>1. Kept
      BY StepKeeps
    <2>2. ASSUME NEW a \in alerts'
          PROVE  {<<"rows", a[3]>>, <<"early rows", a[3]>>} \cap rows' # {}
      <3>1. CASE a \in alerts
        BY <2>1, <3>1 DEF AlertsRestOnRows, Kept
      <3>2. CASE a \notin alerts
        BY <3>2, NewAlert
      <3> QED
        BY <3>1, <3>2
    <2>3. ASSUME NEW x \in rows', request'[x[2]].kind \in {"bundle", "zip"}
          PROVE  request'[x[2]].case \in caseRows'
      <3>1. x = <<x[1], x[2]>>
        BY TypeStep DEF TypeOK, StoredOK
      <3>2. CASE x \in rows
        <4>1. x[2] \in Requests
          BY <3>2 DEF TypeOK, StoredOK
        <4> QED
          BY <2>1, <2>3, <3>2, <4>1 DEF AlertsRestOnRows, Kept
      <3>3. CASE x \notin rows
        <4>1. x[2] \in Requests
              /\ (request[x[2]].kind \in {"bundle", "zip"} => request[x[2]].case \in caseRows)
          BY <3>1, <3>3, NewRow
        <4> QED
          BY <2>1, <2>3, <4>1 DEF Kept
      <3> QED
        BY <3>2, <3>3
    <2> QED
      BY <2>2, <2>3 DEF AlertsRestOnRows
  <1> QED
    BY <1>1, <1>2, StepsInvariant, PTL DEF Spec

\* Whoever has a node from an ingestion can be revealed: the identities of a
\* request are on file before its nodes are in the graph.
THEOREM NodesHaveLookups == Spec => []NodesCanBeRevealed
  <1>1. Init => NodesCanBeRevealed
    BY DEF Init, NodesCanBeRevealed
  <1>2. TypeOK /\ StepsInv /\ NodesCanBeRevealed /\ [Next]_vars => NodesCanBeRevealed'
    <2> SUFFICES ASSUME TypeOK, StepsInv, NodesCanBeRevealed, [Next]_vars,
                        NEW c \in Cases, NEW r \in graph'[c]
                 PROVE  People(r)' \subseteq lookup'
      BY DEF NodesCanBeRevealed
    <2>1. Kept
      BY StepKeeps
    <2>2. CASE r \in graph[c]
      <3>1. r \in Requests
        BY <2>2 DEF TypeOK, StoredOK
      <3> QED
        BY <2>1, <2>2, <3>1 DEF NodesCanBeRevealed, Kept, People
    <2>3. CASE r \notin graph[c]
      <3>1. PICK h \in Handlers : UpdateGraph(h) \/ ResetGraph(h)
        <4>1. graph' # graph /\ ~ Restart
          BY <2>3 DEF Restart
        <4>2. ~ \E d \in Cases : StoreGraph(d)
          BY <2>3 DEF StoreGraph, TypeOK, StoredOK
        <4> QED
          BY <4>1, <4>2, ZenonT(60) DEF Next, vars, Start, LogAction, StoreDocument, RegisterEvidence,
             FindCase, InsertCase, LogZip, LookUp, CommitLookups, CommitRows, CoLocate,
             CreateAlert, FindNoGraph, Fail
      <3>2. PICK k : k = handler[h]
        OBVIOUS
      <3>3. k # Idle /\ Current(k) \in {"nodes", "reset", "graph"} /\ k.on = r
        <4>1. ASSUME NEW step \in {"nodes", "graph"}, AddNodes(h, step)
              PROVE  k # Idle /\ Current(k) \in {"nodes", "reset", "graph"} /\ k.on = r
          <5>1. k # Idle /\ Current(k) = step
            BY <3>2, <4>1 DEF AddNodes, At, Current, Of
          <5>2. graph \in [Cases -> SUBSET Requests]
            BY DEF TypeOK, StoredOK
          <5>3. graph' = [graph EXCEPT ![Of(h).case] = @ \cup {k.on}]
            BY <3>2, <4>1 DEF AddNodes
          <5>4. graph'[c] \subseteq graph[c] \cup {k.on}
            BY <5>2, <5>3
          <5> QED
            BY <2>3, <5>1, <5>4
        <4>2. CASE ResetGraph(h)
          BY <2>3, <3>2, <4>2 DEF ResetGraph, At, Current, Of, TypeOK, StoredOK
        <4> QED
          BY <3>1, <4>1, <4>2 DEF UpdateGraph
      <3>4. /\ r \in Requests /\ request[r].kind \in Kinds /\ Progress(k)
            /\ k.step \in 1..Len(Steps[request[r].kind])
        BY <3>2, <3>3, WorkingTyped DEF Of, StepsInv
      <3>5. People(r) \subseteq lookup
        <4>1. CASE "commit lookups" \in Done(k)
          BY <3>3, <3>4, <4>1 DEF Progress, Made
        <4>2. CASE request[r].kind = "zip" /\ "rows" \in Done(k)
          BY <3>3, <3>4, <4>2 DEF Progress, Made
        <4>3. CASE request[r].kind = "json"
          BY <3>4, <4>3 DEF StepsInv, ContentFits, People
        <4> QED
          BY <3>3, <3>4, <4>1, <4>2, <4>3, Relies
      <3> QED
        BY <2>1, <3>4, <3>5 DEF Kept, People
    <2> QED
      BY <2>2, <2>3
  <1> QED
    BY <1>1, <1>2, StepsInvariant, PTL DEF Spec

-----------------------------------------------------------------------------
HIDE DEF graphs

(* The graph of a case in its two stores (DualGraph): first the graph in     *)
(* memory by itself.                                                        *)

IsGraph(g) == g = [node |-> g.node, edge |-> g.edge]

\* The nodes that a memory call adds.
Ends(op) ==
    CASE op.call = "node" -> {op.id}
      [] op.call = "edge" -> {op.from, op.to}
      [] OTHER            -> {}

\* A graph with a call more.
Extends(g, op, new) ==
    /\ new.node = g.node \cup Ends(op)
    /\ IF op.call = "edge"
       THEN /\ DOMAIN new.edge = DOMAIN g.edge \cup {<<op.from, op.to>>}
            /\ new.edge[<<op.from, op.to>>] = op.relation
            /\ \A e \in DOMAIN g.edge : e # <<op.from, op.to>> => new.edge[e] = g.edge[e]
       ELSE new.edge = g.edge

\* upsert_networkx_node adds a node and leaves the edges.
LEMMA NodeUpserted ==
    ASSUME NEW g, IsGraph(g), NEW n
    PROVE  /\ IsGraph(UpsertNode(g, n))
           /\ UpsertNode(g, n).node = g.node \cup {n}
           /\ UpsertNode(g, n).edge = g.edge
  BY DEF IsGraph, UpsertNode

\* Whatever call comes next adds its ends and its edge.
LEMMA CalledExtends ==
    ASSUME NEW op, IsGraph(memory)
    PROVE  IsGraph(Called(op)) /\ Extends(memory, op, Called(op))
  <1>1. CASE op.call = "node"
    <2>1. Called(op) = UpsertNode(memory, op.id)
      BY <1>1 DEF Called
    <2> QED
      BY <1>1, <2>1, NodeUpserted DEF Extends, Ends
  <1>2. CASE op.call = "edge"
    <2> DEFINE g == UpsertNode(UpsertNode(memory, op.from), op.to)
               edge == WithEdge(g.edge, <<op.from, op.to>>, op.relation)
    <2>1. IsGraph(g) /\ g.node = memory.node \cup {op.from, op.to} /\ g.edge = memory.edge
      BY NodeUpserted
    <2>2. Called(op) = UpsertEdge(memory, op.from, op.to, op.relation)
      BY <1>2 DEF Called
    <2>3. Called(op) = [node |-> g.node, edge |-> edge]
      BY <2>1, <2>2 DEF UpsertEdge, IsGraph
    <2>4. /\ DOMAIN edge = DOMAIN g.edge \cup {<<op.from, op.to>>}
          /\ edge[<<op.from, op.to>>] = op.relation
          /\ \A e \in DOMAIN g.edge : e # <<op.from, op.to>> => edge[e] = g.edge[e]
      BY DEF WithEdge
    <2> HIDE DEF g, edge
    <2> QED
      BY <1>2, <2>1, <2>3, <2>4 DEF Extends, Ends, IsGraph
  <1>3. CASE op.call \notin {"node", "edge"}
    BY <1>3 DEF Called, Extends, Ends
  <1> QED
    BY <1>1, <1>2, <1>3

-----------------------------------------------------------------------------
(* Sequences: what the sequences that a program is joined from are made of. *)

LEMMA ConcatElements ==
    ASSUME NEW S, NEW s \in Seq(S), NEW t \in Seq(S)
    PROVE  s \o t \in Seq(S) /\ Elements(s \o t) = Elements(s) \cup Elements(t)
  <1>1. s \o t \in Seq(S)
    OBVIOUS
  <1>2. ASSUME NEW i \in DOMAIN (s \o t)
        PROVE  (s \o t)[i] \in Elements(s) \cup Elements(t)
    <2>1. CASE i <= Len(s)
      BY <2>1 DEF Elements
    <2>2. CASE i > Len(s)
      <3>1. i - Len(s) \in DOMAIN t /\ (s \o t)[i] = t[i - Len(s)]
        BY <2>2
      <3> QED
        BY <3>1 DEF Elements
    <2> QED
      BY <2>1, <2>2
  <1>3. ASSUME NEW i \in DOMAIN s
        PROVE  s[i] \in Elements(s \o t)
    <2>1. i \in DOMAIN (s \o t) /\ (s \o t)[i] = s[i]
      OBVIOUS
    <2> QED
      BY <2>1 DEF Elements
  <1>4. ASSUME NEW i \in DOMAIN t
        PROVE  t[i] \in Elements(s \o t)
    <2>1. Len(s) + i \in DOMAIN (s \o t) /\ (s \o t)[Len(s) + i] = t[i]
      OBVIOUS
    <2> QED
      BY <2>1 DEF Elements
  <1> QED
    BY <1>1, <1>2, <1>3, <1>4 DEF Elements

\* Induction, over a set of numbers.
LEMMA Induction ==
    ASSUME NEW T \in SUBSET Nat, 0 \in T, \A m \in T : m + 1 \in T
    PROVE  T = Nat
  <1>1. SUFFICES ASSUME Nat \ T # {} PROVE FALSE
    OBVIOUS
  <1> DEFINE less == OpToRel(<, Nat)
  <1>0. less = {p \in Nat \X Nat : p[1] < p[2]}
    BY DEF OpToRel
  <1>5. PICK m \in Nat \ T : \A k \in Nat \ T : ~(<<k, m>> \in less)
    <2>1. IsWellFoundedOn(less, Nat)
      BY NatLessThanWellFounded
    <2>2. Nat \ T \subseteq Nat
      OBVIOUS
    <2> HIDE DEF less
    <2> QED
      BY ONLY <1>1, <2>1, <2>2, WFMin
  <1> HIDE DEF less
  <1>2. \A k \in Nat \ T : ~(k < m)
    BY <1>0, <1>5
  <1>3. m # 0 /\ m - 1 \in Nat /\ ~(m <= m - 1) /\ (m - 1) + 1 = m
    BY <1>2
  <1>4. m - 1 \in T
    BY <1>2, <1>3
  <1> QED
    BY <1>2, <1>3, <1>4

\* What FlattenSeq joins are the elements of the sequences it is given.
LEMMA Flattened ==
    ASSUME NEW S, NEW seqs \in Seq(Seq(S))
    PROVE  /\ FlattenSeq(seqs) \in Seq(S)
           /\ Elements(FlattenSeq(seqs)) = UNION {Elements(seqs[i]) : i \in DOMAIN seqs}
  <1> DEFINE n == Len(seqs)
             Flat(f, m) ==
               f = [i \in 1..m |-> IF i = 1 THEN seqs[i] ELSE f[i - 1] \o seqs[i]]
             flat == CHOOSE f : Flat(f, n)
             Joined(s, m) ==
               s \in Seq(S) /\ Elements(s) = UNION {Elements(seqs[i]) : i \in 1..m}
  <1>1. FlattenSeq(seqs) = IF n = 0 THEN seqs ELSE flat[n]
    BY DEF FlattenSeq
  <1>2. Flat(<<>>, 0)
    OBVIOUS
  <1>3. ASSUME NEW m \in Nat, NEW f, Flat(f, m)
        PROVE  \E g : Flat(g, m + 1)
    <2> DEFINE g == [i \in 1..(m + 1) |->
                       IF i = 1 THEN seqs[i]
                       ELSE IF i = m + 1 THEN f[i - 1] \o seqs[i] ELSE f[i]]
    <2>1. ASSUME NEW i \in 1..(m + 1), i # 1
          PROVE  g[i] = g[i - 1] \o seqs[i]
      <3>1. i - 1 \in 1..m /\ i - 1 # m + 1 /\ i - 1 \in 1..(m + 1)
        BY <2>1
      <3>2. g[i - 1] = f[i - 1]
        BY <1>3, <3>1
      <3>3. CASE i = m + 1
        BY <2>1, <3>2, <3>3
      <3>4. CASE i # m + 1
        <4>1. i \in 1..m
          BY <3>4
        <4>2. f[i] = f[i - 1] \o seqs[i]
          BY <1>3, <2>1, <4>1
        <4> QED
          BY <2>1, <3>2, <3>4, <4>2
      <3> QED
        BY <3>3, <3>4
    <2>2. Flat(g, m + 1)
      BY <2>1
    <2> HIDE DEF g, Flat
    <2> QED
      BY <2>2
  <1>4. ASSUME NEW m \in Nat, NEW f, Flat(f, m), NEW i \in 1..m
        PROVE  f[i] = IF i = 1 THEN seqs[i] ELSE f[i - 1] \o seqs[i]
    BY <1>4
  <1>5. n \in Nat /\ DOMAIN seqs = 1..n /\ \A i \in 1..n : seqs[i] \in Seq(S)
    OBVIOUS
  <1> HIDE DEF n, Flat
  <1>6. Flat(flat, n)
    <2> DEFINE T == {m \in Nat : \E f : Flat(f, m)}
    <2>1. 0 \in T
      BY <1>2
    <2>2. \A m \in T : m + 1 \in T
      BY <1>3
    <2>3. T = Nat
      <3> HIDE DEF T
      <3>1. T \in SUBSET Nat
        BY DEF T
      <3> QED
        BY <2>1, <2>2, <3>1, Induction
    <2> QED
      BY <1>5, <2>3
  <1> HIDE DEF flat
  <1>0. \A i \in 1..n : flat[i] = IF i = 1 THEN seqs[i] ELSE flat[i - 1] \o seqs[i]
    BY ONLY <1>4, <1>5, <1>6
  <1>7. ASSUME n # 0
        PROVE  Joined(flat[n], n)
    <2> DEFINE T == {m \in Nat : m \in 1..n => Joined(flat[m], m)}
    <2>1. 0 \in T
      OBVIOUS
    <2>2. ASSUME NEW m \in T
          PROVE  m + 1 \in T
      <3> SUFFICES ASSUME m + 1 \in 1..n PROVE Joined(flat[m + 1], m + 1)
        OBVIOUS
      <3>1. CASE m = 0
        <4>1. flat[1] = seqs[1]
          BY <1>0, <3>1
        <4>2. 1..1 = {1} /\ seqs[1] \in Seq(S)
          BY <1>5, <3>1
        <4> QED
          BY <3>1, <4>1, <4>2
      <3>2. CASE m # 0
        <4>1. m \in 1..n /\ m + 1 # 1 /\ (m + 1) - 1 = m /\ 1..(m + 1) = 1..m \cup {m + 1}
          BY <1>5, <3>2
        <4>2. Joined(flat[m], m)
          BY <4>1
        <4>3. flat[m + 1] = flat[m] \o seqs[m + 1]
          BY <1>0, <4>1
        <4>4. flat[m + 1] \in Seq(S)
              /\ Elements(flat[m + 1]) = Elements(flat[m]) \cup Elements(seqs[m + 1])
          BY <1>5, <4>2, <4>3, ConcatElements
        <4> QED
          BY <4>1, <4>2, <4>4
      <3> QED
        BY <3>1, <3>2
    <2>3. T = Nat
      <3> HIDE DEF T
      <3>1. T \in SUBSET Nat
        BY DEF T
      <3> QED
        BY <2>1, <2>2, <3>1, Induction
    <2>4. n \in 1..n
      BY <1>5, <1>7
    <2> QED
      BY <1>5, <2>3, <2>4
  <1>8. CASE n = 0
    <2>1. seqs = <<>> /\ 1..n = {}
      BY <1>5, <1>8 DEF n
    <2> QED
      BY <1>1, <1>5, <1>8, <2>1 DEF Elements
  <1>9. CASE n # 0
    BY <1>1, <1>5, <1>7, <1>9
  <1> QED
    BY <1>8, <1>9

-----------------------------------------------------------------------------
(* What write_graph and load_case set out to do. *)

Delete == [run |-> "delete"]

Id == Ids \cup {"UNKNOWN"}

Records == [source : Ids, target : Ids, relation : STRING]

Relations ==
    STRING \cup {"CALLED", "MESSAGED", "TRANSFERRED_FILE", "CO_LOCATED", "BROWSED", "HAS_ENTITY"}

EdgeCalls == [call : {"edge"}, from : Id, to : Id, relation : Relations]

Calls == {Reset, Read, Broken} \cup [call : {"node"}, id : Id] \cup EdgeCalls

Statements ==
    [run : {"delete", "case"}] \cup [run : {"record"}, record : Records]
      \cup [run : {"entity"}, id : Ids] \cup [run : {"link"}, edge : EdgeCalls]

\* What is left to add to the memory.
ToAdd(program) == UNION {Ends(op) : op \in Elements(program)}

\* Whatever the program adds to the memory it stores in the database, but for
\* visited pages.
Stores(program, statements) ==
    \A op \in Elements(program) :
       /\ op.call = "node" => op.id \in ToStore(statements)
       /\ op.call = "edge" =>
            \/ op \in ToRelate(statements)
            \/ op.relation = "BROWSED" /\ op.to = CaseNode /\ CaseNode \in ToStore(statements)

\* Whatever it stores it still has to add.
Adds(program, statements) ==
    /\ ToStore(statements) \subseteq ToAdd(program)
    /\ ToRelate(statements) \subseteq Elements(program)

Program(program, statements) ==
    /\ program \in Seq(Calls)
    /\ statements \in Seq(Statements)
    /\ Stores(program, statements)

\* A program nothing of which has been done.
Whole(program, statements) == Program(program, statements) /\ Adds(program, statements)

LEMMA StatementElements ==
    ASSUME NEW s
    PROVE  /\ ToStore(s) = UNION {NodesOf(x) : x \in Elements(s)}
           /\ ToRelate(s) = UNION {EdgesOf(x) : x \in Elements(s)}
  BY DEF ToStore, ToRelate, Elements

LEMMA MapTyped ==
    ASSUME NEW S, NEW s \in Seq(S), NEW T, NEW f, f = [i \in DOMAIN s |-> f[i]],
           \A i \in DOMAIN s : f[i] \in T
    PROVE  f \in Seq(T) /\ DOMAIN f = DOMAIN s
  <1>1. DOMAIN s = 1..Len(s) /\ Len(s) \in Nat
    OBVIOUS
  <1> QED
    BY <1>1

LEMMA CallsMade ==
    /\ Reset \in Calls /\ Read \in Calls /\ Broken \in Calls /\ Broken \notin EdgeCalls
    /\ \A n \in Id : Node(n) \in Calls
    /\ \A u \in Id, v \in Id, rel \in Relations : Edge(u, v, rel) \in EdgeCalls
    /\ \A op \in EdgeCalls : op \in Calls
  BY DEF Calls, EdgeCalls, Node, Edge, Reset, Read, Broken

\* The four calls tell their kinds.
LEMMA Kinds4 ==
    /\ Reset.call = "reset" /\ Read.call = "read" /\ Broken.call = "raise"
    /\ \A n : Node(n).call = "node" /\ Node(n).id = n /\ Ends(Node(n)) = {n}
    /\ \A u, v, rel : Edge(u, v, rel).call = "edge" /\ Ends(Edge(u, v, rel)) = {u, v}
    /\ \A op \in EdgeCalls : op.call = "edge" /\ Ends(op) = {op.from, op.to}
  BY DEF Reset, Read, Broken, Node, Edge, Ends, EdgeCalls

LEMMA WriteWhole ==
    ASSUME NEW records \in Batches, NEW rebuild \in BOOLEAN
    PROVE  Whole(WriteMemory(records, rebuild), WriteStatements(records, rebuild))
  <1> DEFINE R(i) == records[i]
             Calls3(i) == <<Node(R(i).source), Node(R(i).target),
                            Edge(R(i).source, R(i).target, R(i).relation)>>
             parts == [i \in DOMAIN records |-> Calls3(i)]
             body == FlattenSeq(parts)
             first == IF rebuild THEN <<Reset>> ELSE <<>>
             p == WriteMemory(records, rebuild)
             firstS == IF rebuild THEN <<Delete>> ELSE <<>>
             bodyS == [i \in DOMAIN records |-> [run |-> "record", record |-> records[i]]]
             s == WriteStatements(records, rebuild)
  <1>1. records \in Seq(Records) /\ \A i \in DOMAIN records : R(i) \in Records
    <2>1. Batches \subseteq Seq(Records)
      BY BatchesAreRecords DEF Records
    <2>2. records \in Seq(Records)
      BY <2>1
    <2> QED
      BY <2>2
  <1>2. ASSUME NEW i \in DOMAIN records
        PROVE  /\ Calls3(i) \in Seq(Calls)
               /\ Elements(Calls3(i)) =
                    {Node(R(i).source), Node(R(i).target),
                     Edge(R(i).source, R(i).target, R(i).relation)}
    <2>1. R(i).source \in Id /\ R(i).target \in Id /\ R(i).relation \in Relations
      BY <1>1 DEF Records, Id, Relations
    <2>2. /\ Node(R(i).source) \in Calls /\ Node(R(i).target) \in Calls
          /\ Edge(R(i).source, R(i).target, R(i).relation) \in Calls
      BY <2>1, CallsMade
    <2> QED
      BY <2>2 DEF Elements
  <1>3. parts \in Seq(Seq(Calls)) /\ DOMAIN parts = DOMAIN records
    <2>1. parts = [i \in DOMAIN records |-> parts[i]]
          /\ \A i \in DOMAIN records : parts[i] \in Seq(Calls)
      BY <1>2
    <2> HIDE DEF parts
    <2> QED
      BY <1>1, <2>1, MapTyped
  <1>0. \A i \in DOMAIN records : Elements(parts[i]) = Elements(Calls3(i))
    OBVIOUS
  <1> HIDE DEF parts
  <1>4. body \in Seq(Calls) /\ Elements(body) = UNION {Elements(parts[i]) : i \in DOMAIN parts}
    BY <1>3, Flattened
  <1>5. /\ p = first \o body /\ first \in Seq(Calls)
        /\ Elements(first) = IF rebuild THEN {Reset} ELSE {}
    <2>1. p = first \o body
      BY DEF WriteMemory, parts
    <2>2. CASE rebuild
      BY <2>1, <2>2, CallsMade DEF Elements
    <2>3. CASE ~rebuild
      BY <2>1, <2>3 DEF Elements
    <2> QED
      BY <2>2, <2>3
  <1>6. s = firstS \o bodyS /\ Elements(firstS) = IF rebuild THEN {Delete} ELSE {}
    BY DEF WriteStatements, Elements, Delete
  <1>7. Delete \in Statements /\ \A i \in DOMAIN records : bodyS[i] \in Statements
    BY <1>1 DEF Delete, Statements
  <1>8. firstS \in Seq(Statements) /\ bodyS \in Seq(Statements) /\ DOMAIN bodyS = DOMAIN records
        /\ Elements(bodyS) = {bodyS[i] : i \in DOMAIN records}
    <2>1. firstS \in Seq(Statements)
      BY <1>7
    <2>2. bodyS = [i \in DOMAIN records |-> bodyS[i]]
      OBVIOUS
    <2>3. \A i \in DOMAIN records : bodyS[i] \in Statements
      BY <1>7
    <2> HIDE DEF bodyS, firstS
    <2>4. bodyS \in Seq(Statements) /\ DOMAIN bodyS = DOMAIN records
      BY <1>1, <2>2, <2>3, MapTyped
    <2> QED
      BY <2>1, <2>4 DEF Elements
  <1>9. /\ p \in Seq(Calls) /\ s \in Seq(Statements)
        /\ Elements(p) = Elements(first) \cup Elements(body)
        /\ Elements(s) = Elements(firstS) \cup Elements(bodyS)
    <2> HIDE DEF p, s, first, body, firstS, bodyS
    <2>1. p \in Seq(Calls) /\ Elements(p) = Elements(first) \cup Elements(body)
      BY <1>4, <1>5, ConcatElements
    <2>2. s \in Seq(Statements) /\ Elements(s) = Elements(firstS) \cup Elements(bodyS)
      BY <1>6, <1>8, ConcatElements
    <2> QED
      BY <2>1, <2>2
  <1>10. ASSUME NEW op \in Elements(body)
         PROVE  \E i \in DOMAIN records : op \in Elements(Calls3(i))
    BY <1>0, <1>3, <1>4, <1>10
  <1>11. ASSUME NEW i \in DOMAIN records
         PROVE  Elements(Calls3(i)) \subseteq Elements(p)
    BY <1>0, <1>3, <1>4, <1>9, <1>11
  <1>12. ASSUME NEW i \in DOMAIN records
         PROVE  /\ bodyS[i] \in Elements(s)
                /\ NodesOf(bodyS[i]) = {R(i).source, R(i).target}
                /\ EdgesOf(bodyS[i]) = {Edge(R(i).source, R(i).target, R(i).relation)}
    BY <1>8, <1>9, <1>12 DEF NodesOf, EdgesOf
  <1> HIDE DEF first, body, p, firstS, bodyS, s
  <1>14. Stores(p, s)
    <2> SUFFICES ASSUME NEW op \in Elements(p)
                 PROVE  /\ op.call = "node" => op.id \in ToStore(s)
                        /\ op.call = "edge" => op \in ToRelate(s)
      BY DEF Stores
    <2>1. CASE op = Reset
      BY <2>1, Kinds4
    <2>2. CASE op \in Elements(body)
      <3>1. PICK i \in DOMAIN records : op \in Elements(Calls3(i))
        BY <1>10, <2>2
      <3>2. {R(i).source, R(i).target} \subseteq ToStore(s)
            /\ Edge(R(i).source, R(i).target, R(i).relation) \in ToRelate(s)
        BY <1>12, StatementElements
      <3>3. CASE op = Node(R(i).source) \/ op = Node(R(i).target)
        BY <3>2, <3>3, Kinds4
      <3>4. CASE op = Edge(R(i).source, R(i).target, R(i).relation)
        BY <3>2, <3>4, Kinds4
      <3> QED
        BY <1>2, <3>1, <3>3, <3>4
    <2> QED
      BY <1>5, <1>9, <2>1, <2>2
  <1>15. Adds(p, s)
    <2>1. ASSUME NEW x \in Elements(s)
          PROVE  NodesOf(x) \subseteq ToAdd(p) /\ EdgesOf(x) \subseteq Elements(p)
      <3>1. CASE x = Delete
        BY <3>1 DEF Delete, NodesOf, EdgesOf
      <3>2. CASE x \in Elements(bodyS)
        <4>1. PICK i \in DOMAIN records : x = bodyS[i]
          BY <1>8, <3>2
        <4>2. /\ Node(R(i).source) \in Elements(p) /\ Node(R(i).target) \in Elements(p)
              /\ Edge(R(i).source, R(i).target, R(i).relation) \in Elements(p)
          BY <1>2, <1>11
        <4>3. {R(i).source, R(i).target} \subseteq ToAdd(p)
          BY <4>2, Kinds4 DEF ToAdd
        <4> QED
          BY <1>12, <4>1, <4>2, <4>3
      <3> QED
        BY <1>6, <1>9, <3>1, <3>2
    <2> QED
      BY <2>1, StatementElements DEF Adds
  <1> QED
    BY <1>9, <1>14, <1>15 DEF Whole, Program, p, s

\* An artifact makes one edge, none or an exception, and a visited page an edge
\* to the case.
LEMMA EdgesTyped ==
    ASSUME NEW c \in Payloads
    PROVE  /\ EdgesAdded(c) \in Seq(EdgeCalls \cup {Broken})
           /\ \A x \in Elements(EdgesAdded(c)) :
                 x \in EdgeCalls /\ x.relation = "BROWSED" => x.to = CaseNode
  <1> DEFINE a == c.artifacts
             Artifact == [kind : ArtifactKinds, source : Id, target : Id]
             edge(i) == Edge(a[i].source,
                             IF a[i].kind = "browser_history" THEN CaseNode ELSE a[i].target,
                             Relation(a[i].kind))
             parts == [i \in DOMAIN a |->
                         IF a[i].kind = "broken" THEN <<Broken>>
                         ELSE IF ~HasEdge(a[i]) THEN <<>> ELSE <<edge(i)>>]
             Good == {Broken} \cup {x \in EdgeCalls : x.relation = "BROWSED" => x.to = CaseNode}
  <1>1. a \in Seq(Artifact) /\ \A i \in DOMAIN a : a[i] \in Artifact
    <2>1. c \in [entities : Seq(Ids), artifacts : Seq(Artifact)]
      BY PayloadsAreCases DEF Id
    <2>2. a \in Seq(Artifact)
      BY <2>1
    <2> HIDE DEF a, Artifact
    <2> QED
      BY <2>2
  <1>2. ASSUME NEW i \in DOMAIN a, HasEdge(a[i])
        PROVE  edge(i) \in Good
    <2>1. /\ a[i].kind \in ArtifactKinds /\ a[i].source \in Id /\ a[i].target \in Id
          /\ CaseNode \in Id /\ a[i].kind \notin {"location_ping", "broken"}
      BY <1>1, <1>2 DEF Id, Ids, HasEdge
    <2>2. /\ Relation(a[i].kind) \in Relations
          /\ Relation(a[i].kind) = "BROWSED" => a[i].kind = "browser_history"
      <3>1. PICK k : k = a[i].kind
        OBVIOUS
      <3>2. k \in {"call", "chat", "file", "co_located", "browser_history"}
        BY <2>1, <3>1 DEF ArtifactKinds
      <3>3. /\ Relation("call") = "CALLED" /\ Relation("chat") = "MESSAGED"
            /\ Relation("file") = "TRANSFERRED_FILE" /\ Relation("co_located") = "CO_LOCATED"
            /\ Relation("browser_history") = "BROWSED"
        BY DEF Relation
      <3> QED
        BY <3>1, <3>2, <3>3 DEF Relations
    <2> QED
      BY <2>1, <2>2, CallsMade DEF Edge
  <1>3. parts \in Seq(Seq(Good))
    <2>1. ASSUME NEW i \in DOMAIN a PROVE parts[i] \in Seq(Good)
      <3>1. CASE a[i].kind = "broken"
        <4>1. parts[i] = <<Broken>> /\ Broken \in Good
          BY <3>1
        <4> HIDE DEF parts, Good
        <4> QED
          BY <4>1
      <3>2. CASE a[i].kind # "broken" /\ ~HasEdge(a[i])
        BY <3>2
      <3>3. CASE a[i].kind # "broken" /\ HasEdge(a[i])
        <4>1. parts[i] = <<edge(i)>> /\ edge(i) \in Good
          BY <1>2, <3>3
        <4> HIDE DEF parts, edge, Good
        <4> QED
          BY <4>1
      <3> QED
        BY <3>1, <3>2, <3>3
    <2>2. parts = [i \in DOMAIN a |-> parts[i]]
      OBVIOUS
    <2> HIDE DEF parts, a, Good
    <2> QED
      BY <1>1, <2>1, <2>2, MapTyped
  <1>4. EdgesAdded(c) = FlattenSeq(parts)
    BY DEF EdgesAdded
  <1>5. EdgesAdded(c) \in Seq(Good)
    <2> HIDE DEF parts, Good
    <2> QED
      BY <1>3, <1>4, Flattened
  <1>6. Good \subseteq EdgeCalls \cup {Broken} /\ \A x \in Good : x \in EdgeCalls
          /\ x.relation = "BROWSED" => x.to = CaseNode
    BY CallsMade
  <1>7. EdgesAdded(c) \in Seq(EdgeCalls \cup {Broken})
        /\ \A x \in Elements(EdgesAdded(c)) : x \in Good
    <2> HIDE DEF Good
    <2> QED
      BY <1>5, <1>6 DEF Elements
  <1> QED
    BY <1>6, <1>7

\* The statements for the edges, without those of visited pages.
LEMMA LinksTyped ==
    ASSUME NEW c \in Payloads
    PROVE  LET edges == EdgesAdded(c)
               links == FlattenSeq([i \in DOMAIN edges |->
                          IF HasLink(edges[i]) THEN <<[run |-> "link", edge |-> edges[i]]>>
                          ELSE <<>>])
           IN  /\ links \in Seq([run : {"link"}, edge : EdgeCalls])
               /\ Elements(links) = {[run |-> "link", edge |-> x] :
                                       x \in {y \in Elements(edges) : HasLink(y)}}
  <1> DEFINE edges == EdgesAdded(c)
             Links == [run : {"link"}, edge : EdgeCalls]
             link(i) == [run |-> "link", edge |-> edges[i]]
             parts == [i \in DOMAIN edges |-> IF HasLink(edges[i]) THEN <<link(i)>> ELSE <<>>]
  <1>1. edges \in Seq(EdgeCalls \cup {Broken})
    BY EdgesTyped
  <1> HIDE DEF edges
  <1>2. \A i \in DOMAIN edges : HasLink(edges[i]) => edges[i] \in EdgeCalls
    BY <1>1 DEF HasLink
  <1>3. ASSUME NEW i \in DOMAIN edges
        PROVE  /\ parts[i] \in Seq(Links)
               /\ Elements(parts[i]) = IF HasLink(edges[i]) THEN {link(i)} ELSE {}
    <2>1. CASE ~HasLink(edges[i])
      BY <2>1 DEF Elements
    <2>2. CASE HasLink(edges[i])
      <3>1. parts[i] = <<link(i)>> /\ link(i) \in Links
        BY <1>2, <2>2
      <3> HIDE DEF parts, link, Links
      <3> QED
        BY <2>2, <3>1 DEF Elements
    <2> QED
      BY <2>1, <2>2
  <1>4. parts = [i \in DOMAIN edges |-> parts[i]]
    OBVIOUS
  <1> HIDE DEF parts, Links
  <1>5. parts \in Seq(Seq(Links)) /\ DOMAIN parts = DOMAIN edges
    BY <1>1, <1>3, <1>4, MapTyped
  <1>6. /\ FlattenSeq(parts) \in Seq(Links)
        /\ Elements(FlattenSeq(parts)) = UNION {Elements(parts[i]) : i \in DOMAIN parts}
    BY <1>5, Flattened
  <1>7. UNION {Elements(parts[i]) : i \in DOMAIN parts} =
          {[run |-> "link", edge |-> x] : x \in {y \in Elements(edges) : HasLink(y)}}
    BY <1>3, <1>5 DEF Elements
  <1> QED
    BY <1>6, <1>7 DEF parts, Links, edges

LEMMA LoadWhole ==
    ASSUME NEW c \in Payloads
    PROVE  Whole(LoadMemory(c), LoadStatements(c))
  <1> DEFINE e == c.entities
             case == [run |-> "case"]
             pair(i) == <<Node(e[i]), Edge(CaseNode, e[i], "HAS_ENTITY")>>
             parts == [i \in DOMAIN e |-> pair(i)]
             first == <<Reset, Node(CaseNode)>>
             body == FlattenSeq(parts)
             edges == EdgesAdded(c)
             p == LoadMemory(c)
             firstS == <<case>>
             bodyS == [i \in DOMAIN e |-> [run |-> "entity", id |-> e[i]]]
             links == FlattenSeq([i \in DOMAIN edges |->
                        IF HasLink(edges[i]) THEN <<[run |-> "link", edge |-> edges[i]]>>
                        ELSE <<>>])
             s == LoadStatements(c)
  <1>1. e \in Seq(Ids) /\ \A i \in DOMAIN e : e[i] \in Ids
    <2>1. e \in Seq(Ids)
      BY PayloadsAreCases
    <2> HIDE DEF e
    <2> QED
      BY <2>1
  <1>2. p = (first \o body) \o edges /\ s = (firstS \o bodyS) \o links
    BY DEF LoadMemory, LoadStatements
  <1>3. /\ edges \in Seq(EdgeCalls \cup {Broken})
        /\ \A x \in Elements(edges) : x \in EdgeCalls /\ x.relation = "BROWSED" => x.to = CaseNode
    BY EdgesTyped
  <1>4. /\ links \in Seq([run : {"link"}, edge : EdgeCalls])
        /\ Elements(links) = {[run |-> "link", edge |-> x] :
                                x \in {y \in Elements(edges) : HasLink(y)}}
    BY LinksTyped
  <1> HIDE DEF e, edges, links, p, s
  <1>5. ASSUME NEW i \in DOMAIN e
        PROVE  /\ pair(i) \in Seq(Calls)
               /\ Elements(pair(i)) = {Node(e[i]), Edge(CaseNode, e[i], "HAS_ENTITY")}
    <2>1. e[i] \in Id /\ CaseNode \in Id /\ "HAS_ENTITY" \in Relations
      BY <1>1 DEF Id, Ids, Relations
    <2>2. Node(e[i]) \in Calls /\ Edge(CaseNode, e[i], "HAS_ENTITY") \in Calls
      BY <2>1, CallsMade
    <2>4. Elements(pair(i)) = {Node(e[i]), Edge(CaseNode, e[i], "HAS_ENTITY")}
      BY DEF Elements
    <2> QED
      BY <2>2, <2>4
  <1>6. parts = [i \in DOMAIN e |-> parts[i]] /\ \A i \in DOMAIN e : parts[i] = pair(i)
    OBVIOUS
  <1> HIDE DEF pair, parts
  <1>7. parts \in Seq(Seq(Calls)) /\ DOMAIN parts = DOMAIN e
    BY <1>1, <1>5, <1>6, MapTyped
  <1>8. body \in Seq(Calls) /\ Elements(body) = UNION {Elements(parts[i]) : i \in DOMAIN parts}
    BY <1>7, Flattened
  <1> HIDE DEF body
  <1>9. Elements(body) = UNION {Elements(pair(i)) : i \in DOMAIN e}
    BY <1>6, <1>7, <1>8
  <1>10. first \in Seq(Calls) /\ Elements(first) = {Reset, Node(CaseNode)}
    <2>1. Reset \in Calls /\ Node(CaseNode) \in Calls
      BY CallsMade DEF Id, Ids
    <2> QED
      BY <2>1 DEF Elements
  <1>11. firstS \in Seq(Statements) /\ Elements(firstS) = {case}
    BY DEF Elements, Statements
  <1>12. /\ bodyS \in Seq(Statements) /\ Elements(bodyS) = {bodyS[i] : i \in DOMAIN e}
         /\ \A i \in DOMAIN e : bodyS[i] = [run |-> "entity", id |-> e[i]]
    <2>1. \A i \in DOMAIN e : bodyS[i] \in Statements
      BY <1>1 DEF Statements
    <2>2. bodyS = [i \in DOMAIN e |-> bodyS[i]]
          /\ \A i \in DOMAIN e : bodyS[i] = [run |-> "entity", id |-> e[i]]
      OBVIOUS
    <2> HIDE DEF bodyS
    <2>3. bodyS \in Seq(Statements) /\ DOMAIN bodyS = DOMAIN e
      BY <1>1, <2>1, <2>2, MapTyped
    <2> QED
      BY <2>2, <2>3 DEF Elements
  <1>13. links \in Seq(Statements)
    <2> DEFINE L == [run : {"link"}, edge : EdgeCalls]
    <2>1. L \subseteq Statements /\ links \in Seq(L)
      BY <1>4 DEF Statements
    <2> HIDE DEF L
    <2> QED
      BY <2>1
  <1>14. edges \in Seq(Calls) /\ Elements(edges) \subseteq EdgeCalls \cup {Broken}
    <2>1. EdgeCalls \cup {Broken} \subseteq Calls
      BY CallsMade
    <2>2. Elements(edges) \subseteq EdgeCalls \cup {Broken}
      BY <1>3 DEF Elements
    <2> QED
      BY <1>3, <2>1, <2>2
  <1> HIDE DEF first, firstS, bodyS, case
  <1>15. /\ p \in Seq(Calls)
         /\ Elements(p) = {Reset, Node(CaseNode)} \cup Elements(body) \cup Elements(edges)
    <2> DEFINE q == first \o body
    <2>2. q \in Seq(Calls) /\ Elements(q) = Elements(first) \cup Elements(body)
      BY <1>8, <1>10, ConcatElements
    <2>3. p = q \o edges
      BY <1>2
    <2> HIDE DEF q
    <2>4. p \in Seq(Calls) /\ Elements(p) = Elements(q) \cup Elements(edges)
      BY <1>14, <2>2, <2>3, ConcatElements
    <2> QED
      BY <1>10, <2>2, <2>4
  <1>16. /\ s \in Seq(Statements)
         /\ Elements(s) = {case} \cup Elements(bodyS) \cup Elements(links)
    <2> DEFINE q == firstS \o bodyS
    <2>1. q \in Seq(Statements) /\ Elements(q) = Elements(firstS) \cup Elements(bodyS)
      BY <1>11, <1>12, ConcatElements
    <2>2. s = q \o links
      BY <1>2
    <2> HIDE DEF q
    <2>3. s \in Seq(Statements) /\ Elements(s) = Elements(q) \cup Elements(links)
      BY <1>13, <2>1, <2>2, ConcatElements
    <2> QED
      BY <1>11, <2>1, <2>3
  <1>18. CaseNode \in ToStore(s) /\ CaseNode \in ToAdd(p)
    <2>1. NodesOf(case) = {CaseNode} /\ Ends(Node(CaseNode)) = {CaseNode}
      BY Kinds4 DEF NodesOf, case
    <2> QED
      BY <1>15, <1>16, <2>1, StatementElements DEF ToAdd
  <1>19. ASSUME NEW i \in DOMAIN e
         PROVE  /\ {CaseNode, e[i]} \subseteq ToStore(s) /\ {CaseNode, e[i]} \subseteq ToAdd(p)
                /\ Edge(CaseNode, e[i], "HAS_ENTITY") \in ToRelate(s)
                /\ Edge(CaseNode, e[i], "HAS_ENTITY") \in Elements(p)
                /\ NodesOf(bodyS[i]) = {CaseNode, e[i]}
                /\ EdgesOf(bodyS[i]) = {Edge(CaseNode, e[i], "HAS_ENTITY")}
    <2>1. /\ NodesOf(bodyS[i]) = {CaseNode, e[i]}
          /\ EdgesOf(bodyS[i]) = {Edge(CaseNode, e[i], "HAS_ENTITY")}
      <3>1. PICK x : x = bodyS[i]
        OBVIOUS
      <3>0. bodyS[i] = [run |-> "entity", id |-> e[i]]
        BY <1>12
      <3>2. x.run = "entity" /\ x.id = e[i]
        BY ONLY <3>0, <3>1
      <3>3. NodesOf(x) = {CaseNode, e[i]} /\ EdgesOf(x) = {Edge(CaseNode, e[i], "HAS_ENTITY")}
        BY <3>2 DEF NodesOf, EdgesOf
      <3> QED
        BY <3>1, <3>3
    <2>2. bodyS[i] \in Elements(s) /\ Elements(pair(i)) \subseteq Elements(p)
      BY <1>9, <1>12, <1>15, <1>16
    <2>3. Ends(Edge(CaseNode, e[i], "HAS_ENTITY")) = {CaseNode, e[i]}
      BY Kinds4
    <2>4. Edge(CaseNode, e[i], "HAS_ENTITY") \in Elements(p)
      BY <1>5, <2>2
    <2>5. /\ {CaseNode, e[i]} \subseteq ToStore(s)
          /\ Edge(CaseNode, e[i], "HAS_ENTITY") \in ToRelate(s)
      BY <2>1, <2>2, StatementElements
    <2>6. {CaseNode, e[i]} \subseteq ToAdd(p)
      BY <2>3, <2>4 DEF ToAdd
    <2> QED
      BY <2>1, <2>4, <2>5, <2>6
  <1>20. Stores(p, s)
    <2> SUFFICES ASSUME NEW op \in Elements(p)
                 PROVE  /\ op.call = "node" => op.id \in ToStore(s)
                        /\ op.call = "edge" =>
                             \/ op \in ToRelate(s)
                             \/ op.relation = "BROWSED" /\ op.to = CaseNode
                                /\ CaseNode \in ToStore(s)
      BY DEF Stores
    <2>1. CASE op = Reset
      BY <2>1, Kinds4
    <2>2. CASE op = Node(CaseNode)
      BY <1>18, <2>2, Kinds4
    <2>3. CASE op \in Elements(body)
      <3>1. PICK i \in DOMAIN e : op \in Elements(pair(i))
        BY <1>9, <2>3
      <3>2. CASE op = Node(e[i])
        BY <1>19, <3>2, Kinds4
      <3>3. CASE op = Edge(CaseNode, e[i], "HAS_ENTITY")
        BY <1>19, <3>3, Kinds4
      <3> QED
        BY <1>5, <3>1, <3>2, <3>3
    <2>4. CASE op \in Elements(edges) /\ op # Broken
      <3>0. op \in EdgeCalls /\ op.call = "edge"
        BY <1>14, <2>4, Kinds4
      <3>1. CASE op.relation = "BROWSED"
        BY <1>3, <1>18, <2>4, <3>0, <3>1
      <3>2. CASE op.relation # "BROWSED"
        <4> DEFINE l == [run |-> "link", edge |-> op]
        <4>1. l \in Elements(s) /\ EdgesOf(l) = {op}
          BY <1>4, <1>16, <2>4, <3>2 DEF EdgesOf, HasLink
        <4>2. op \in ToRelate(s)
          BY <4>1, StatementElements
        <4> QED
          BY <3>0, <4>2
      <3> QED
        BY <3>1, <3>2
    <2>5. CASE op = Broken
      BY <2>5, Kinds4
    <2> QED
      BY <1>15, <2>1, <2>2, <2>3, <2>4, <2>5
  <1>21. Adds(p, s)
    <2>1. ASSUME NEW x \in Elements(s)
          PROVE  NodesOf(x) \subseteq ToAdd(p) /\ EdgesOf(x) \subseteq Elements(p)
      <3>1. CASE x = case
        <4>1. NodesOf(x) = {CaseNode} /\ EdgesOf(x) = {}
          BY <3>1 DEF case, NodesOf, EdgesOf
        <4> QED
          BY <1>18, <4>1
      <3>2. CASE x \in Elements(bodyS)
        <4>1. PICK i \in DOMAIN e : x = bodyS[i]
          BY <1>12, <3>2
        <4> QED
          BY <1>19, <4>1
      <3>3. CASE x \in Elements(links)
        <4>1. PICK y \in Elements(edges) : HasLink(y) /\ x = [run |-> "link", edge |-> y]
          BY <1>4, <3>3
        <4>2. NodesOf(x) = {y.from, y.to} /\ EdgesOf(x) = {y}
          BY <4>1 DEF NodesOf, EdgesOf
        <4>3. y \in Elements(p) /\ Ends(y) = {y.from, y.to}
          BY <1>14, <1>15, <4>1, Kinds4 DEF HasLink
        <4> QED
          BY <4>2, <4>3 DEF ToAdd
      <3> QED
        BY <1>16, <3>1, <3>2, <3>3
    <2> QED
      BY <2>1, StatementElements DEF Adds
  <1> QED
    BY <1>15, <1>16, <1>20, <1>21 DEF Whole, Program, p, s

-----------------------------------------------------------------------------
LEMMA HeadTail ==
    ASSUME NEW S, NEW s \in Seq(S), s # <<>>
    PROVE  /\ Tail(s) \in Seq(S) /\ Head(s) \in S
           /\ Elements(s) = {Head(s)} \cup Elements(Tail(s))
           /\ Len(s) = 1 => Elements(Tail(s)) = {}
           /\ Len(s) # 1 => Tail(s) # <<>>
  <1>1. /\ Tail(s) \in Seq(S) /\ Len(Tail(s)) = Len(s) - 1 /\ Len(s) \in Nat \ {0}
        /\ \A i \in DOMAIN Tail(s) : i + 1 \in DOMAIN s /\ Tail(s)[i] = s[i + 1]
        /\ Head(s) = s[1] /\ 1 \in DOMAIN s /\ s[1] \in S
    OBVIOUS
  <1>2. \A i \in DOMAIN s : i = 1 \/ (i - 1 \in DOMAIN Tail(s) /\ Tail(s)[i - 1] = s[i])
    OBVIOUS
  <1>3. ASSUME NEW i \in DOMAIN s PROVE s[i] \in {Head(s)} \cup Elements(Tail(s))
    BY <1>1, <1>2 DEF Elements
  <1>4. ASSUME NEW i \in DOMAIN Tail(s) PROVE Tail(s)[i] \in Elements(s)
    BY <1>1 DEF Elements
  <1>5. Elements(s) = {Head(s)} \cup Elements(Tail(s))
    <2>1. Elements(s) \subseteq {Head(s)} \cup Elements(Tail(s))
      BY <1>3 DEF Elements
    <2>2. Elements(Tail(s)) \subseteq Elements(s)
      BY <1>4 DEF Elements
    <2>3. Head(s) \in Elements(s)
      BY <1>1 DEF Elements
    <2> QED
      BY <2>1, <2>2, <2>3
  <1>6. Len(s) = 1 => Elements(Tail(s)) = {}
    <2> SUFFICES ASSUME Len(s) = 1 PROVE DOMAIN Tail(s) = {}
      BY DEF Elements
    <2>1. DOMAIN Tail(s) = 1..Len(Tail(s)) /\ Len(Tail(s)) = 0
      BY <1>1
    <2> QED
      BY <2>1
  <1>7. ASSUME Len(s) # 1 PROVE Tail(s) # <<>>
    <2>1. Len(Tail(s)) # 0 /\ Len(<<>>) = 0
      BY <1>1, <1>7
    <2> QED
      BY ONLY <2>1
  <1> QED
    BY <1>1, <1>5, <1>6, <1>7

DatabaseOK ==
    neo4j = [case |-> neo4j.case, ids |-> neo4j.ids, entity_ids |-> neo4j.entity_ids,
             links |-> neo4j.links]

\* A statement adds its nodes and edges to what the database reports.
LEMMA RanStores ==
    ASSUME DatabaseOK, NEW s \in Statements, s # Delete, neo4j' = Ran(s)
    PROVE  /\ StoredNodes' = StoredNodes \cup NodesOf(s)
           /\ StoredEdges' = StoredEdges \cup EdgesOf(s)
           /\ DatabaseOK'
  <1>1. \A bag, x : BagToSet(Merge(bag, x)) = BagToSet(bag) \cup {x}
    BY DEF Merge, BagIn, BagToSet, SetToBag, (+)
  <1>2. \A bag, x : BagToSet(bag (+) SetToBag({x})) = BagToSet(bag) \cup {x}
    BY DEF BagToSet, SetToBag, (+)
  <1> DEFINE n == neo4j
             m == neo4j'
             Keys(d) == d = [case |-> d.case, ids |-> d.ids, entity_ids |-> d.entity_ids,
                             links |-> d.links]
             E(d) == {l[2] : l \in BagToSet(d.links)}
             Case(d) == IF d.case = "none" THEN {} ELSE {CaseNode}
  <1>4. /\ StoredNodes = n.ids \cup n.entity_ids \cup Case(n) /\ StoredEdges = E(n)
        /\ StoredNodes' = m.ids \cup m.entity_ids \cup Case(m) /\ StoredEdges' = E(m)
    BY DEF StoredNodes, StoredEdges
  <1>5. Keys(n)
    BY DEF DatabaseOK
  <1>7. CASE s.run = "record"
    <2> DEFINE r == s.record
               x == <<"id", Edge(r.source, r.target, r.relation)>>
    <2>1. /\ Keys(m) /\ m.ids = n.ids \cup {r.source, r.target} /\ m.entity_ids = n.entity_ids
          /\ m.case = IF CaseNode \in {r.source, r.target} THEN "written" ELSE n.case
          /\ m.links = Merge(n.links, x)
      BY <1>5, <1>7 DEF Ran
    <2>2. BagToSet(m.links) = BagToSet(n.links) \cup {x}
      BY <1>1, <2>1
    <2>3. E(m) = E(n) \cup {x[2]}
      BY <2>2
    <2>4. NodesOf(s) = {r.source, r.target} /\ EdgesOf(s) = {x[2]}
      BY <1>7 DEF NodesOf, EdgesOf
    <2> HIDE DEF E, x
    <2> QED
      BY <1>4, <2>1, <2>3, <2>4 DEF DatabaseOK
  <1>8. CASE s.run = "case"
    <2>1. /\ Keys(m) /\ m.ids = n.ids /\ m.entity_ids = n.entity_ids /\ m.links = n.links
          /\ m.case = IF n.case = "none" THEN "loaded" ELSE n.case
      BY <1>5, <1>8 DEF Ran
    <2>2. NodesOf(s) = {CaseNode} /\ EdgesOf(s) = {}
      BY <1>8 DEF NodesOf, EdgesOf
    <2> QED
      BY <1>4, <2>1, <2>2 DEF DatabaseOK
  <1>9. CASE s.run = "entity"
    <2> DEFINE x == <<"entity_id", Edge(CaseNode, s.id, "HAS_ENTITY")>>
    <2>1. /\ Keys(m) /\ m.ids = n.ids /\ m.entity_ids = n.entity_ids \cup {s.id}
          /\ m.case = IF n.case = "none" THEN "loaded" ELSE n.case
          /\ m.links = Merge(n.links, x)
      BY <1>5, <1>9 DEF Ran
    <2>2. BagToSet(m.links) = BagToSet(n.links) \cup {x}
      BY <1>1, <2>1
    <2>3. E(m) = E(n) \cup {x[2]}
      BY <2>2
    <2>4. NodesOf(s) = {CaseNode, s.id} /\ EdgesOf(s) = {x[2]}
      BY <1>9 DEF NodesOf, EdgesOf
    <2> HIDE DEF E, x
    <2> QED
      BY <1>4, <2>1, <2>3, <2>4 DEF DatabaseOK
  <1>10. CASE s.run = "link"
    <2> DEFINE x == <<"entity_id", s.edge>>
    <2>1. /\ Keys(m) /\ m.ids = n.ids
          /\ m.entity_ids = n.entity_ids \cup {s.edge.from, s.edge.to}
          /\ m.case = n.case
          /\ m.links = n.links (+) SetToBag({x})
      BY <1>5, <1>10 DEF Ran
    <2>2. BagToSet(m.links) = BagToSet(n.links) \cup {x}
      BY <1>2, <2>1
    <2>3. E(m) = E(n) \cup {x[2]}
      BY <2>2
    <2>4. NodesOf(s) = {s.edge.from, s.edge.to} /\ EdgesOf(s) = {x[2]}
      BY <1>10 DEF NodesOf, EdgesOf
    <2> HIDE DEF E, x
    <2> QED
      BY <1>4, <2>1, <2>3, <2>4 DEF DatabaseOK
  <1> QED
    BY <1>7, <1>8, <1>9, <1>10 DEF Statements, Delete

LEMMA DeletedIsEmpty ==
    ASSUME neo4j' = Ran(Delete)
    PROVE  StoredNodes' = {} /\ StoredEdges' = {} /\ DatabaseOK'
  <1>1. neo4j' = NoData
    BY DEF Ran, Delete
  <1> QED
    BY <1>1 DEF NoData, StoredNodes, StoredEdges, DatabaseOK, BagToSet, EmptyBag, SetToBag

-----------------------------------------------------------------------------
Activities ==
    [calls : Seq(Calls), statements : Seq(Statements), creating : BOOLEAN, online : BOOLEAN]

\* What the memory has or has lost, and what the database has, had or will get.
HeldNodes == Graph.node \cup dropped.node

HeldPairs == DOMAIN Graph.edge \cup dropped.edge

OwedNodes ==
    StoredNodes \cup missed.node \cup UNION {ToStore(thread[h].statements) : h \in Threads}

OwedEdges ==
    StoredEdges \cup missed.edge \cup UNION {ToRelate(thread[h].statements) : h \in Threads}

\* What a thread still has to store the memory has or has lost, or the thread
\* still has to add it.
Planned(nodes, pairs, program, statements) ==
    /\ ToStore(statements) \subseteq nodes \cup ToAdd(program)
    /\ \A x \in ToRelate(statements) : <<x.from, x.to>> \in pairs \/ x \in Elements(program)

\* A graph is among nodes and edges, but for visited pages.
Within(g, nodes, edges) ==
    /\ \A n \in g.node \ nodes :
          <<n, CaseNode>> \in DOMAIN g.edge /\ g.edge[<<n, CaseNode>>] = "BROWSED"
    /\ \A e \in DOMAIN g.edge : g.edge[e] = "BROWSED" \/ Edge(e[1], e[2], g.edge[e]) \in edges

ThreadsOK ==
    /\ thread \in [Threads -> Activities]
    /\ \A h \in Threads :
         /\ Program(thread[h].calls, thread[h].statements)
         /\ thread[h].online => thread[h].calls = <<>> /\ thread[h].statements # <<>>

StoresInv ==
    /\ ThreadsOK
    /\ DatabaseOK
    /\ memory # NoGraph => IsGraph(memory)
    /\ \A h \in Threads : Planned(HeldNodes, HeldPairs, thread[h].calls, thread[h].statements)
    /\ StoredIsInMemory
    /\ Within(Graph, OwedNodes, OwedEdges)

-----------------------------------------------------------------------------
LEMMA Nothing ==
    /\ Elements(<<>>) = {} /\ ToAdd(<<>>) = {} /\ ToStore(<<>>) = {} /\ ToRelate(<<>>) = {}
    /\ Whole(<<>>, <<>>)
    /\ Whole(<<Read>>, <<>>)
  <1>1. /\ Elements(<<>>) = {} /\ ToAdd(<<>>) = {} /\ ToStore(<<>>) = {} /\ ToRelate(<<>>) = {}
    BY DEF Elements, ToAdd, ToStore, ToRelate
  <1>2. Whole(<<>>, <<>>)
    BY <1>1 DEF Whole, Program, Stores, Adds
  <1>3. Whole(<<Read>>, <<>>)
    <2>1. Elements(<<Read>>) = {Read} /\ Read \in Calls /\ Read.call = "read"
      BY CallsMade, Kinds4 DEF Elements
    <2> QED
      BY <1>1, <2>1 DEF Whole, Program, Stores, Adds
  <1> QED
    BY <1>1, <1>2, <1>3

LEMMA FreeIsOK ==
    /\ Free \in Activities /\ Free.calls = <<>> /\ Free.statements = <<>>
    /\ ~Free.online /\ Program(Free.calls, Free.statements)
  <1>1. Free.calls = <<>> /\ Free.statements = <<>> /\ ~Free.online
    BY DEF Free
  <1>2. Free \in Activities
    BY DEF Free, Activities
  <1> QED
    BY <1>1, <1>2, Nothing DEF Whole

\* The parts of a step that keep the invariant: no program is lost (a), what is
\* held is not forgotten (b), nor what is owed (c).
LEMMA StepKept ==
    ASSUME StoresInv,
           thread' \in [Threads -> Activities],
           \A g \in Threads :
              \/ thread'[g] = thread[g]
              \/ /\ Program(thread'[g].calls, thread'[g].statements)
                 /\ thread'[g].online => thread'[g].calls = <<>> /\ thread'[g].statements # <<>>
                 /\ Planned(HeldNodes', HeldPairs', thread'[g].calls, thread'[g].statements),
           HeldNodes \subseteq HeldNodes', HeldPairs \subseteq HeldPairs',
           StoredNodes' \subseteq HeldNodes,
           \A x \in StoredEdges' : <<x.from, x.to>> \in HeldPairs,
           DatabaseOK', memory' # NoGraph => IsGraph(memory'),
           Within(Graph, OwedNodes, OwedEdges)'
    PROVE  StoresInv'
  <1>1. ThreadsOK'
    BY DEF StoresInv, ThreadsOK
  <1>2. ASSUME NEW g \in Threads
        PROVE  Planned(HeldNodes', HeldPairs', thread'[g].calls, thread'[g].statements)
    <2>1. CASE thread'[g] = thread[g]
      <3>1. Planned(HeldNodes, HeldPairs, thread[g].calls, thread[g].statements)
        BY DEF StoresInv
      <3> QED
        BY <2>1, <3>1 DEF Planned
    <2> QED
      BY <2>1
  <1>3. StoredIsInMemory'
    BY DEF StoredIsInMemory, HeldNodes, HeldPairs
  <1> QED
    BY <1>1, <1>2, <1>3 DEF StoresInv

\* A step that keeps the graph in memory, or empties it, and owes no less.
LEMMA StillWithin ==
    ASSUME StoresInv, Graph' = Graph \/ Graph' = EmptyGraph,
           OwedNodes \subseteq OwedNodes', OwedEdges \subseteq OwedEdges'
    PROVE  Within(Graph, OwedNodes, OwedEdges)'
  <1>1. CASE Graph' = Graph
    BY <1>1 DEF StoresInv, Within
  <1>2. CASE Graph' = EmptyGraph
    BY <1>2 DEF Within, EmptyGraph
  <1> QED
    BY <1>1, <1>2

\* The memory loses its graph.
LEMMA DropKeeps ==
    ASSUME Drop, memory' \in {NoGraph, EmptyGraph}
    PROVE  /\ HeldNodes' = HeldNodes /\ HeldPairs' = HeldPairs
           /\ Graph' = EmptyGraph
           /\ memory' # NoGraph => IsGraph(memory')
  <1>1. Graph' = EmptyGraph /\ EmptyGraph.node = {} /\ DOMAIN EmptyGraph.edge = {}
        /\ IsGraph(EmptyGraph)
    BY DEF Graph, EmptyGraph, IsGraph
  <1>2. dropped'.node = dropped.node \cup Graph.node
        /\ dropped'.edge = dropped.edge \cup DOMAIN Graph.edge
    BY DEF Drop
  <1> QED
    BY <1>1, <1>2 DEF HeldNodes, HeldPairs

\* Threads that are dropped owe what they had to store.
LEMMA MissOwes ==
    ASSUME NEW S \in SUBSET Threads, Miss(S), neo4j' = neo4j,
           \A g \in Threads \ S : thread'[g].statements = thread[g].statements
    PROVE  OwedNodes \subseteq OwedNodes' /\ OwedEdges \subseteq OwedEdges'
  <1>1. StoredNodes' = StoredNodes /\ StoredEdges' = StoredEdges
    BY DEF StoredNodes, StoredEdges
  <1>2. /\ missed'.node = missed.node \cup UNION {ToStore(thread[g].statements) : g \in S}
        /\ missed'.edge = missed.edge \cup UNION {ToRelate(thread[g].statements) : g \in S}
    BY DEF Miss
  <1>3. OwedNodes \subseteq OwedNodes'
    BY <1>1, <1>2 DEF OwedNodes
  <1>4. OwedEdges \subseteq OwedEdges'
    BY <1>1, <1>2 DEF OwedEdges
  <1> QED
    BY <1>3, <1>4

LEMMA CallsReplaced ==
    ASSUME NEW a, NEW q,
           a = [calls |-> a.calls, statements |-> a.statements, creating |-> a.creating,
                online |-> a.online]
    PROVE  [a EXCEPT !.calls = q] =
             [calls |-> q, statements |-> a.statements, creating |-> a.creating,
              online |-> a.online]
  OBVIOUS

LEMMA FlagReplaced ==
    ASSUME NEW k \in Activities, NEW b \in BOOLEAN, NEW new,
           new = [k EXCEPT !.creating = b] \/ new = [k EXCEPT !.online = b]
    PROVE  /\ new \in Activities
           /\ new.calls = k.calls /\ new.statements = k.statements
           /\ new = [k EXCEPT !.creating = b] => new.online = k.online
  <1>1. CASE new = [k EXCEPT !.creating = b]
    BY <1>1 DEF Activities
  <1>2. CASE new = [k EXCEPT !.online = b]
    BY <1>2 DEF Activities
  <1> QED
    BY <1>1, <1>2

\* A thread that begins has all of its program before it.
LEMMA BeginStep ==
    ASSUME StoresInv, NEW h \in Threads, NEW p, NEW s, Whole(p, s), Begin(h, p, s)
    PROVE  StoresInv'
  <1> DEFINE k == [calls |-> p, statements |-> s, creating |-> FALSE, online |-> FALSE]
  <1>1. /\ thread[h] = Free /\ thread \in [Threads -> Activities]
        /\ thread' = [thread EXCEPT ![h].calls = p, ![h].statements = s]
    BY DEF Begin, StoresInv, ThreadsOK
  <1>2. thread'[h] = k
    <2>1. thread'[h] = [[thread[h] EXCEPT !.calls = p] EXCEPT !.statements = s]
      BY <1>1
    <2>2. /\ Free.calls = <<>> /\ Free.statements = <<>>
          /\ Free.creating = FALSE /\ Free.online = FALSE
          /\ Free = [calls |-> Free.calls, statements |-> Free.statements,
                    creating |-> Free.creating, online |-> Free.online]
      BY DEF Free
    <2>3. [Free EXCEPT !.calls = p] =
            [calls |-> p, statements |-> <<>>, creating |-> FALSE, online |-> FALSE]
      BY ONLY <2>2, CallsReplaced
    <2>4. thread'[h] = [[calls |-> p, statements |-> <<>>, creating |-> FALSE, online |-> FALSE]
                          EXCEPT !.statements = s]
      BY <1>1, <2>1, <2>3
    <2> QED
      BY <2>4
  <1>3. k \in Activities
    BY DEF Whole, Program, Activities
  <1>4. /\ thread' \in [Threads -> Activities] /\ thread'[h] = k
        /\ \A g \in Threads \ {h} : thread'[g] = thread[g]
    <2>1. thread' \in [Threads -> Activities \cup {thread'[h]}]
          /\ \A g \in Threads \ {h} : thread'[g] = thread[g]
      BY <1>1
    <2> QED
      BY <1>2, <1>3, <2>1
  <1>5. /\ memory' = memory /\ neo4j' = neo4j /\ dropped' = dropped /\ missed' = missed
        /\ Graph' = Graph /\ HeldNodes' = HeldNodes /\ HeldPairs' = HeldPairs
        /\ StoredNodes' = StoredNodes /\ StoredEdges' = StoredEdges
    BY DEF Begin, Graph, HeldNodes, HeldPairs, StoredNodes, StoredEdges
  <1>6. /\ Program(k.calls, k.statements) /\ ~k.online
        /\ Planned(HeldNodes', HeldPairs', k.calls, k.statements)
    BY DEF Whole, Adds, Planned
  <1>7. ASSUME NEW g \in Threads
        PROVE  /\ ToStore(thread[g].statements) \subseteq ToStore(thread'[g].statements)
               /\ ToRelate(thread[g].statements) \subseteq ToRelate(thread'[g].statements)
    <2>1. CASE g = h
      BY <1>1, <2>1, FreeIsOK, Nothing
    <2>2. CASE g # h
      BY <1>4, <2>2
    <2> QED
      BY <2>1, <2>2
  <1>8. OwedNodes \subseteq OwedNodes' /\ OwedEdges \subseteq OwedEdges'
    BY <1>5, <1>7 DEF OwedNodes, OwedEdges
  <1>9. Within(Graph, OwedNodes, OwedEdges)'
    BY <1>5, <1>8, StillWithin
  <1>10. /\ StoredNodes' \subseteq HeldNodes /\ \A x \in StoredEdges' : <<x.from, x.to>> \in HeldPairs
         /\ DatabaseOK' /\ (memory' # NoGraph => IsGraph(memory'))
    BY <1>5 DEF StoresInv, StoredIsInMemory, DatabaseOK, HeldNodes, HeldPairs
  <1>11. \A g \in Threads :
            \/ thread'[g] = thread[g]
            \/ /\ Program(thread'[g].calls, thread'[g].statements)
               /\ thread'[g].online => thread'[g].calls = <<>> /\ thread'[g].statements # <<>>
               /\ Planned(HeldNodes', HeldPairs', thread'[g].calls, thread'[g].statements)
    <2> HIDE DEF k
    <2> QED
      BY <1>4, <1>6
  <1> QED
    BY <1>4, <1>5, <1>9, <1>10, <1>11, StepKept

\* What is related is an edge, and its ends are stored with it.
LEMMA RelatedIsStored ==
    ASSUME NEW s \in Seq(Statements), NEW x \in ToRelate(s)
    PROVE  /\ x \in EdgeCalls /\ x = Edge(x.from, x.to, x.relation)
           /\ {x.from, x.to} \subseteq ToStore(s)
  <1>1. PICK i \in DOMAIN s : x \in EdgesOf(s[i])
    BY DEF ToRelate
  <1>2. s[i] \in Statements /\ NodesOf(s[i]) \subseteq ToStore(s)
    BY DEF ToStore
  <1>3. PICK t \in Statements : t = s[i]
    BY <1>2
  <1>4. x \in EdgeCalls /\ {x.from, x.to} \subseteq NodesOf(t)
    <2>1. CASE t.run = "record"
      <3> DEFINE r == t.record
      <3>1. r \in Records /\ NodesOf(t) = {r.source, r.target}
            /\ x = Edge(r.source, r.target, r.relation)
        BY <1>1, <1>3, <2>1 DEF NodesOf, EdgesOf, Statements
      <3>2. r.source \in Id /\ r.target \in Id /\ r.relation \in Relations
        BY <3>1 DEF Records, Id, Relations
      <3> HIDE DEF r
      <3>3. x \in EdgeCalls
        BY <3>1, <3>2, CallsMade
      <3> QED
        BY <3>1, <3>3 DEF Edge
    <2>2. CASE t.run = "entity"
      <3>1. t.id \in Id /\ CaseNode \in Id /\ "HAS_ENTITY" \in Relations
        BY <1>3, <2>2 DEF Statements, Id, Ids, Relations
      <3>2. NodesOf(t) = {CaseNode, t.id} /\ x = Edge(CaseNode, t.id, "HAS_ENTITY")
        BY <1>1, <1>3, <2>2 DEF NodesOf, EdgesOf
      <3>3. x \in EdgeCalls
        BY <3>1, <3>2, CallsMade
      <3> QED
        BY <3>2, <3>3 DEF Edge
    <2>3. CASE t.run = "link"
      BY <1>1, <1>3, <2>3 DEF NodesOf, EdgesOf, Statements
    <2>4. CASE t.run \notin {"record", "entity", "link"}
      BY <1>1, <1>3, <2>4 DEF EdgesOf
    <2> QED
      BY <2>1, <2>2, <2>3, <2>4
  <1> QED
    BY <1>2, <1>3, <1>4 DEF EdgeCalls, Edge

\* A call of a program leaves the graph within what the program stores.
LEMMA AddWithin ==
    ASSUME NEW p, NEW s, Program(p, s), NEW op \in Elements(p), op \in Calls,
           NEW g, NEW new, Extends(g, op, new),
           NEW nodes, NEW edges, Within(g, nodes, edges),
           ToStore(s) \subseteq nodes, ToRelate(s) \subseteq edges
    PROVE  Within(new, nodes, edges)
  <1>1. s \in Seq(Statements)
    BY DEF Program
  <1>2. CASE op.call = "node"
    <2>1. op.id \in nodes /\ Ends(op) = {op.id}
      BY <1>2 DEF Program, Stores, Ends
    <2> QED
      BY <1>2, <2>1 DEF Within, Extends
  <1>3. CASE op.call = "edge"
    <2> DEFINE pair == <<op.from, op.to>>
    <2>1. /\ op = Edge(op.from, op.to, op.relation)
          /\ Ends(op) = {op.from, op.to}
      BY <1>3 DEF Calls, EdgeCalls, Edge, Ends, Reset, Read, Broken
    <2>2. \/ op \in edges /\ {op.from, op.to} \subseteq nodes
          \/ op.relation = "BROWSED" /\ op.to = CaseNode /\ CaseNode \in nodes
      BY <1>1, <1>3, RelatedIsStored DEF Program, Stores
    <2>3. /\ new.node = g.node \cup {op.from, op.to}
          /\ DOMAIN new.edge = DOMAIN g.edge \cup {pair}
          /\ new.edge[pair] = op.relation
          /\ \A e \in DOMAIN g.edge : e # pair => new.edge[e] = g.edge[e]
      BY <1>3, <2>1 DEF Extends
    <2>4. ASSUME NEW n \in new.node \ nodes
          PROVE  <<n, CaseNode>> \in DOMAIN new.edge /\ new.edge[<<n, CaseNode>>] = "BROWSED"
      <3>1. CASE <<n, CaseNode>> = pair
        BY <2>2, <2>3, <2>4, <3>1
      <3>2. CASE <<n, CaseNode>> # pair
        <4>1. n \in g.node
          BY <2>2, <2>3, <2>4, <3>2
        <4>2. <<n, CaseNode>> \in DOMAIN g.edge /\ g.edge[<<n, CaseNode>>] = "BROWSED"
          BY <2>4, <4>1 DEF Within
        <4> QED
          BY <2>3, <3>2, <4>2
      <3> QED
        BY <3>1, <3>2
    <2>5. ASSUME NEW e \in DOMAIN new.edge
          PROVE  new.edge[e] = "BROWSED" \/ Edge(e[1], e[2], new.edge[e]) \in edges
      <3>1. CASE e = pair
        BY <2>1, <2>2, <2>3, <3>1
      <3>2. CASE e # pair
        BY <2>3, <3>2 DEF Within
      <3> QED
        BY <3>1, <3>2
    <2> QED
      BY <2>4, <2>5 DEF Within
  <1>4. CASE op.call \notin {"node", "edge"}
    BY <1>4 DEF Within, Extends, Ends
  <1> QED
    BY <1>2, <1>3, <1>4

\* One call on the graph in memory.
LEMMA CallStep ==
    ASSUME StoresInv, NEW h \in Threads, CallMemory(h)
    PROVE  StoresInv'
  <1> DEFINE p == thread[h].calls
             s == thread[h].statements
             op == Head(p)
  <1>1. /\ p # <<>> /\ memory # NoGraph /\ memory' = Called(op)
        /\ thread' = [thread EXCEPT ![h].calls = Tail(@)]
        /\ dropped'.node = dropped.node \ memory'.node
        /\ dropped'.edge = dropped.edge \ DOMAIN memory'.edge
        /\ neo4j' = neo4j /\ missed' = missed
    BY DEF CallMemory
  <1>2. /\ thread \in [Threads -> Activities] /\ thread[h] \in Activities /\ Program(p, s)
        /\ ~thread[h].online
    BY <1>1 DEF StoresInv, ThreadsOK
  <1>3. /\ Tail(p) \in Seq(Calls) /\ op \in Calls /\ Elements(p) = {op} \cup Elements(Tail(p))
    BY <1>1, <1>2, HeadTail DEF Program
  <1>4. /\ thread' \in [Threads -> Activities]
        /\ thread'[h].calls = Tail(p) /\ thread'[h].statements = s /\ ~thread'[h].online
        /\ \A g \in Threads \ {h} : thread'[g] = thread[g]
    BY <1>1, <1>2, <1>3 DEF Activities
  <1> HIDE DEF p, s, op
  <1>5. Program(Tail(p), s)
    BY <1>2, <1>3 DEF Program, Stores
  <1>6. IsGraph(memory') /\ Extends(memory, op, memory')
    BY <1>1, CalledExtends DEF StoresInv
  <1>7. memory' # NoGraph /\ Graph = memory /\ Graph' = memory'
    <2>1. memory' # NoGraph
      <3>1. DOMAIN memory' = {"node", "edge"} /\ DOMAIN NoGraph = {"entry"}
        BY <1>6 DEF IsGraph, NoGraph
      <3>2. "node" \notin {"entry"}
        OBVIOUS
      <3> QED
        BY <3>1, <3>2
    <2> QED
      BY <1>1, <2>1 DEF Graph
  <1>8. /\ memory.node \subseteq memory'.node /\ Ends(op) \subseteq memory'.node
        /\ DOMAIN memory.edge \subseteq DOMAIN memory'.edge
        /\ op.call = "edge" => <<op.from, op.to>> \in DOMAIN memory'.edge
    BY <1>6 DEF Extends
  <1>9. HeldNodes \subseteq HeldNodes' /\ HeldPairs \subseteq HeldPairs'
        /\ Ends(op) \subseteq HeldNodes'
        /\ (op.call = "edge" => <<op.from, op.to>> \in HeldPairs')
    BY <1>1, <1>7, <1>8 DEF HeldNodes, HeldPairs
  <1>10. /\ ToAdd(p) = Ends(op) \cup ToAdd(Tail(p))
         /\ s \in Seq(Statements)
    BY <1>2, <1>3 DEF ToAdd, Program
  <1>11. Planned(HeldNodes, HeldPairs, p, s)
    BY DEF StoresInv, p, s
  <1>12. Planned(HeldNodes', HeldPairs', Tail(p), s)
    <2>1. ToStore(s) \subseteq HeldNodes' \cup ToAdd(Tail(p))
      BY <1>9, <1>10, <1>11 DEF Planned
    <2>2. ASSUME NEW x \in ToRelate(s)
          PROVE  <<x.from, x.to>> \in HeldPairs' \/ x \in Elements(Tail(p))
      <3>1. CASE x = op
        <4>1. x.call = "edge"
          BY <1>10, RelatedIsStored, Kinds4
        <4> QED
          BY <1>9, <3>1, <4>1
      <3>2. CASE x # op
        BY <1>3, <1>9, <1>11, <3>2 DEF Planned
      <3> QED
        BY <3>1, <3>2
    <2> QED
      BY <2>1, <2>2 DEF Planned
  <1>13. /\ StoredNodes' = StoredNodes /\ StoredEdges' = StoredEdges /\ DatabaseOK'
    BY <1>1 DEF StoredNodes, StoredEdges, DatabaseOK, StoresInv
  <1>14. StoredNodes \subseteq HeldNodes /\ \A x \in StoredEdges : <<x.from, x.to>> \in HeldPairs
    BY DEF StoresInv, StoredIsInMemory, HeldNodes, HeldPairs
  <1>15. \A g \in Threads : thread'[g].statements = thread[g].statements
    BY <1>4 DEF s
  <1>16. OwedNodes' = OwedNodes /\ OwedEdges' = OwedEdges
    BY <1>1, <1>13, <1>15 DEF OwedNodes, OwedEdges
  <1>17. ToStore(s) \subseteq OwedNodes /\ ToRelate(s) \subseteq OwedEdges
    BY DEF OwedNodes, OwedEdges, s
  <1>18. Within(memory', OwedNodes, OwedEdges)
    <2>1. Within(memory, OwedNodes, OwedEdges)
      BY <1>7 DEF StoresInv
    <2> QED
      BY <1>2, <1>3, <1>6, <1>17, <2>1, AddWithin
  <1>19. Within(Graph, OwedNodes, OwedEdges)'
    BY <1>7, <1>16, <1>18
  <1>20. \A g \in Threads :
            \/ thread'[g] = thread[g]
            \/ /\ Program(thread'[g].calls, thread'[g].statements)
               /\ thread'[g].online => thread'[g].calls = <<>> /\ thread'[g].statements # <<>>
               /\ Planned(HeldNodes', HeldPairs', thread'[g].calls, thread'[g].statements)
    BY <1>4, <1>5, <1>12
  <1> QED
    BY <1>4, <1>6, <1>9, <1>13, <1>14, <1>19, <1>20, StepKept

\* One statement.
LEMMA StatementStep ==
    ASSUME StoresInv, NEW h \in Threads, RunStatement(h)
    PROVE  StoresInv'
  <1> DEFINE s == thread[h].statements
             x == Head(s)
  <1>1. /\ thread[h].online /\ neo4j' = Ran(x) /\ thread' = [thread EXCEPT ![h] = Advance(thread[h])]
        /\ missed' = IF x.run = "delete"
                     THEN [node |-> missed.node \cup StoredNodes,
                           edge |-> missed.edge \cup StoredEdges]
                     ELSE [node |-> missed.node \ NodesOf(x), edge |-> missed.edge \ EdgesOf(x)]
        /\ memory' = memory /\ dropped' = dropped
    BY DEF RunStatement
  <1>2. /\ thread \in [Threads -> Activities] /\ thread[h] \in Activities
        /\ thread[h].calls = <<>> /\ s # <<>> /\ s \in Seq(Statements)
        /\ Planned(HeldNodes, HeldPairs, <<>>, s)
    BY <1>1 DEF StoresInv, ThreadsOK, Program
  <1>3. /\ Tail(s) \in Seq(Statements) /\ x \in Statements
        /\ Elements(s) = {x} \cup Elements(Tail(s))
        /\ Len(s) = 1 => Elements(Tail(s)) = {}
        /\ Len(s) # 1 => Tail(s) # <<>>
    BY <1>2, HeadTail
  <1>4. /\ Advance(thread[h]) \in Activities
        /\ Advance(thread[h]).calls = <<>>
        /\ Elements(Advance(thread[h]).statements) = Elements(Tail(s))
        /\ Advance(thread[h]).statements \in Seq(Statements)
        /\ Advance(thread[h]).online => Advance(thread[h]).statements # <<>>
    <2>1. CASE Len(s) = 1
      <3>1. Advance(thread[h]) = Free
        BY <2>1 DEF Advance
      <3>2. /\ Free.statements = <<>> /\ Free.calls = <<>> /\ ~Free.online /\ Free \in Activities
        BY FreeIsOK
      <3>3. Elements(<<>>) = Elements(Tail(s))
        <4>1. Elements(Tail(s)) = {}
          BY <1>3, <2>1
        <4> QED
          BY <4>1, Nothing
      <3>4. <<>> \in Seq(Statements)
        OBVIOUS
      <3> QED
        BY ONLY <3>1, <3>2, <3>3, <3>4
    <2>2. CASE Len(s) # 1
      <3>1. Advance(thread[h]) = [thread[h] EXCEPT !.statements = Tail(s)]
        BY <2>2 DEF Advance
      <3>2. Tail(s) # <<>>
        BY <1>3, <2>2
      <3>3. [thread[h] EXCEPT !.statements = Tail(s)].statements = Tail(s)
            /\ [thread[h] EXCEPT !.statements = Tail(s)].calls = <<>>
            /\ [thread[h] EXCEPT !.statements = Tail(s)] \in Activities
        BY <1>2, <1>3 DEF Activities
      <3> QED
        BY <1>3, <3>1, <3>2, <3>3
    <2> QED
      BY <2>1, <2>2
  <1> DEFINE k == thread'[h]
             t == k.statements
  <1>5. /\ thread' \in [Threads -> Activities]
        /\ k.calls = <<>> /\ t \in Seq(Statements) /\ (k.online => t # <<>>)
        /\ Elements(t) = Elements(Tail(s))
        /\ \A g \in Threads \ {h} : thread'[g] = thread[g]
    BY <1>1, <1>2, <1>4
  <1> HIDE DEF k, t, s, x
  <1>6. /\ ToStore(s) = NodesOf(x) \cup ToStore(t)
        /\ ToRelate(s) = EdgesOf(x) \cup ToRelate(t)
    BY <1>3, <1>5, StatementElements
  <1>7. Graph' = Graph /\ HeldNodes' = HeldNodes /\ HeldPairs' = HeldPairs
    BY <1>1 DEF Graph, HeldNodes, HeldPairs
  <1>8. /\ ToStore(s) \subseteq HeldNodes
        /\ \A y \in ToRelate(s) : <<y.from, y.to>> \in HeldPairs
    BY <1>2, Nothing DEF Planned
  <1>9. Program(<<>>, t) /\ Planned(HeldNodes', HeldPairs', <<>>, t)
    <2>1. Program(<<>>, t)
      BY <1>5, Nothing DEF Program, Stores
    <2>2. Planned(HeldNodes', HeldPairs', <<>>, t)
      BY <1>6, <1>7, <1>8 DEF Planned
    <2> QED
      BY <2>1, <2>2
  <1>10. StoredNodes \subseteq HeldNodes /\ \A y \in StoredEdges : <<y.from, y.to>> \in HeldPairs
    BY DEF StoresInv, StoredIsInMemory, HeldNodes, HeldPairs
  <1>11. /\ DatabaseOK'
         /\ StoredNodes' \subseteq HeldNodes
         /\ \A y \in StoredEdges' : <<y.from, y.to>> \in HeldPairs
         /\ StoredNodes \cup missed.node \cup NodesOf(x) \subseteq StoredNodes' \cup missed'.node
         /\ StoredEdges \cup missed.edge \cup EdgesOf(x) \subseteq StoredEdges' \cup missed'.edge
    <2>1. CASE x = Delete
      <3>1. x.run = "delete" /\ NodesOf(x) = {} /\ EdgesOf(x) = {}
        BY <2>1 DEF Delete, NodesOf, EdgesOf
      <3>2. missed'.node = missed.node \cup StoredNodes /\ missed'.edge = missed.edge \cup StoredEdges
        BY <1>1, <3>1
      <3> QED
        BY <1>1, <2>1, <3>1, <3>2, DeletedIsEmpty
    <2>2. CASE x # Delete
      <3>1. x.run # "delete"
        BY <1>3, <2>2 DEF Statements, Delete
      <3>2. missed'.node = missed.node \ NodesOf(x) /\ missed'.edge = missed.edge \ EdgesOf(x)
        BY <1>1, <3>1
      <3>3. /\ StoredNodes' = StoredNodes \cup NodesOf(x) /\ StoredEdges' = StoredEdges \cup EdgesOf(x)
            /\ DatabaseOK'
        BY <1>1, <1>3, <2>2, RanStores DEF StoresInv
      <3> QED
        BY <1>6, <1>8, <1>10, <3>2, <3>3
    <2> QED
      BY <2>1, <2>2
  <1>12. OwedNodes \subseteq OwedNodes' /\ OwedEdges \subseteq OwedEdges'
    <2>1. ASSUME NEW g \in Threads
          PROVE  /\ ToStore(thread[g].statements)
                      \subseteq NodesOf(x) \cup ToStore(thread'[g].statements)
                 /\ ToRelate(thread[g].statements)
                      \subseteq EdgesOf(x) \cup ToRelate(thread'[g].statements)
      <3>1. CASE g = h
        BY <1>6, <3>1 DEF k, t, s
      <3>2. CASE g # h
        BY <1>5, <3>2
      <3> QED
        BY <3>1, <3>2
    <2>2. OwedNodes \subseteq OwedNodes'
      BY <1>11, <2>1 DEF OwedNodes
    <2>3. OwedEdges \subseteq OwedEdges'
      BY <1>11, <2>1 DEF OwedEdges
    <2> QED
      BY <2>2, <2>3
  <1>13. Within(Graph, OwedNodes, OwedEdges)'
    BY <1>7, <1>12, StillWithin
  <1>14. memory' # NoGraph => IsGraph(memory')
    BY <1>1 DEF StoresInv
  <1>15. \A g \in Threads :
            \/ thread'[g] = thread[g]
            \/ /\ Program(thread'[g].calls, thread'[g].statements)
               /\ thread'[g].online => thread'[g].calls = <<>> /\ thread'[g].statements # <<>>
               /\ Planned(HeldNodes', HeldPairs', thread'[g].calls, thread'[g].statements)
    BY <1>5, <1>9 DEF k, t
  <1> QED
    BY <1>5, <1>7, <1>11, <1>13, <1>14, <1>15, StepKept

\* Threads go on with the program that they have or are dropped, and the memory
\* is as it was or loses its graph.
LEMMA OtherStep ==
    ASSUME StoresInv,
           thread' \in [Threads -> Activities],
           \A g \in Threads :
              \/ thread'[g] = Free
              \/ /\ \/ thread'[g].calls = thread[g].calls
                    \/ /\ thread[g].calls # <<>> /\ Head(thread[g].calls) = Reset
                       /\ thread'[g].calls = Tail(thread[g].calls)
                 /\ thread'[g].statements = thread[g].statements
                 /\ thread'[g].online => thread[g].calls = <<>> /\ thread[g].statements # <<>>,
           OwedNodes \subseteq OwedNodes', OwedEdges \subseteq OwedEdges',
           neo4j' = neo4j,
           \/ memory' = memory /\ dropped' = dropped
           \/ Drop /\ memory' \in {NoGraph, EmptyGraph}
    PROVE  StoresInv'
  <1>1. /\ HeldNodes' = HeldNodes /\ HeldPairs' = HeldPairs
        /\ Graph' = Graph \/ Graph' = EmptyGraph
        /\ memory' # NoGraph => IsGraph(memory')
    <2>1. CASE memory' = memory /\ dropped' = dropped
      BY <2>1 DEF StoresInv, Graph, HeldNodes, HeldPairs
    <2>2. CASE Drop /\ memory' \in {NoGraph, EmptyGraph}
      BY <2>2, DropKeeps
    <2> QED
      BY <2>1, <2>2
  <1>3. Within(Graph, OwedNodes, OwedEdges)'
    BY <1>1, StillWithin
  <1>4. /\ StoredNodes' \subseteq HeldNodes /\ \A x \in StoredEdges' : <<x.from, x.to>> \in HeldPairs
        /\ DatabaseOK'
    <2>1. StoredNodes' = StoredNodes /\ StoredEdges' = StoredEdges /\ DatabaseOK'
      BY DEF StoresInv, StoredNodes, StoredEdges, DatabaseOK
    <2>2. StoredNodes \subseteq HeldNodes /\ \A x \in StoredEdges : <<x.from, x.to>> \in HeldPairs
      BY DEF StoresInv, StoredIsInMemory, HeldNodes, HeldPairs
    <2> QED
      BY <2>1, <2>2
  <1>5. ASSUME NEW g \in Threads
        PROVE  /\ Program(thread'[g].calls, thread'[g].statements)
               /\ thread'[g].online => thread'[g].calls = <<>> /\ thread'[g].statements # <<>>
               /\ Planned(HeldNodes', HeldPairs', thread'[g].calls, thread'[g].statements)
    <2>0. /\ Program(thread[g].calls, thread[g].statements)
          /\ Planned(HeldNodes, HeldPairs, thread[g].calls, thread[g].statements)
      BY DEF StoresInv, ThreadsOK
    <2>1. CASE thread'[g] = Free
      <3>1. Planned(HeldNodes', HeldPairs', <<>>, <<>>)
        BY Nothing DEF Planned
      <3> QED
        BY <2>1, <3>1, FreeIsOK
    <2>2. CASE /\ thread'[g].calls = thread[g].calls /\ thread'[g].statements = thread[g].statements
               /\ thread'[g].online => thread[g].calls = <<>> /\ thread[g].statements # <<>>
      BY <1>1, <2>0, <2>2 DEF Planned
    <2>3. CASE /\ thread[g].calls # <<>> /\ Head(thread[g].calls) = Reset
               /\ thread'[g].calls = Tail(thread[g].calls)
               /\ thread'[g].statements = thread[g].statements
               /\ thread'[g].online => thread[g].calls = <<>> /\ thread[g].statements # <<>>
      <3> DEFINE p == thread[g].calls
                 s == thread[g].statements
      <3>1. Tail(p) \in Seq(Calls) /\ Elements(p) = {Reset} \cup Elements(Tail(p))
        BY <2>0, <2>3, HeadTail DEF Program
      <3> HIDE DEF p, s
      <3>2. Program(p, s) /\ Planned(HeldNodes, HeldPairs, p, s) /\ s \in Seq(Statements)
        BY <2>0 DEF p, s, Program
      <3>3. ToAdd(p) = ToAdd(Tail(p))
        <4>1. Ends(Reset) = {}
          BY Kinds4 DEF Ends
        <4> QED
          BY <3>1, <4>1 DEF ToAdd
      <3>4. Reset \notin ToRelate(s)
        BY <3>2, RelatedIsStored, Kinds4
      <3>5. Planned(HeldNodes', HeldPairs', Tail(p), s)
        BY <1>1, <3>1, <3>2, <3>3, <3>4 DEF Planned
      <3>6. Program(Tail(p), s)
        BY <3>1, <3>2 DEF Program, Stores
      <3>7. thread'[g].calls = Tail(p) /\ thread'[g].statements = s /\ ~thread'[g].online
        BY <2>3 DEF p, s
      <3> QED
        BY <3>5, <3>6, <3>7
    <2> QED
      BY <2>1, <2>2, <2>3
  <1> QED
    BY <1>1, <1>3, <1>4, <1>5, StepKept

\* The same for a step that drops no thread.
LEMMA QuietStep ==
    ASSUME StoresInv,
           thread' \in [Threads -> Activities],
           \A g \in Threads :
              /\ thread'[g].calls = thread[g].calls
              /\ thread'[g].statements = thread[g].statements
              /\ thread'[g].online => thread[g].calls = <<>> /\ thread[g].statements # <<>>,
           missed' = missed, neo4j' = neo4j,
           \/ memory' = memory /\ dropped' = dropped
           \/ Drop /\ memory' \in {NoGraph, EmptyGraph}
    PROVE  StoresInv'
  <1>1. OwedNodes \subseteq OwedNodes' /\ OwedEdges \subseteq OwedEdges'
    BY DEF OwedNodes, OwedEdges, StoredNodes, StoredEdges
  <1> QED
    BY <1>1, OtherStep

\* A thread finds no graph, makes one, or finds the database.
LEMMA FlagSet ==
    ASSUME StoresInv, NEW h \in Threads,
           \/ thread' = [thread EXCEPT ![h].creating = TRUE]
           \/ thread' = [thread EXCEPT ![h].creating = FALSE]
           \/ thread' = [thread EXCEPT ![h].online = TRUE] /\ thread[h].calls = <<>>
              /\ thread[h].statements # <<>>
    PROVE  /\ thread' \in [Threads -> Activities]
           /\ \A g \in Threads :
                 /\ thread'[g].calls = thread[g].calls
                 /\ thread'[g].statements = thread[g].statements
                 /\ thread'[g].online => thread[g].calls = <<>> /\ thread[g].statements # <<>>
  <1>0. thread \in [Threads -> Activities] /\ thread[h] \in Activities
        /\ \A g \in Threads : thread[g].online => thread[g].calls = <<>> /\ thread[g].statements # <<>>
    BY DEF StoresInv, ThreadsOK
  <1>1. PICK k \in Activities : k = thread[h]
    BY <1>0
  <1>2. PICK new : new = thread'[h]
    OBVIOUS
  <1>3. \/ new = [k EXCEPT !.creating = TRUE]
        \/ new = [k EXCEPT !.creating = FALSE]
        \/ new = [k EXCEPT !.online = TRUE] /\ k.calls = <<>> /\ k.statements # <<>>
    BY <1>0, <1>1, <1>2
  <1>4. /\ new \in Activities /\ new.calls = k.calls /\ new.statements = k.statements
        /\ new.online => k.calls = <<>> /\ k.statements # <<>>
    BY <1>0, <1>1, <1>3, FlagReplaced
  <1>5. thread' = [thread EXCEPT ![h] = new]
    BY <1>0, <1>2
  <1> QED
    BY <1>0, <1>1, <1>4, <1>5

LEMMA StoresStart == GraphInit => StoresInv
  <1> SUFFICES ASSUME GraphInit PROVE StoresInv
    OBVIOUS
  <1>1. ThreadsOK /\ DatabaseOK /\ Graph = EmptyGraph /\ StoredNodes = {} /\ StoredEdges = {}
    BY FreeIsOK
    DEF GraphInit, ThreadsOK, DatabaseOK, NoData, Graph, StoredNodes, StoredEdges, BagToSet,
        EmptyBag, SetToBag
  <1>2. \A h \in Threads : Planned(HeldNodes, HeldPairs, thread[h].calls, thread[h].statements)
    BY FreeIsOK, Nothing DEF GraphInit, Planned
  <1> QED
    BY <1>1, <1>2 DEF GraphInit, StoresInv, StoredIsInMemory, Within, EmptyGraph

LEMMA StoresKept == StoresInv /\ [GraphNext]_graphVars => StoresInv'
  <1> SUFFICES ASSUME StoresInv, [GraphNext]_graphVars PROVE StoresInv'
    OBVIOUS
  <1>0. thread \in [Threads -> Activities] /\ Free \in Activities
        /\ \A g \in Threads : thread[g].online => thread[g].calls = <<>> /\ thread[g].statements # <<>>
    BY FreeIsOK DEF StoresInv, ThreadsOK
  <1>1. ASSUME NEW h \in Threads, WriteGraph(h) PROVE StoresInv'
    <2>1. PICK records \in Batches, rebuild \in BOOLEAN :
             Begin(h, WriteMemory(records, rebuild), WriteStatements(records, rebuild))
      BY <1>1 DEF WriteGraph
    <2> QED
      BY <2>1, WriteWhole, BeginStep
  <1>2. ASSUME NEW h \in Threads, LoadCase(h) PROVE StoresInv'
    <2>1. PICK c \in Payloads : Begin(h, LoadMemory(c), LoadStatements(c))
      BY <1>2 DEF LoadCase
    <2> QED
      BY <2>1, LoadWhole, BeginStep
  <1>3. ASSUME NEW h \in Threads, ReadGraph(h) PROVE StoresInv'
    BY <1>3, Nothing, BeginStep DEF ReadGraph
  <1>4. ASSUME NEW h \in Threads, CallMemory(h) PROVE StoresInv'
    BY <1>4, CallStep
  <1>5. ASSUME NEW h \in Threads, RunStatement(h) PROVE StoresInv'
    BY <1>5, StatementStep
  <1>6. ASSUME NEW h \in Threads, MissGraph(h) \/ FindDatabase(h) PROVE StoresInv'
    <2>1. /\ \/ thread' = [thread EXCEPT ![h].creating = TRUE]
             \/ /\ thread' = [thread EXCEPT ![h].online = TRUE]
                /\ thread[h].calls = <<>> /\ thread[h].statements # <<>>
          /\ neo4j' = neo4j /\ memory' = memory /\ dropped' = dropped /\ missed' = missed
      BY <1>6 DEF MissGraph, FindDatabase, Writing
    <2>2. /\ thread' \in [Threads -> Activities]
          /\ \A g \in Threads :
                /\ thread'[g].calls = thread[g].calls
                /\ thread'[g].statements = thread[g].statements
                /\ thread'[g].online => thread[g].calls = <<>> /\ thread[g].statements # <<>>
      BY <2>1, FlagSet
    <2> QED
      BY <2>1, <2>2, QuietStep
  <1>7. ASSUME NEW h \in Threads, CreateGraph(h) PROVE StoresInv'
    <2>1. /\ thread' = [thread EXCEPT ![h].creating = FALSE]
          /\ neo4j' = neo4j /\ memory' = EmptyGraph /\ Drop /\ missed' = missed
      BY <1>7 DEF CreateGraph
    <2>2. /\ thread' \in [Threads -> Activities]
          /\ \A g \in Threads :
                /\ thread'[g].calls = thread[g].calls
                /\ thread'[g].statements = thread[g].statements
                /\ thread'[g].online => thread[g].calls = <<>> /\ thread[g].statements # <<>>
      BY <2>1, FlagSet
    <2> QED
      BY <2>1, <2>2, QuietStep
  <1>8. ASSUME NEW h \in Threads, ResetMemory(h) PROVE StoresInv'
    <2>1. PICK S \in SUBSET {g \in Threads \ {h} : Updating(g)} :
             /\ thread' = [g \in Threads |->
                             IF g \in S THEN Free
                             ELSE IF g = h THEN [thread[h] EXCEPT !.calls = Tail(@)]
                             ELSE thread[g]]
             /\ Miss(S)
      BY <1>8 DEF ResetMemory
    <2>2. /\ thread[h].calls # <<>> /\ Head(thread[h].calls) = Reset
          /\ memory' = EmptyGraph /\ Drop /\ neo4j' = neo4j
      BY <1>8 DEF ResetMemory
    <2>3. /\ thread[h] \in Activities
          /\ [thread[h] EXCEPT !.calls = Tail(@)] \in Activities
          /\ [thread[h] EXCEPT !.calls = Tail(@)].calls = Tail(thread[h].calls)
          /\ [thread[h] EXCEPT !.calls = Tail(@)].statements = thread[h].statements
          /\ [thread[h] EXCEPT !.calls = Tail(@)].online = thread[h].online
      <3>1. thread[h] \in Activities /\ thread[h].calls \in Seq(Calls)
        BY <1>0 DEF Activities
      <3>2. Tail(thread[h].calls) \in Seq(Calls)
        BY <2>2, <3>1, HeadTail
      <3> QED
        BY <3>1, <3>2 DEF Activities
    <2>4. S \in SUBSET Threads /\ h \notin S
      BY <2>1
    <2>5. thread' \in [Threads -> Activities]
      BY <1>0, <2>1, <2>3
    <2>6. \A g \in Threads :
             \/ thread'[g] = Free
             \/ /\ \/ thread'[g].calls = thread[g].calls
                   \/ /\ thread[g].calls # <<>> /\ Head(thread[g].calls) = Reset
                      /\ thread'[g].calls = Tail(thread[g].calls)
                /\ thread'[g].statements = thread[g].statements
                /\ thread'[g].online => thread[g].calls = <<>> /\ thread[g].statements # <<>>
      BY <1>0, <2>1, <2>2, <2>3
    <2>7. OwedNodes \subseteq OwedNodes' /\ OwedEdges \subseteq OwedEdges'
      <3>1. \A g \in Threads \ S : thread'[g].statements = thread[g].statements
        BY <2>1, <2>3
      <3> QED
        BY <2>1, <2>2, <2>4, <3>1, MissOwes
    <2> QED
      BY <2>2, <2>5, <2>6, <2>7, OtherStep
  <1>9. ASSUME NEW h \in Threads, MissDatabase(h) \/ StatementFails(h) \/ CallRaises(h)
        PROVE  StoresInv'
    <2>1. /\ thread' = [thread EXCEPT ![h] = Free] /\ Miss({h})
          /\ neo4j' = neo4j /\ memory' = memory /\ dropped' = dropped
      BY <1>9 DEF MissDatabase, StatementFails, CallRaises
    <2>2. /\ thread' \in [Threads -> Activities] /\ thread'[h] = Free
          /\ \A g \in Threads \ {h} : thread'[g] = thread[g]
      BY <1>0, <2>1
    <2>3. PICK S \in SUBSET Threads : S = {h}
      OBVIOUS
    <2>4. OwedNodes \subseteq OwedNodes' /\ OwedEdges \subseteq OwedEdges'
      BY <2>1, <2>2, <2>3, MissOwes
    <2> QED
      BY <1>0, <2>1, <2>2, <2>4, OtherStep
  <1>10. CASE Stop
    <2>1. /\ thread' = [h \in Threads |-> Free] /\ Miss(Threads) /\ Drop
          /\ neo4j' = neo4j /\ memory' = NoGraph
      BY <1>10 DEF Stop
    <2>2. thread' \in [Threads -> Activities] /\ \A g \in Threads : thread'[g] = Free
      BY <1>0, <2>1
    <2>3. PICK S \in SUBSET Threads : S = Threads
      OBVIOUS
    <2>4. OwedNodes \subseteq OwedNodes' /\ OwedEdges \subseteq OwedEdges'
      BY <2>1, <2>3, MissOwes
    <2> QED
      BY <2>1, <2>2, <2>4, OtherStep
  <1>11. CASE UNCHANGED graphVars
    <2>1. /\ thread' = thread /\ neo4j' = neo4j /\ memory' = memory
          /\ dropped' = dropped /\ missed' = missed
      BY <1>11 DEF graphVars
    <2> QED
      BY <1>0, <2>1, QuietStep
  <1> QED
    BY <1>1, <1>2, <1>3, <1>4, <1>5, <1>6, <1>7, <1>8, <1>9, <1>10, <1>11 DEF GraphNext

LEMMA StoresInvariant == GraphSpec => []StoresInv
  BY StoresStart, StoresKept, PTL DEF GraphSpec

\* In every state, for any number of threads, records and cases: the database
\* reports nothing that the memory has not, or has lost.
THEOREM StoredWasInMemory == GraphSpec => []StoredIsInMemory
  <1>1. StoresInv => StoredIsInMemory
    BY DEF StoresInv
  <1> QED
    BY <1>1, StoresInvariant, PTL

\* In every state: what the memory has and the database has not, other than
\* visited pages, a thread is still to write, or its statement did not run or
\* was undone.
THEOREM MemoryIsOwed == GraphSpec => []InMemoryIsStored
  <1>1. StoresInv => InMemoryIsStored
    BY DEF StoresInv, Within, OwedNodes, OwedEdges, InMemoryIsStored
  <1> QED
    BY <1>1, StoresInvariant, PTL

=============================================================================
