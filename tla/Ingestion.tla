------------------------------- MODULE Ingestion -------------------------------
(***************************************************************************)
(* The six ways data enters a case (api/ingestion_routes.py,               *)
(* forensics/zip_ingest.py, upload_case_zip, upload_case_json and its kin  *)
(* load_demo_case).  None of them is one transaction: documents,           *)
(* identities, rows, graph, alerts and custody records are committed one   *)
(* after the other, and a request that fails leaves what it has committed. *)
(*                                                                         *)
(* Sessions do not flush before a query (database.py), so a query sees     *)
(* committed rows only, and what a handler has added it finds out about at *)
(* its next commit, which is the next alert or custody record if that      *)
(* comes first.  Uploads are coroutines that do not pause: no two of them  *)
(* interleave.  The other routes run in threads.                           *)
(*                                                                         *)
(* The graph of a case is in memory, without a lock.  Every call on it     *)
(* first asks get_networkx_graph, which tests for the graph and then       *)
(* stores a new one, perhaps over one that other threads have filled.      *)
(***************************************************************************)
EXTENDS Naturals, FiniteSets, Sequences

CONSTANTS
    Handlers,   \* concurrent requests
    Cases,      \* case numbers
    Names,      \* names of people and entities
    Contents,   \* what a request may hold: see Content
    MaxRequests \* bound on the requests

ASSUME ContentsAreRecords == Contents \subseteq [people : Seq(Names), near : Nat, flagged : Nat]

VARIABLES
    caseRows,   \* cases with a CaseRecord
    lookup,     \* names with an EntityLookup (hash_id is unique)
    rows,       \* committed rows, as <<table, request>>
    alerts,     \* committed alerts, as <<number, request>>
    custody,    \* chain of custody, as <<action, request>>
    entries,    \* cases with a graph in _case_graphs
    searching,  \* cases for which threads found none, and are still to store one
    graph,      \* requests of which the graph of a case holds nodes and edges
    request,    \* the requests made so far, and what they hold
    handler,    \* where a handler is and what it holds in memory
    failed,     \* history: requests that raised, or died with the server
    wiped       \* history: requests of which the graph has dropped nodes

graphs == <<entries, searching, graph, wiped>>

vars == <<caseRows, lookup, rows, alerts, custody, graphs, request, handler, failed>>

-----------------------------------------------------------------------------
Kinds == {"report", "upload", "bundle", "zip", "archive", "json"}

Coroutines == {"upload", "zip", "archive"}

\* The names a request registers, in the order it meets them (the names of a
\* document are distinct, deduplicate_entities_fuzzy; people and entities of
\* the same name are not), and the numbers of alerts its co-locations and its
\* other patterns raise.
Content(maxPeople, maxAlerts) ==
    [people : UNION {[1..n -> Names] : n \in 0..maxPeople},
     near : 0..maxAlerts, flagged : 0..maxAlerts]

Distinct(s) == Cardinality({s[i] : i \in DOMAIN s}) = Len(s)

\* The committing steps of a request of each kind, in their order; the change of
\* the graph in two, as others may change it in between.
Narrative == <<"document", "INVESTIGATION_REPORT_SUBMITTED", "look", "commit lookups", "rows",
               "nodes", "graph", "alerts", "NLP_ANALYSIS_COMPLETED", "GRAPH_UPDATED">>
Bundle == <<"find case", "case", "look", "commit lookups", "near", "rows", "alerts", "nodes",
            "graph", "CASE_BUNDLE_INGESTED">>
ZipUpload == <<"find case", "FORENSIC_ZIP_INGESTED", "look", "rows", "reset", "graph">>
Archive == <<"evidence", "rows", "near">>
Json == <<"find case", "case", "reset", "graph">>

Steps == [report |-> Narrative, upload |-> Narrative, bundle |-> Bundle, zip |-> ZipUpload,
          archive |-> Archive, json |-> Json]

Idle == [on |-> 0]

Init ==
    /\ caseRows = {}
    /\ lookup = {}
    /\ rows = {}
    /\ alerts = {}
    /\ custody = {}
    /\ entries = {}
    /\ searching = {}
    /\ graph = [c \in Cases |-> {}]
    /\ request = <<>>
    /\ handler = [h \in Handlers |-> Idle]
    /\ failed = {}
    /\ wiped = {}

Requests == DOMAIN request

Of(h) == request[handler[h].on]

People(r) == {request[r].holds.people[i] : i \in DOMAIN request[r].holds.people}

At(h, step) == handler[h] # Idle /\ Steps[Of(h).kind][handler[h].step] = step

\* Handler h goes on with the next step, or is done after the last.
Go(h) ==
    LET k == handler[h] IN
    handler' = [handler EXCEPT ![h] =
        IF k.step = Len(Steps[Of(h).kind]) THEN Idle ELSE [k EXCEPT !.step = k.step + 1]]

Raise(h) ==
    /\ handler' = [handler EXCEPT ![h] = Idle]
    /\ failed' = failed \cup {handler[h].on}

\* What h has added to EntityLookup can be inserted.
Insertable(h) ==
    LET adds == handler[h].adds IN
    Distinct(adds) /\ \A i \in DOMAIN adds : adds[i] \notin lookup

Added(h) == {handler[h].adds[i] : i \in DOMAIN handler[h].adds}

-----------------------------------------------------------------------------
\* A request that passes the checks on its form (an empty report, a document
\* without text or an archive that is refused changes nothing).
Start(h, kind, c, content) ==
    /\ handler[h] = Idle
    /\ Len(request) < MaxRequests
    /\ kind \in Coroutines => \A g \in Handlers : handler[g] # Idle => Of(g).kind \notin Coroutines
    /\ kind \in {"report", "upload"} => Distinct(content.people)
    /\ kind \notin {"bundle", "archive"} => content.near = 0
    /\ kind \in {"zip", "archive", "json"} => content.flagged = 0
    /\ kind \in {"archive", "json"} => content.people = <<>>
    /\ request' = Append(request, [kind |-> kind, case |-> c, holds |-> content])
    /\ handler' = [handler EXCEPT ![h] =
          [on |-> Len(request) + 1, step |-> 1, names |-> content.people, adds |-> <<>>,
           near |-> content.near, flagged |-> content.flagged, new |-> FALSE]]
    /\ UNCHANGED <<caseRows, lookup, rows, alerts, custody, graphs, failed>>

StoreDocument(h) ==
    /\ At(h, "document")
    /\ rows' = rows \cup {<<"document", handler[h].on>>}
    /\ Go(h)
    /\ UNCHANGED <<caseRows, lookup, alerts, custody, graphs, request, failed>>

\* register_evidence, step by step in CaseFile.
RegisterEvidence(h) ==
    /\ At(h, "evidence")
    /\ rows' = rows \cup {<<"evidence", handler[h].on>>}
    /\ custody' = custody \cup {<<"EVIDENCE_UPLOADED", handler[h].on>>}
    /\ Go(h)
    /\ UNCHANGED <<caseRows, lookup, alerts, graphs, request, failed>>

LogAction(h, action) ==
    /\ At(h, action)
    /\ custody' = custody \cup {<<action, handler[h].on>>}
    /\ Go(h)
    /\ UNCHANGED <<caseRows, lookup, rows, alerts, graphs, request, failed>>

\* A bundle, a forensic archive and JSON bring their case along ...
FindCase(h) ==
    /\ At(h, "find case")
    /\ handler' = [handler EXCEPT ![h].new = Of(h).case \notin caseRows, ![h].step = @ + 1]
    /\ UNCHANGED <<caseRows, lookup, rows, alerts, custody, graphs, request, failed>>

\* ... which a bundle and JSON commit by itself ...
InsertCase(h) ==
    /\ At(h, "case")
    /\ IF handler[h].new /\ Of(h).case \in caseRows
       THEN Raise(h) /\ UNCHANGED caseRows
       ELSE Go(h) /\ caseRows' = caseRows \cup {Of(h).case} /\ UNCHANGED failed
    /\ UNCHANGED <<lookup, rows, alerts, custody, graphs, request>>

\* ... and a forensic archive with its custody record, ahead of its contents.
LogZip(h) ==
    /\ At(h, "FORENSIC_ZIP_INGESTED")
    /\ IF handler[h].new /\ Of(h).case \in caseRows
       THEN Raise(h) /\ UNCHANGED <<caseRows, custody>>
       ELSE /\ Go(h)
            /\ caseRows' = caseRows \cup {Of(h).case}
            /\ custody' = custody \cup {<<"FORENSIC_ZIP_INGESTED", handler[h].on>>}
            /\ UNCHANGED failed
    /\ UNCHANGED <<lookup, rows, alerts, graphs, request>>

\* The query for the next name; one that is not found is added to the session.
LookUp(h) ==
    LET k == handler[h] IN
    /\ At(h, "look")
    /\ IF k.names = <<>>
       THEN Go(h)
       ELSE handler' = [handler EXCEPT ![h].names = Tail(@),
                ![h].adds = IF Head(k.names) \in lookup THEN @ ELSE Append(@, Head(k.names))]
    /\ UNCHANGED <<caseRows, lookup, rows, alerts, custody, graphs, request, failed>>

\* Mutant of CommitLookups: a clash ends the request as if it were done.
CommitLookupsQuietly(h) ==
    /\ At(h, "commit lookups")
    /\ IF Insertable(h)
       THEN Go(h) /\ lookup' = lookup \cup Added(h)
       ELSE handler' = [handler EXCEPT ![h] = Idle] /\ UNCHANGED lookup
    /\ UNCHANGED <<caseRows, failed, rows, alerts, custody, graphs, request>>

\* Mutant of CommitLookups: a clash is rolled back and the request goes on.
CommitLookupsOrSkip(h) ==
    /\ At(h, "commit lookups")
    /\ Go(h)
    /\ lookup' = IF Insertable(h) THEN lookup \cup Added(h) ELSE lookup
    /\ UNCHANGED <<caseRows, failed, rows, alerts, custody, graphs, request>>

\* One unique violation refuses the whole batch, and ends the request.
CommitLookups(h) ==
    /\ At(h, "commit lookups")
    /\ IF Insertable(h)
       THEN Go(h) /\ lookup' = lookup \cup Added(h) /\ UNCHANGED failed
       ELSE Raise(h) /\ UNCHANGED lookup
    /\ UNCHANGED <<caseRows, rows, alerts, custody, graphs, request>>

\* Mutant of CommitRows: a name that is taken is left out.
CommitRowsAnyway(h) ==
    /\ At(h, "rows")
    /\ Go(h)
    /\ rows' = rows \cup {<<"rows", handler[h].on>>}
    /\ UNCHANGED <<failed, lookup, caseRows, alerts, custody, graphs, request>>

\* Calls, transactions, messages, files, locations, the narrative of a bundle,
\* or the artifacts of an archive; with the names of a forensic archive.
CommitRows(h) ==
    /\ At(h, "rows")
    /\ IF Of(h).kind # "zip" \/ Insertable(h)
       THEN /\ Go(h)
            /\ rows' = rows \cup {<<"rows", handler[h].on>>}
            /\ lookup' = IF Of(h).kind = "zip" THEN lookup \cup Added(h) ELSE lookup
            /\ UNCHANGED failed
       ELSE Raise(h) /\ UNCHANGED <<rows, lookup>>
    /\ UNCHANGED <<caseRows, alerts, custody, graphs, request>>

\* Mutant of CoLocate: the alert in a session of its own.
CoLocateApart(h) ==
    LET k == handler[h] IN
    /\ At(h, "near")
    /\ IF k.near = 0
       THEN Go(h) /\ UNCHANGED <<rows, alerts>>
       ELSE /\ alerts' = alerts \cup {<<"CO_LOCATION", k.near, k.on>>}
            /\ handler' = [handler EXCEPT ![h].near = @ - 1]
            /\ UNCHANGED rows
    /\ UNCHANGED <<caseRows, lookup, custody, graphs, request, failed>>

\* create_alert for the next co-location: its commit is that of the rows added
\* so far, of a bundle without its narrative.
CoLocate(h) ==
    LET k == handler[h] IN
    /\ At(h, "near")
    /\ IF k.near = 0
       THEN Go(h) /\ UNCHANGED <<rows, alerts>>
       ELSE /\ alerts' = alerts \cup {<<"CO_LOCATION", k.near, k.on>>}
            /\ handler' = [handler EXCEPT ![h].near = @ - 1]
            /\ rows' = rows \cup {<<IF Of(h).kind = "bundle" THEN "early rows" ELSE "rows", k.on>>}
    /\ UNCHANGED <<caseRows, lookup, custody, graphs, request, failed>>

\* create_alert for the next burst, structuring or ambiguous identity.
CreateAlert(h) ==
    LET k == handler[h] IN
    /\ At(h, "alerts")
    /\ IF k.flagged = 0
       THEN Go(h) /\ UNCHANGED alerts
       ELSE /\ alerts' = alerts \cup {<<"PATTERN", k.flagged, k.on>>}
            /\ handler' = [handler EXCEPT ![h].flagged = @ - 1]
    /\ UNCHANGED <<caseRows, lookup, rows, custody, graphs, request, failed>>

-----------------------------------------------------------------------------
\* get_networkx_graph of any thread, of a route that reads the graph or of one
\* that changes it: the case has no graph ...
FindNoGraph(c) ==
    /\ c \notin entries
    /\ searching' = searching \cup {c}
    /\ UNCHANGED <<caseRows, lookup, rows, alerts, custody, entries, graph, wiped, request,
                   handler, failed>>

\* ... and a new one is stored, over what is there by now; other threads may
\* have missed it as well.
StoreGraph(c) ==
    /\ c \in searching
    /\ searching' \in {searching, searching \ {c}}
    /\ entries' = entries \cup {c}
    /\ graph' = [graph EXCEPT ![c] = {}]
    /\ wiped' = wiped \cup graph[c]
    /\ UNCHANGED <<caseRows, lookup, rows, alerts, custody, request, handler, failed>>

\* The first call of write_graph on the graph, and the last of write_graph or
\* load_case; DualGraph has them one by one.
AddNodes(h, step) ==
    /\ At(h, step)
    /\ Of(h).case \in entries
    /\ graph' = [graph EXCEPT ![Of(h).case] = @ \cup {handler[h].on}]
    /\ Go(h)
    /\ UNCHANGED <<caseRows, lookup, rows, alerts, custody, entries, searching, wiped, request,
                   failed>>

UpdateGraph(h) == AddNodes(h, "nodes") \/ AddNodes(h, "graph")

\* load_case first drops what the graph of the case holds.
ResetGraph(h) ==
    /\ At(h, "reset")
    /\ entries' = entries \cup {Of(h).case}
    /\ graph' = [graph EXCEPT ![Of(h).case] = {handler[h].on}]
    /\ wiped' = wiped \cup graph[Of(h).case]
    /\ Go(h)
    /\ UNCHANGED <<caseRows, lookup, rows, alerts, custody, searching, request, failed>>

-----------------------------------------------------------------------------
\* A transaction fails, a call raises.
Fail(h) ==
    /\ handler[h] # Idle
    /\ Raise(h)
    /\ UNCHANGED <<caseRows, lookup, rows, alerts, custody, graphs, request>>

\* The server restarts: the handlers and the graphs, which are in memory, are
\* gone.
Restart ==
    /\ request # <<>>
    /\ failed' = failed \cup ({handler[h].on : h \in Handlers} \ {0})
    /\ handler' = [h \in Handlers |-> Idle]
    /\ wiped' = wiped \cup UNION {graph[c] : c \in Cases}
    /\ graph' = [c \in Cases |-> {}]
    /\ entries' = {}
    /\ searching' = {}
    /\ UNCHANGED <<caseRows, lookup, rows, alerts, custody, request>>

Logged == {"INVESTIGATION_REPORT_SUBMITTED", "NLP_ANALYSIS_COMPLETED", "GRAPH_UPDATED",
           "CASE_BUNDLE_INGESTED"}

Next ==
    \/ \E h \in Handlers :
         \/ \E kind \in Kinds, c \in Cases, content \in Contents : Start(h, kind, c, content)
         \/ \E action \in Logged : LogAction(h, action)
         \/ StoreDocument(h) \/ RegisterEvidence(h) \/ FindCase(h) \/ InsertCase(h) \/ LogZip(h)
         \/ LookUp(h) \/ CommitLookups(h) \/ CommitRows(h) \/ CoLocate(h) \/ CreateAlert(h)
         \/ UpdateGraph(h) \/ ResetGraph(h) \/ Fail(h)
    \/ \E c \in Cases : FindNoGraph(c) \/ StoreGraph(c)
    \/ Restart

Spec == Init /\ [][Next]_vars

-----------------------------------------------------------------------------
Tables == {"document", "evidence", "rows", "early rows"}

Patterns == {"CO_LOCATION", "PATTERN"}

Actions == Logged \cup {"EVIDENCE_UPLOADED", "FORENSIC_ZIP_INGESTED"}

\* What a handler that serves a request has in memory.
Working ==
    [on : Requests, step : Nat \ {0}, names : Seq(Names), adds : Seq(Names), near : Nat,
     flagged : Nat, new : BOOLEAN]

\* What is stored, recorded, raised or in memory is of a request that was made;
\* of its names and alerts a handler has those in memory that it still has to
\* look up, to insert or to raise.
StoredOK ==
    /\ caseRows \subseteq Cases
    /\ lookup \subseteq Names
    /\ rows \subseteq Tables \X Requests
    /\ alerts \subseteq Patterns \X (Nat \ {0}) \X Requests
    /\ custody \subseteq Actions \X Requests
    /\ entries \subseteq Cases
    /\ searching \subseteq Cases
    /\ graph \in [Cases -> SUBSET Requests]
    /\ failed \subseteq Requests
    /\ wiped \subseteq Requests

HandlersOK ==
    /\ handler \in [Handlers -> {Idle} \cup Working]
    /\ \A h \in Handlers : handler[h] # Idle => handler[h].step <= Len(Steps[Of(h).kind])

TypeOK ==
    /\ request \in Seq([kind : Kinds, case : Cases, holds : Contents])
    /\ StoredOK
    /\ HandlersOK

Running(r) == \E h \in Handlers : handler[h].on = r

Alerts(r) ==
    {<<"CO_LOCATION", i, r>> : i \in 1..request[r].holds.near}
      \cup {<<"PATTERN", i, r>> : i \in 1..request[r].holds.flagged}

\* The record that closes a request, as far as its kind has one.
Closing == [report |-> "GRAPH_UPDATED", upload |-> "GRAPH_UPDATED",
            bundle |-> "CASE_BUNDLE_INGESTED"]

\* What the chain of custody says was done was done: behind the record that
\* closes a report or a bundle stand the rows, every alert, every identity and
\* the nodes in the graph, or the graph has dropped them since: at a restart, at
\* a load_case of the case, or when a thread that had found no graph stored a
\* new one (then GRAPH_UPDATED may be recorded of nodes that are gone).
\* A forensic archive is recorded first: its rows may be missing, but then it
\* is still running or has failed.
RecordedIsDone ==
    \A r \in Requests :
        LET q == request[r] IN
        IF q.kind \in DOMAIN Closing
        THEN <<Closing[q.kind], r>> \in custody =>
               /\ <<"rows", r>> \in rows
               /\ Alerts(r) \subseteq alerts
               /\ People(r) \subseteq lookup
               /\ r \in graph[q.case] \cup wiped
        ELSE <<"FORENSIC_ZIP_INGESTED", r>> \in custody =>
               \/ <<"rows", r>> \in rows /\ People(r) \subseteq lookup
               \/ Running(r)
               \/ r \in failed

\* Nothing of a request is on file without its custody records but while it runs
\* or after it failed: there is no path that stores and silently skips the rest.
\* (JSON has no custody record at all, only its case.)
StoredIsRecorded ==
    \A r \in Requests :
        (~Running(r) /\ r \notin failed) =>
            CASE request[r].kind \in {"report", "upload"} ->
                   {<<"INVESTIGATION_REPORT_SUBMITTED", r>>, <<"NLP_ANALYSIS_COMPLETED", r>>,
                    <<"GRAPH_UPDATED", r>>} \subseteq custody
              [] request[r].kind = "bundle" -> <<"CASE_BUNDLE_INGESTED", r>> \in custody
              [] request[r].kind = "zip" -> <<"FORENSIC_ZIP_INGESTED", r>> \in custody
              [] request[r].kind = "json" -> request[r].case \in caseRows
              [] OTHER -> <<"EVIDENCE_UPLOADED", r>> \in custody /\ Alerts(r) \subseteq alerts

\* An alert rests on rows that are committed, and the rows of a bundle or of a
\* forensic archive on the row of their case, also when two requests bring the
\* same new case and one of them is refused.
AlertsRestOnRows ==
    /\ \A a \in alerts : {<<"rows", a[3]>>, <<"early rows", a[3]>>} \cap rows # {}
    /\ \A x \in rows : request[x[2]].kind \in {"bundle", "zip"} => request[x[2]].case \in caseRows

\* The people of a request whose nodes are in the graph can be revealed: each
\* has an EntityLookup, of this request or of another that was faster.  (Names
\* that only a sentence, the narrative or a row of a bundle mentions are nodes
\* without one.)
NodesCanBeRevealed ==
    \A c \in Cases : \A r \in graph[c] : People(r) \subseteq lookup

=============================================================================
