------------------------------- MODULE DualGraph -------------------------------
(***************************************************************************)
(* The graph of one case in its two stores: the NetworkX DiGraph in the    *)
(* memory of the server and the database Neo4j.  write_graph (ingestions)  *)
(* and load_case (archives, JSON, demonstration data) first change the     *)
(* memory, call by call, and then the database, statement by statement,    *)
(* each in a transaction of its own; an error of the database ends the     *)
(* second part and is only logged, an exception of the first part ends the *)
(* call before the second.  Handlers run in threads, so their calls        *)
(* interleave.                                                             *)
(*                                                                         *)
(* A thread is the list of the memory calls and the list of the            *)
(* statements it still has to make.  Of a node its id is kept, and of an   *)
(* edge its ends and its relation; types, labels, weights and times are    *)
(* left out.  MERGE is taken to be atomic.                                 *)
(***************************************************************************)
EXTENDS Naturals, Sequences, FiniteSets, Bags, SequencesExt

CONSTANTS
    Threads,    \* concurrent calls
    Persons,    \* ids of nodes other than the node of the case
    CaseNode,   \* the case number, which is also a node id
    Batches,    \* the lists of records that write_graph may be given
    Payloads,   \* the case data that load_case may be given
    MaxCalls    \* bound on the calls of write_graph and load_case

Ids == Persons \cup {CaseNode}

\* "broken" stands for an artifact that load_case cannot convert: a duration,
\* a distance or a type that is not of the expected kind.
ArtifactKinds ==
    {"call", "chat", "file", "location_ping", "co_located", "browser_history", "broken"}

ASSUME BatchesAreRecords ==
    Batches \subseteq Seq([source : Ids, target : Ids, relation : STRING])

ASSUME PayloadsAreCases ==
    Payloads \subseteq
        [entities : Seq(Ids),
         artifacts : Seq([kind : ArtifactKinds, source : Ids \cup {"UNKNOWN"},
                          target : Ids \cup {"UNKNOWN"}])]

VARIABLES
    memory,     \* _case_graphs[case_id]: the nodes, the relation of each edge
    neo4j,      \* the Case node, the nodes by key, the relationships
    thread,     \* thread[h]: the memory calls and statements still to make
    calls,      \* calls made so far
    dropped,    \* history: nodes and pairs that the memory has lost since it got them
    missed      \* history: nodes and edges of statements that never ran or were undone

graphVars == <<memory, neo4j, thread, calls, dropped, missed>>

-----------------------------------------------------------------------------
\* Nodes, edges and programs

Reset == [call |-> "reset"]
Node(n) == [call |-> "node", id |-> n]
Edge(u, v, rel) == [call |-> "edge", from |-> u, to |-> v, relation |-> rel]
Read == [call |-> "read"]
Broken == [call |-> "raise"]

EmptyGraph == [node |-> {}, edge |-> <<>>]

\* _case_graphs has no entry for the case.
NoGraph == [entry |-> "none"]

\* upsert_networkx_node.
UpsertNode(g, n) == [g EXCEPT !.node = @ \cup {n}]

\* add_edge, or the update of the edge that is there.
WithEdge(edges, e, rel) ==
    [x \in DOMAIN edges \cup {e} |-> IF x = e THEN rel ELSE edges[x]]

\* upsert_networkx_edge: end points that are missing are added, and since a
\* DiGraph has one edge from u to v, a second relation replaces the first.
UpsertEdge(g, u, v, rel) ==
    [UpsertNode(UpsertNode(g, u), v) EXCEPT !.edge = WithEdge(@, <<u, v>>, rel)]

\* The memory calls and the statements of write_graph.
WriteMemory(records, rebuild) ==
    (IF rebuild THEN <<Reset>> ELSE <<>>) \o
    FlattenSeq([i \in DOMAIN records |->
        LET r == records[i] IN
        <<Node(r.source), Node(r.target), Edge(r.source, r.target, r.relation)>>])

WriteStatements(records, rebuild) ==
    (IF rebuild THEN <<[run |-> "delete"]>> ELSE <<>>) \o
    [i \in DOMAIN records |-> [run |-> "record", record |-> records[i]]]

\* The edge that load_case makes of an artifact.
Relation(kind) ==
    CASE kind = "call" -> "CALLED"
      [] kind = "chat" -> "MESSAGED"
      [] kind = "file" -> "TRANSFERRED_FILE"
      [] kind = "co_located" -> "CO_LOCATED"
      [] kind = "browser_history" -> "BROWSED"

\* Artifacts of which load_case makes an edge: a file with a receiver, a place
\* with a distance ("co_located"), and every other kind.
HasEdge(a) ==
    /\ a.kind \notin {"location_ping", "broken"}
    /\ a.kind = "file" => a.target # "UNKNOWN"

\* edges_added, and the exception of an artifact that is broken; a visited page
\* is an edge to the case.
EdgesAdded(c) ==
    FlattenSeq([i \in DOMAIN c.artifacts |->
        LET a == c.artifacts[i] IN
        IF a.kind = "broken" THEN <<Broken>>
        ELSE IF ~HasEdge(a) THEN <<>>
        ELSE <<Edge(a.source, IF a.kind = "browser_history" THEN CaseNode ELSE a.target,
                    Relation(a.kind))>>])

\* Lines 78-175: the graph in memory is reset first.
LoadMemory(c) ==
    <<Reset, Node(CaseNode)>> \o
    FlattenSeq([i \in DOMAIN c.entities |->
        <<Node(c.entities[i]), Edge(CaseNode, c.entities[i], "HAS_ENTITY")>>]) \o
    EdgesAdded(c)

\* Mutant of HasLink: no branch is for calls either, as their relation is
\* misspelt in the test for it.
HasLinkButCalls(x) == x # Broken /\ x.relation \notin {"BROWSED", "CALLED"}

\* The edges that the database gets too: no branch is for BROWSED.
HasLink(x) == x # Broken /\ x.relation # "BROWSED"

\* Lines 181-271: the database is not reset.
LoadStatements(c) ==
    LET edges == EdgesAdded(c) IN
    <<[run |-> "case"]>> \o
    [i \in DOMAIN c.entities |-> [run |-> "entity", id |-> c.entities[i]]] \o
    FlattenSeq([i \in DOMAIN edges |->
        IF HasLink(edges[i]) THEN <<[run |-> "link", edge |-> edges[i]]>> ELSE <<>>])

\* The nodes and the edges that a statement stores.
NodesOf(s) ==
    CASE s.run = "record" -> {s.record.source, s.record.target}
      [] s.run = "case"   -> {CaseNode}
      [] s.run = "entity" -> {CaseNode, s.id}
      [] s.run = "link"   -> {s.edge.from, s.edge.to}
      [] OTHER            -> {}

EdgesOf(s) ==
    CASE s.run = "record" -> {Edge(s.record.source, s.record.target, s.record.relation)}
      [] s.run = "entity" -> {Edge(CaseNode, s.id, "HAS_ENTITY")}
      [] s.run = "link"   -> {s.edge}
      [] OTHER            -> {}

\* What statements are to store.
ToStore(statements) == UNION {NodesOf(statements[i]) : i \in DOMAIN statements}

ToRelate(statements) == UNION {EdgesOf(statements[i]) : i \in DOMAIN statements}

-----------------------------------------------------------------------------
Free == [calls |-> <<>>, statements |-> <<>>, creating |-> FALSE, online |-> FALSE]

NoData == [case |-> "none", ids |-> {}, entity_ids |-> {}, links |-> EmptyBag]

GraphInit ==
    /\ memory = NoGraph
    /\ neo4j = NoData
    /\ thread = [h \in Threads |-> Free]
    /\ calls = 0
    /\ dropped = [node |-> {}, edge |-> {}]
    /\ missed = [node |-> {}, edge |-> {}]

Graph == IF memory = NoGraph THEN EmptyGraph ELSE memory

\* The nodes that the database reports, by id or by entity_id.
StoredNodes ==
    neo4j.ids \cup neo4j.entity_ids \cup (IF neo4j.case = "none" THEN {} ELSE {CaseNode})

StoredEdges == {l[2] : l \in BagToSet(neo4j.links)}

Writing(h) == thread[h].statements # <<>>

\* The memory loses all of its graph.
Drop ==
    dropped' = [node |-> dropped.node \cup Graph.node,
                edge |-> dropped.edge \cup DOMAIN Graph.edge]

\* The statements that the threads in S still have are never run.
Miss(S) ==
    missed' = [node |-> missed.node \cup UNION {ToStore(thread[g].statements) : g \in S},
               edge |-> missed.edge \cup UNION {ToRelate(thread[g].statements) : g \in S}]

Begin(h, inMemory, statements) ==
    /\ thread[h] = Free
    /\ thread' = [thread EXCEPT ![h].calls = inMemory, ![h].statements = statements]
    /\ UNCHANGED <<memory, neo4j, dropped, missed>>

WriteGraph(h) ==
    /\ calls < MaxCalls
    /\ calls' = calls + 1
    /\ \E records \in Batches, rebuild \in BOOLEAN :
          Begin(h, WriteMemory(records, rebuild), WriteStatements(records, rebuild))

LoadCase(h) ==
    /\ calls < MaxCalls
    /\ calls' = calls + 1
    /\ \E c \in Payloads : Begin(h, LoadMemory(c), LoadStatements(c))

\* The routes that read the graph in memory: the overview when the database
\* does not answer, the ego network, the paths, the measures.
ReadGraph(h) == Begin(h, <<Read>>, <<>>) /\ UNCHANGED calls

\* get_networkx_graph finds no graph ...
MissGraph(h) ==
    LET k == thread[h] IN
    /\ k.calls # <<>>
    /\ ~k.creating
    /\ Head(k.calls) \notin {Reset, Broken}
    /\ memory = NoGraph
    /\ thread' = [thread EXCEPT ![h].creating = TRUE]
    /\ UNCHANGED <<memory, neo4j, calls, dropped, missed>>

\* ... and stores a new one, perhaps over one that another thread has stored
\* and filled since.
CreateGraph(h) ==
    /\ thread[h].creating
    /\ memory' = EmptyGraph
    /\ thread' = [thread EXCEPT ![h].creating = FALSE]
    /\ Drop
    /\ UNCHANGED <<neo4j, calls, missed>>

\* Threads between the test for a node and its update.
Updating(g) ==
    LET k == thread[g] IN
    /\ k.calls # <<>>
    /\ ~k.creating
    /\ Head(k.calls).call = "node"
    /\ Head(k.calls).id \in Graph.node

\* reset_networkx_graph: the update of a node that it clears raises KeyError.
ResetMemory(h) ==
    /\ thread[h].calls # <<>>
    /\ Head(thread[h].calls) = Reset
    /\ memory' = EmptyGraph
    /\ Drop
    /\ \E S \in SUBSET {g \in Threads \ {h} : Updating(g)} :
          /\ thread' = [g \in Threads |->
                          IF g \in S THEN Free
                          ELSE IF g = h THEN [thread[h] EXCEPT !.calls = Tail(@)]
                          ELSE thread[g]]
          /\ Miss(S)
    /\ UNCHANGED <<neo4j, calls>>

\* The graph after a memory call.
Called(op) ==
    CASE op.call = "node" -> UpsertNode(memory, op.id)
      [] op.call = "edge" -> UpsertEdge(memory, op.from, op.to, op.relation)
      [] OTHER            -> memory

\* One call on the graph in memory.
CallMemory(h) ==
    LET k == thread[h] IN
    /\ k.calls # <<>>
    /\ ~k.creating
    /\ Head(k.calls) \notin {Reset, Broken}
    /\ memory # NoGraph
    /\ memory' = Called(Head(k.calls))
    /\ thread' = [thread EXCEPT ![h].calls = Tail(@)]
    /\ dropped' = [node |-> dropped.node \ memory'.node,
                   edge |-> dropped.edge \ DOMAIN memory'.edge]
    /\ UNCHANGED <<neo4j, calls, missed>>

\* The exception of a broken artifact: what came before it stays in memory.
CallRaises(h) ==
    /\ thread[h].calls # <<>>
    /\ Head(thread[h].calls) = Broken
    /\ thread' = [thread EXCEPT ![h] = Free]
    /\ Miss({h})
    /\ UNCHANGED <<memory, neo4j, calls, dropped>>

\* Mutant of FindDatabase: the database is written first.
FindDatabaseEarly(h) ==
    /\ Writing(h)
    /\ ~thread[h].online
    /\ thread' = [thread EXCEPT ![h].online = TRUE]
    /\ UNCHANGED <<memory, neo4j, calls, dropped, missed>>

\* is_neo4j_available, asked once, before the first statement.
FindDatabase(h) ==
    /\ Writing(h)
    /\ thread[h].calls = <<>>
    /\ ~thread[h].online
    /\ thread' = [thread EXCEPT ![h].online = TRUE]
    /\ UNCHANGED <<memory, neo4j, calls, dropped, missed>>

MissDatabase(h) ==
    /\ Writing(h)
    /\ thread[h].calls = <<>>
    /\ ~thread[h].online
    /\ thread' = [thread EXCEPT ![h] = Free]
    /\ Miss({h})
    /\ UNCHANGED <<memory, neo4j, calls, dropped>>

\* MERGE of a relationship: the one that is there is used.
Merge(bag, x) == IF BagIn(x, bag) THEN bag ELSE bag (+) SetToBag({x})

\* Whether a statement meets the constraint case_id_unique: it labels its own
\* node of the case as Case when load_case has made one.
Clashes(s) ==
    /\ s.run = "record"
    /\ CaseNode \in {s.record.source, s.record.target}
    /\ neo4j.case = "loaded"

\* The database after a statement.  write_graph keys its nodes by id and
\* load_case by entity_id, so one name may be two nodes; "written" is a Case
\* node of write_graph, which a later load_case finds and uses.
Ran(s) ==
    CASE s.run = "delete" -> NoData
      [] s.run = "record" ->
            LET r == s.record IN
            [neo4j EXCEPT
                !.case = IF CaseNode \in {r.source, r.target} THEN "written" ELSE @,
                !.ids = @ \cup {r.source, r.target},
                !.links = Merge(@, <<"id", Edge(r.source, r.target, r.relation)>>)]
      [] s.run = "case" -> [neo4j EXCEPT !.case = IF @ = "none" THEN "loaded" ELSE @]
      [] s.run = "entity" ->
            [neo4j EXCEPT !.case = IF @ = "none" THEN "loaded" ELSE @,
                          !.entity_ids = @ \cup {s.id},
                          !.links = Merge(@, <<"entity_id", Edge(CaseNode, s.id, "HAS_ENTITY")>>)]
      [] s.run = "link" ->
            [neo4j EXCEPT !.entity_ids = @ \cup {s.edge.from, s.edge.to},
                          !.links = @ (+) SetToBag({<<"entity_id", s.edge>>})]

Advance(k) == IF Len(k.statements) = 1 THEN Free ELSE [k EXCEPT !.statements = Tail(@)]

\* One statement; the deletion of a rebuild undoes those that ran before.
RunStatement(h) ==
    LET k == thread[h]
        s == Head(k.statements)
    IN  /\ k.online
        /\ ~Clashes(s)
        /\ neo4j' = Ran(s)
        /\ thread' = [thread EXCEPT ![h] = Advance(k)]
        /\ missed' = IF s.run = "delete"
                     THEN [node |-> missed.node \cup StoredNodes, edge |-> missed.edge \cup StoredEdges]
                     ELSE [node |-> missed.node \ NodesOf(s), edge |-> missed.edge \ EdgesOf(s)]
        /\ UNCHANGED <<memory, calls, dropped>>

\* The exception of a statement: the rest is dropped and the thread goes on.
StatementFails(h) ==
    /\ thread[h].online
    /\ thread' = [thread EXCEPT ![h] = Free]
    /\ Miss({h})
    /\ UNCHANGED <<memory, neo4j, calls, dropped>>

\* The server stops, and with it what is only in memory.
Stop ==
    /\ memory' = NoGraph
    /\ thread' = [h \in Threads |-> Free]
    /\ Drop
    /\ Miss(Threads)
    /\ UNCHANGED <<neo4j, calls>>

GraphNext ==
    \/ \E h \in Threads :
         \/ WriteGraph(h) \/ LoadCase(h) \/ ReadGraph(h)
         \/ MissGraph(h) \/ CreateGraph(h) \/ ResetMemory(h) \/ CallMemory(h) \/ CallRaises(h)
         \/ FindDatabase(h) \/ MissDatabase(h) \/ RunStatement(h) \/ StatementFails(h)
    \/ Stop

GraphSpec == GraphInit /\ [][GraphNext]_graphVars

-----------------------------------------------------------------------------
\* The memory is written first: a node or a related pair that the database
\* reports is in memory too, or the memory has lost it since (to a reset, a
\* graph created over another, a restart).  In every state, with any number of
\* writers on their way, after every error and exception.
StoredIsInMemory ==
    /\ StoredNodes \subseteq Graph.node \cup dropped.node
    /\ \A x \in StoredEdges : <<x.from, x.to>> \in DOMAIN Graph.edge \cup dropped.edge

\* "Synchronizes simultaneously with Neo4j and NetworkX" (build_graph.py 50): a
\* node in memory, or the relation that the memory has of a pair, is in the
\* database, or a thread still has the statement for it, or that statement never
\* ran (no database, an error, an exception, a restart) or was undone by a
\* rebuild.  Nothing is left out silently but visited pages, which are in memory
\* only.
InMemoryIsStored ==
    LET nodes == StoredNodes \cup missed.node
                   \cup UNION {ToStore(thread[h].statements) : h \in Threads}
        edges == StoredEdges \cup missed.edge
                   \cup UNION {ToRelate(thread[h].statements) : h \in Threads}
    IN  /\ \A n \in Graph.node \ nodes :
              <<n, CaseNode>> \in DOMAIN Graph.edge /\ Graph.edge[<<n, CaseNode>>] = "BROWSED"
        /\ \A e \in DOMAIN Graph.edge :
              Graph.edge[e] = "BROWSED" \/ Edge(e[1], e[2], Graph.edge[e]) \in edges

=============================================================================
