--------------------------- MODULE ReferenceEngine ---------------------------
(***************************************************************************)
(* The graph engine of the older reference application                     *)
(* (services/graph_engine.py) and the check of an uploaded case            *)
(* (routes/api.py).                                                        *)
(*                                                                         *)
(* An artifact is [type, a, b, id, time, place]: b is Absent in artifacts  *)
(* of one entity, time is in minutes, NoTime where it is missing or is not *)
(* a time.  Positions are places with a distance.  An edge of the multi-   *)
(* graph is [ends, key, kind].                                             *)
(***************************************************************************)
EXTENDS Integers, Sequences, FiniteSets, SequencesExt

CONSTANTS
    MaxMinutes,     \* the window of _add_colocation_edges
    CloseTo         \* <<p, q>>: places within max_distance_km, symmetric

Absent == "absent"
NoTime == -1

-----------------------------------------------------------------------------
\* _validate_case_payload, on a sequence of entity ids.  One absent id passes its
\* count, but networkx then refuses a node None, and the upload is refused too.
Valid(ids) ==
    /\ ids # <<>>
    /\ Absent \notin ToSet(ids)
    /\ Cardinality(ToSet(ids)) = Len(ids)

Kind ==
    [call |-> "call", chat |-> "chat", file_artifact |-> "file_transfer"]

\* _add_edge: an edge of the key between the same ends is overwritten.
AddEdge(edges, entities, e) ==
    IF ~ (e.ends \subseteq entities) \/ Cardinality(e.ends) # 2 THEN edges
    ELSE {f \in edges : <<f.ends, f.key>> # <<e.ends, e.key>>} \cup {e}

AddEdges(edges, entities, new) ==
    FoldLeft(LAMBDA es, e : AddEdge(es, entities, e), edges, new)

\* _build_graph: calls, chats and transfers; a file that nobody received has
\* no edge, as nobody is not an entity.
BuildGraph(entities, artifacts) ==
    FoldLeft(LAMBDA es, x :
                 IF x.type \notin DOMAIN Kind THEN es
                 ELSE AddEdge(es, entities, [ends |-> {x.a, x.b}, key |-> <<x.id>>,
                                             kind |-> Kind[x.type]]),
             {}, artifacts)

\* Where the pings that have a time stand among the artifacts.
Pings(artifacts) ==
    {i \in DOMAIN artifacts :
        artifacts[i].type = "location_ping" /\ artifacts[i].time # NoTime}

\* Mutant of Sorted: the pings are taken as they are stored.
AsStored(artifacts) ==
    LET P == Pings(artifacts) IN
    [k \in 1..Cardinality(P) |->
        artifacts[CHOOSE i \in P : Cardinality({j \in P : j <= i}) = k]]

\* The pings in the order of time; those of one time keep their order.
Sorted(artifacts) ==
    LET P == Pings(artifacts)
        earlier == {p \in P \X P :
                       \/ artifacts[p[1]].time < artifacts[p[2]].time
                       \/ artifacts[p[1]].time = artifacts[p[2]].time /\ p[1] < p[2]}
        place == [i \in P |-> 1 + Cardinality({j \in P : <<j, i>> \in earlier})]
    IN  [k \in 1..Cardinality(P) |-> artifacts[CHOOSE i \in P : place[i] = k]]

\* The inner loop of the sweep ends at the first ping outside the window.
WithinReach(pings, i, j) ==
    /\ i < j
    /\ \A k \in i + 1 .. j : LET dt == pings[k].time - pings[i].time IN
           (IF dt < 0 THEN -dt ELSE dt) <= MaxMinutes

\* _add_colocation_edges
AddColocationEdges(edges, entities, artifacts) ==
    LET pings == Sorted(artifacts)
        found == {p \in (DOMAIN pings) \X (DOMAIN pings) :
                     /\ WithinReach(pings, p[1], p[2])
                     /\ pings[p[1]].a # pings[p[2]].a
                     /\ <<pings[p[1]].place, pings[p[2]].place>> \in CloseTo}
    IN  AddEdges(edges, entities,
            SetToSeq({[ends |-> {pings[p[1]].a, pings[p[2]].a},
                       key |-> <<pings[p[1]].id, pings[p[2]].id>>,
                       kind |-> "colocation"] : p \in found}))

\* The edges of an engine that has been built.
Edges(entities, artifacts) ==
    AddColocationEdges(BuildGraph(entities, artifacts), entities, artifacts)

=============================================================================
