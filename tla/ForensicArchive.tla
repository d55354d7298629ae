--------------------------- MODULE ForensicArchive ---------------------------
(***************************************************************************)
(* What forensics/zip_ingest.py reads out of a forensic archive, with the  *)
(* normalizers of forensics/normalizers.py: the artifacts and entities     *)
(* that are then stored (module Ingestion) and loaded into the graph       *)
(* (module DualGraph).                                                     *)
(*                                                                         *)
(* An archive is a sequence of members [name, dir, rows].  A row is a pair *)
(* of its two identifying columns, whatever they are called in the file,   *)
(* and Absent where a column is missing or blank:                          *)
(*    entities.csv  id, name           calls.csv, chats.csv  two parties   *)
(*    files.csv     owner, receiver    locations.csv         id, position  *)
(*    browser_history.csv  id, url                                         *)
(* A coordinate that is missing is read as 0, so that a position without   *)
(* both is the Origin.  Sizes, flags, hashes and the other columns are     *)
(* left out.                                                               *)
(*                                                                         *)
(* The same pings may come in a bundle, where forensics/co_location.py     *)
(* looks for the pairs that are near each other.                           *)
(***************************************************************************)
EXTENDS Integers, Sequences, SequencesExt

CONSTANTS
    Near    \* <<p, q>>: positions within co_location_threshold_km, symmetric

Absent == "absent"
Origin == "0, 0"
NoParty == "UNKNOWN"        \* never made an entity

Artifact(type, a, b) == [type |-> type, ends |-> {a, b} \ {Absent}]

-----------------------------------------------------------------------------
(* Unpacking                                                                *)

\* Members are filed by their lower-case base name: of several directories
\* the last member of a name is the one that is read.
Extracted(archive, name) ==
    LET last == SelectLastInSeq(archive, LAMBDA m : m.name = name) IN
    IF last = 0 THEN <<>> ELSE archive[last].rows

Recognized == {"entities.csv", "calls.csv", "chats.csv", "files.csv",
               "locations.csv", "browser_history.csv", "fir.txt"}

\* An archive without any known file is refused.
Readable(archive) == \E m \in ToSet(archive) : m.name \in Recognized

-----------------------------------------------------------------------------
(* Normalizing: the rows that are complete become artifacts, one by one     *)

Complete(rows) == SelectSeq(rows, LAMBDA r : Absent \notin {r[1], r[2]})

Owned(rows) == SelectSeq(rows, LAMBDA r : r[1] # Absent)

normalize_calls_csv(rows) ==
    [i \in DOMAIN Complete(rows) |->
        Artifact("call", Complete(rows)[i][1], Complete(rows)[i][2])]

normalize_chats_csv(rows) ==
    [i \in DOMAIN Complete(rows) |->
        Artifact("chat", Complete(rows)[i][1], Complete(rows)[i][2])]

normalize_files_csv(rows) ==
    [i \in DOMAIN Owned(rows) |->
        Artifact("file_artifact", Owned(rows)[i][1], Owned(rows)[i][2])]

normalize_browser_history_csv(rows) ==
    [i \in DOMAIN Complete(rows) |->
        Artifact("browser_history", Complete(rows)[i][1], Absent)]

\* A ping without an id or at the origin is left out.
Located(rows) == SelectSeq(rows, LAMBDA r : r[1] # Absent /\ r[2] # Origin)


\* An artifact for each two pings that are near each other, at whatever time.
CoLocated(pings) ==
    LET pairs == {p \in (DOMAIN pings) \X (DOMAIN pings) :
                     /\ p[1] < p[2]
                     /\ pings[p[1]][1] # pings[p[2]][1]
                     /\ <<pings[p[1]][2], pings[p[2]][2]>> \in Near}
    IN  {Artifact("co_located", pings[p[1]][1], pings[p[2]][1]) : p \in pairs}

normalize_locations_csv(rows) ==
    LET pings == Located(rows) IN
    [i \in DOMAIN pings |-> Artifact("location_ping", pings[i][1], Absent)]
    \o SetToSeq(CoLocated(pings))

\* The ids; a row without a name is named after its id.
normalize_entities_csv(rows) == {r[1] : r \in ToSet(Owned(rows))}

-----------------------------------------------------------------------------
(* Processing                                                               *)

Artifacts(archive) ==
    normalize_calls_csv(Extracted(archive, "calls.csv"))
    \o normalize_chats_csv(Extracted(archive, "chats.csv"))
    \o normalize_files_csv(Extracted(archive, "files.csv"))
    \o normalize_locations_csv(Extracted(archive, "locations.csv"))
    \o normalize_browser_history_csv(Extracted(archive, "browser_history.csv"))

Listed(archive) == normalize_entities_csv(Extracted(archive, "entities.csv"))

\* Those listed, and every party of an artifact.
Entities(archive) ==
    Listed(archive) \cup ((UNION {a.ends : a \in ToSet(Artifacts(archive))}) \ {NoParty})

-----------------------------------------------------------------------------
(* The pings of a bundle                                                    *)

\* A ping without an id is of "Unknown", one without coordinates at the origin.
BundlePings(rows) ==
    [i \in DOMAIN rows |-> <<IF rows[i][1] = Absent THEN "Unknown" ELSE rows[i][1], rows[i][2]>>]

\* The pairs for which a co-location alert is raised.
detect_co_locations(pings) ==
    {{pings[p[1]][1], pings[p[2]][1]} :
        p \in {q \in (DOMAIN pings) \X (DOMAIN pings) :
                  /\ q[1] < q[2]
                  /\ pings[q[1]][1] # pings[q[2]][1]
                  /\ <<pings[q[1]][2], pings[q[2]][2]>> \in Near}}

=============================================================================
