---------------------------- MODULE CaseFileProofs ----------------------------
(***************************************************************************)
(* Proofs about cases and evidence, for any number of handlers, cases,     *)
(* files and requests.  Types first, which also say what a handler carries *)
(* from one commit to the next; then that a case is created once, and that *)
(* the status of a case and the rows of the evidence are accounted for.    *)
(***************************************************************************)
EXTENDS CaseFile, CaseAnalysis, TLAPS, FiniteSetTheorems, WellFoundedInduction

-----------------------------------------------------------------------------
\* What a handler carries, by the place where it is.
LEMMA Carried ==
    ASSUME NEW k \in HandlerStates
    PROVE  /\ k.at = "insert" => k.case \in Cases /\ k.route \in {"create", "upload"}
           /\ k.at = "created" => k.case \in Cases
           /\ k.at = "update" => k.case \in Cases /\ k.old \in CaseStatus /\ k.new \in CaseStatus
           /\ k.at = "record" =>
                 \/ k.event \in Changes /\ k.then = "audit"
                 \/ k.event \in EvidenceEvents /\ k.then = "end"
           /\ k.at = "audit" => k.event \in Changes \cup Creations
           /\ k.at = "row" => k.evidence \in Evidence
           /\ k.at \in {"look", "read"} => k.evidence \in Evidence /\ k.loaded \in IntegrityStatus
           /\ k.at = "verdict" =>
                 /\ k.evidence \in Evidence
                 /\ k.loaded \in IntegrityStatus
                 /\ \/ k.action = "VERIFIED" /\ k.status = "VERIFIED"
                    \/ k.action \in {"COMPROMISED", "FILE_MISSING"} /\ k.status = "COMPROMISED"
  BY DEF HandlerStates

LEMMA TypeStep == TypeOK /\ [Next]_vars => TypeOK'
<1> SUFFICES ASSUME TypeOK, [Next]_vars PROVE TypeOK'
  OBVIOUS
<1> USE DEF TypeOK
<1>1. CASE UNCHANGED vars
  BY <1>1 DEF vars
<1>2. ASSUME NEW h \in Handlers, NEW c \in Cases, FindNoCase(h, c) PROVE TypeOK'
  BY <1>2 DEF FindNoCase, Start, caseVars, evidenceVars, HandlerStates
<1>3. ASSUME NEW h \in Handlers, NEW c \in Cases, NEW new \in CaseStatus, LoadCase(h, c, new)
      PROVE  TypeOK'
  BY <1>3 DEF LoadCase, Start, caseVars, evidenceVars, HandlerStates
<1>4. ASSUME NEW h \in Handlers, NEW e \in Evidence, StoreFile(h, e) PROVE TypeOK'
  BY <1>4 DEF StoreFile, Start, caseVars, HandlerStates
<1>5. ASSUME NEW h \in Handlers, NEW e \in Evidence, LoadEvidence(h, e) PROVE TypeOK'
  BY <1>5 DEF LoadEvidence, Start, caseVars, evidenceVars, HandlerStates
<1>6. ASSUME NEW h \in Handlers, InsertCase(h) PROVE TypeOK'
  BY <1>6, Carried DEF InsertCase, Go, Idle, evidenceVars, HandlerStates, CaseStatus
<1>7. ASSUME NEW h \in Handlers, LogCreated(h) PROVE TypeOK'
  BY <1>7, Carried DEF LogCreated, Go, evidenceVars, HandlerStates, Creations
<1>8. ASSUME NEW h \in Handlers, CommitStatus(h) PROVE TypeOK'
  BY <1>8, Carried DEF CommitStatus, Go, evidenceVars, HandlerStates, Changed, Changes
<1>9. ASSUME NEW h \in Handlers, InsertEvidence(h) PROVE TypeOK'
  BY <1>9, Carried
  DEF InsertEvidence, Go, caseVars, HandlerStates, EvidenceEvents, IntegrityStatus
<1>10. ASSUME NEW h \in Handlers, LookForFile(h) PROVE TypeOK'
  BY <1>10, Carried DEF LookForFile, Judge, Go, caseVars, HandlerStates
<1>11. ASSUME NEW h \in Handlers, ReadFile(h) PROVE TypeOK'
  BY <1>11, Carried DEF ReadFile, Judge, Go, caseVars, HandlerStates
<1>12. ASSUME NEW h \in Handlers, CommitVerdict(h) PROVE TypeOK'
  BY <1>12, Carried
  DEF CommitVerdict, Go, caseVars, HandlerStates, EvidenceEvents, IntegrityStatus
<1>13. ASSUME NEW h \in Handlers, Record(h) PROVE TypeOK'
  BY <1>13, Carried DEF Record, Go, Idle, caseVars, evidenceVars, HandlerStates
<1>14. ASSUME NEW h \in Handlers, Audit(h) PROVE TypeOK'
  BY <1>14, Carried DEF Audit, Go, Idle, evidenceVars, HandlerStates
<1>15. ASSUME NEW h \in Handlers, Fail(h) PROVE TypeOK'
  BY <1>15, Carried
  DEF Fail, Go, Idle, caseVars, evidenceVars, HandlerStates, Creations
<1>16. ASSUME NEW e \in Evidence, NEW to \in {"intact", "altered", "removed"}, Disturb(e, to)
       PROVE  TypeOK'
  BY <1>16 DEF Disturb, caseVars
<1> QED
  BY <1>1, <1>2, <1>3, <1>4, <1>5, <1>6, <1>7, <1>8, <1>9, <1>10, <1>11, <1>12, <1>13,
     <1>14, <1>15, <1>16 DEF Next

\* Rows, files, records and handlers keep their types.
THEOREM TypeCorrect == Spec => []TypeOK
<1>1. Init => TypeOK
  BY DEF Init, TypeOK, Idle, HandlerStates
<1> QED
  BY <1>1, TypeStep, PTL DEF Spec

-----------------------------------------------------------------------------
Creator(h, c) == handler[h].at = "created" /\ handler[h].case = c

\* A creator is past the INSERT of the row, and has not written its record.
Creation ==
    \A c \in Cases :
        /\ cases[c] = "none" => created[c] = 0 /\ \A h \in Handlers : ~Creator(h, c)
        /\ created[c] \in {0, 1}
        /\ created[c] = 1 => \A h \in Handlers : ~Creator(h, c)
        /\ \A g, h \in Handlers : Creator(g, c) /\ Creator(h, c) => g = h

LEMMA CreationStep == TypeOK /\ Creation /\ [Next]_vars => Creation'
<1> SUFFICES ASSUME TypeOK, Creation, [Next]_vars PROVE Creation'
  OBVIOUS
<1> USE DEF Creation, Creator, TypeOK
<1>1. CASE UNCHANGED vars
  BY <1>1 DEF vars
<1>2. ASSUME NEW h \in Handlers, InsertCase(h) PROVE Creation'
  BY <1>2, Carried DEF InsertCase, Go, Idle
<1>3. ASSUME NEW h \in Handlers, LogCreated(h) PROVE Creation'
  BY <1>3, Carried DEF LogCreated, Go
<1>4. ASSUME NEW h \in Handlers, CommitStatus(h) PROVE Creation'
  <2>1. /\ handler[h].new # "none"
        /\ \A c \in Cases : cases'[c] = "none" => cases[c] = "none"
    BY <1>4, Carried DEF CommitStatus, CaseStatus
  <2> QED
    BY <1>4, <2>1, Carried DEF CommitStatus, Go
<1>5. ASSUME NEW h \in Handlers, NEW k, k.at # "created",
             handler' = [handler EXCEPT ![h] = k], UNCHANGED <<cases, created>>
      PROVE  Creation'
  BY <1>5
<1>6. ASSUME NEW e \in Evidence, NEW to, Disturb(e, to) PROVE Creation'
  BY <1>6 DEF Disturb, caseVars
<1>7. ASSUME NEW h \in Handlers, NEW c \in Cases, FindNoCase(h, c) PROVE Creation'
  BY <1>7, <1>5 DEF FindNoCase, Start, caseVars
<1>8. ASSUME NEW h \in Handlers, NEW c \in Cases, NEW new \in CaseStatus, LoadCase(h, c, new)
      PROVE  Creation'
  BY <1>8, <1>5 DEF LoadCase, Start, caseVars
<1>9. ASSUME NEW h \in Handlers, NEW e \in Evidence, StoreFile(h, e) \/ LoadEvidence(h, e)
      PROVE  Creation'
  BY <1>9, <1>5 DEF StoreFile, LoadEvidence, Start, caseVars
<1>10. ASSUME NEW h \in Handlers,
              \/ InsertEvidence(h) \/ LookForFile(h) \/ ReadFile(h) \/ CommitVerdict(h)
              \/ Record(h) \/ Audit(h) \/ Fail(h)
       PROVE  Creation'
  <2>1. \/ \E k : k.at # "created" /\ handler' = [handler EXCEPT ![h] = k]
        \/ UNCHANGED handler
    BY <1>10 DEF InsertEvidence, LookForFile, ReadFile, CommitVerdict, Record, Audit, Fail,
        Judge, Go, Idle
  <2>2. UNCHANGED <<cases, created>>
    BY <1>10 DEF InsertEvidence, LookForFile, ReadFile, CommitVerdict, Record, Audit, Fail,
        caseVars
  <2> QED
    BY <1>5, <2>1, <2>2
<1> QED
  BY <1>1, <1>2, <1>3, <1>4, <1>6, <1>7, <1>8, <1>9, <1>10 DEF Next

\* At most one of any number of creators of a case number is recorded, and only
\* with the row.
THEOREM CasesAreCreatedOnce == Spec => []CreatedOnce
<1>1. Init => Creation
  BY DEF Init, Creation, Creator, Idle
<1>2. TypeOK /\ Creation => CreatedOnce
  BY DEF TypeOK, Creation, Creator, CreatedOnce, At
<1> QED
  BY <1>1, <1>2, CreationStep, TypeCorrect, PTL DEF Spec

-----------------------------------------------------------------------------
\* What is on record, about to be, or lost stays so: a handler at "record"
\* writes its record or fails.
LEMMA AccountedGrows == TypeOK /\ [Next]_vars => Accounted \subseteq Accounted'
<1> SUFFICES ASSUME TypeOK, [Next]_vars PROVE Accounted \subseteq Accounted'
  OBVIOUS
<1>1. /\ custody \subseteq custody'
      /\ lost \subseteq lost'
      /\ \A h \in Handlers : handler[h].at = "record" =>
            \/ handler'[h] = handler[h]
            \/ handler[h].event \in custody' \cup lost'
  <2> USE DEF TypeOK
  <2>1. CASE UNCHANGED vars
    BY <2>1 DEF vars
  <2>2. ASSUME NEW h \in Handlers, NEW c \in Cases, FindNoCase(h, c) PROVE <1>1!:
    BY <2>2 DEF FindNoCase, Start, Idle
  <2>3. ASSUME NEW h \in Handlers, NEW c \in Cases, NEW new \in CaseStatus, LoadCase(h, c, new)
        PROVE  <1>1!:
    BY <2>3 DEF LoadCase, Start, Idle
  <2>4. ASSUME NEW h \in Handlers, NEW e \in Evidence, StoreFile(h, e) \/ LoadEvidence(h, e)
        PROVE  <1>1!:
    BY <2>4 DEF StoreFile, LoadEvidence, Start, Idle
  <2>5. ASSUME NEW h \in Handlers,
               \/ InsertCase(h) \/ LogCreated(h) \/ CommitStatus(h) \/ InsertEvidence(h)
               \/ LookForFile(h) \/ ReadFile(h) \/ CommitVerdict(h) \/ Audit(h)
        PROVE  <1>1!:
    <3>1. /\ handler[h].at # "record"
          /\ \A g \in Handlers \ {h} : handler'[g] = handler[g]
      BY <2>5 DEF InsertCase, LogCreated, CommitStatus, InsertEvidence, LookForFile, ReadFile,
          CommitVerdict, Audit, Judge, Go
    <3>2. UNCHANGED <<custody, lost>>
      BY <2>5 DEF InsertCase, LogCreated, CommitStatus, InsertEvidence, LookForFile, ReadFile,
          CommitVerdict, Audit
    <3> QED
      BY <3>1, <3>2
  <2>6. ASSUME NEW h \in Handlers, Record(h) PROVE <1>1!:
    BY <2>6 DEF Record, Go
  <2>7. ASSUME NEW h \in Handlers, Fail(h) PROVE <1>1!:
    BY <2>7 DEF Fail, Go
  <2>8. ASSUME NEW e \in Evidence, NEW to, Disturb(e, to) PROVE <1>1!:
    BY <2>8 DEF Disturb
  <2> QED
    BY <2>1, <2>2, <2>3, <2>4, <2>5, <2>6, <2>7, <2>8 DEF Next
<1> QED
  BY <1>1 DEF Accounted, At

-----------------------------------------------------------------------------
LEMMA StatusStep ==
    TypeOK /\ StatusIsAccountedFor /\ [Next]_vars => StatusIsAccountedFor'
<1> SUFFICES ASSUME TypeOK, StatusIsAccountedFor, [Next]_vars PROVE StatusIsAccountedFor'
  OBVIOUS
<1>1. Accounted \subseteq Accounted'
  BY AccountedGrows
<1>2. ASSUME NEW h \in Handlers, CommitStatus(h) PROVE StatusIsAccountedFor'
  <2> DEFINE k == handler[h]
  <2>1. /\ k.case \in Cases /\ k.old \in CaseStatus
        /\ cases' = [cases EXCEPT ![k.case] = IF k.new = k.old THEN @ ELSE k.new]
    BY <1>2, Carried DEF CommitStatus, TypeOK
  <2>2. handler'[h] = [at |-> "record", event |-> Changed(k), then |-> "audit"]
    BY <1>2 DEF CommitStatus, Go, TypeOK
  <2>3. <<"STATUS", k.case, k.old, k.new>> \in Accounted'
    BY <2>2 DEF Accounted, At, Changed
  <2> QED
    BY <1>1, <2>1, <2>3 DEF StatusIsAccountedFor, TypeOK
<1>3. ASSUME NEW h \in Handlers, InsertCase(h) PROVE StatusIsAccountedFor'
  BY <1>1, <1>3 DEF InsertCase, StatusIsAccountedFor, TypeOK
<1>4. CASE UNCHANGED cases
  BY <1>1, <1>4 DEF StatusIsAccountedFor
<1> QED
  BY <1>2, <1>3, <1>4
  DEF Next, vars, FindNoCase, LoadCase, StoreFile, LoadEvidence, LogCreated, InsertEvidence,
      LookForFile, ReadFile, CommitVerdict, Record, Audit, Fail, Disturb, caseVars

\* The status of a case is one that a change on record, or lost with its
\* handler, has put there.
THEOREM StatusesAreAccountedFor == Spec => []StatusIsAccountedFor
<1>1. Init => StatusIsAccountedFor
  BY DEF Init, StatusIsAccountedFor
<1> QED
  BY <1>1, StatusStep, TypeCorrect, PTL DEF Spec

-----------------------------------------------------------------------------
\* A handler that is to insert the row of a file has stored it, and one that
\* verifies has loaded the row.
Founded ==
    \A h \in Handlers :
        /\ handler[h].at = "row" => file[handler[h].evidence] # "none"
        /\ handler[h].at \in {"look", "read", "verdict"} => evidence[handler[h].evidence] # "none"

EvidenceInv == TypeOK /\ Founded /\ EvidenceIsAccountedFor

LEMMA FoundedStep == TypeOK /\ Founded /\ [Next]_vars => Founded'
<1> SUFFICES ASSUME TypeOK, Founded, [Next]_vars PROVE Founded'
  OBVIOUS
<1> USE DEF TypeOK, Founded
<1>1. /\ \A e \in Evidence : file[e] # "none" => file'[e] # "none"
      /\ \A e \in Evidence : evidence[e] # "none" => evidence'[e] # "none"
  <2>1. ASSUME NEW h \in Handlers, InsertEvidence(h) PROVE <1>1!:
    BY <2>1, Carried DEF InsertEvidence
  <2>2. ASSUME NEW h \in Handlers, CommitVerdict(h) PROVE <1>1!:
    BY <2>2, Carried DEF CommitVerdict
  <2>3. ASSUME NEW h \in Handlers, NEW e \in Evidence, StoreFile(h, e) PROVE <1>1!:
    BY <2>3 DEF StoreFile
  <2>4. ASSUME NEW e \in Evidence, NEW to \in {"intact", "altered", "removed"}, Disturb(e, to)
        PROVE  <1>1!:
    BY <2>4 DEF Disturb
  <2>5. CASE UNCHANGED <<file, evidence>>
    BY <2>5
  <2> QED
    BY <2>1, <2>2, <2>3, <2>4, <2>5
    DEF Next, vars, FindNoCase, LoadCase, LoadEvidence, InsertCase, LogCreated, CommitStatus,
        LookForFile, ReadFile, Record, Audit, Fail, evidenceVars
<1>2. ASSUME NEW h \in Handlers, handler[h] \in HandlerStates
      PROVE  handler[h].at \in {"row", "look", "read", "verdict"}
                => handler[h].evidence \in Evidence
  BY <1>2, Carried
<1>3. CASE UNCHANGED handler
  BY <1>1, <1>2, <1>3
<1>4. ASSUME NEW h \in Handlers, NEW k, handler' = [handler EXCEPT ![h] = k],
             k.at \notin {"row", "look", "read", "verdict"}
      PROVE  Founded'
  BY <1>1, <1>2, <1>4
<1>5. ASSUME NEW h \in Handlers, NEW e \in Evidence, StoreFile(h, e) PROVE Founded'
  BY <1>1, <1>2, <1>5 DEF StoreFile, Start
<1>6. ASSUME NEW h \in Handlers, NEW e \in Evidence, LoadEvidence(h, e) PROVE Founded'
  BY <1>1, <1>2, <1>6 DEF LoadEvidence, Start
<1>7. ASSUME NEW h \in Handlers, LookForFile(h) \/ ReadFile(h) PROVE Founded'
  <2>1. /\ handler[h].at \in {"look", "read"}
        /\ \E k : /\ handler' = [handler EXCEPT ![h] = k]
                  /\ k.at \in {"read", "verdict"}
                  /\ k.evidence = handler[h].evidence
    BY <1>7 DEF LookForFile, ReadFile, Judge, Go
  <2> QED
    BY <1>1, <1>2, <2>1
<1>8. ASSUME NEW h \in Handlers,
             \/ InsertCase(h) \/ LogCreated(h) \/ CommitStatus(h) \/ InsertEvidence(h)
             \/ CommitVerdict(h) \/ Record(h) \/ Audit(h) \/ Fail(h)
      PROVE  Founded'
  <2>1. \E k : /\ handler' = [handler EXCEPT ![h] = k]
              /\ k.at \notin {"row", "look", "read", "verdict"}
    BY <1>8 DEF InsertCase, LogCreated, CommitStatus, InsertEvidence, CommitVerdict, Record,
        Audit, Fail, Go, Idle
  <2> QED
    BY <1>4, <2>1
<1>9. ASSUME NEW h \in Handlers, NEW c \in Cases, FindNoCase(h, c) PROVE Founded'
  BY <1>4, <1>9 DEF FindNoCase, Start
<1>10. ASSUME NEW h \in Handlers, NEW c \in Cases, NEW new \in CaseStatus, LoadCase(h, c, new)
       PROVE  Founded'
  BY <1>4, <1>10 DEF LoadCase, Start
<1> QED
  BY <1>3, <1>5, <1>6, <1>7, <1>8, <1>9, <1>10 DEF Next, vars, Disturb

\* The state of one piece of evidence is accounted for.
IsAccountedFor(e) ==
    /\ evidence[e] # "none" => file[e] # "none" /\ <<"UPLOADED", e>> \in Accounted
    /\ (file[e] # "none" /\ evidence[e] = "none") =>
          \/ \E h \in At("row") : handler[h].evidence = e
          \/ <<"STORED", e>> \in lost
    /\ evidence[e] = "COMPROMISED" =>
          {<<"COMPROMISED", e>>, <<"FILE_MISSING", e>>} \cap Accounted # {}

LEMMA EvidenceStep == EvidenceInv /\ [Next]_vars => EvidenceInv'
<1> SUFFICES ASSUME EvidenceInv, [Next]_vars, NEW e \in Evidence PROVE IsAccountedFor(e)'
  BY TypeStep, FoundedStep DEF EvidenceInv, EvidenceIsAccountedFor, IsAccountedFor
<1> USE DEF EvidenceInv
<1>1. IsAccountedFor(e)
  BY DEF EvidenceIsAccountedFor, IsAccountedFor
<1>2. Accounted \subseteq Accounted' /\ lost \subseteq lost'
  <2>1. lost \subseteq lost'
    BY DEF Next, vars, FindNoCase, LoadCase, StoreFile, LoadEvidence, InsertCase, LogCreated,
        CommitStatus, InsertEvidence, LookForFile, ReadFile, CommitVerdict, Record, Audit, Fail,
        Disturb
  <2> QED
    BY <2>1, AccountedGrows
<1>3. ASSUME NEW h \in Handlers, InsertEvidence(h), handler[h].evidence = e
      PROVE  IsAccountedFor(e)'
  <2>1. /\ evidence'[e] = "VERIFIED"
        /\ file'[e] = file[e] /\ file[e] # "none"
        /\ handler'[h] = [at |-> "record", event |-> <<"UPLOADED", e>>, then |-> "end"]
    BY <1>3 DEF InsertEvidence, Go, TypeOK, Founded
  <2>2. <<"UPLOADED", e>> \in Accounted'
    BY <2>1 DEF Accounted, At
  <2> QED
    BY <2>1, <2>2 DEF IsAccountedFor
<1>4. ASSUME NEW h \in Handlers, CommitVerdict(h), handler[h].evidence = e
      PROVE  IsAccountedFor(e)'
  <2> DEFINE k == handler[h]
  <2>1. /\ k.at = "verdict"
        /\ \/ k.action = "VERIFIED" /\ k.status = "VERIFIED"
           \/ k.action \in {"COMPROMISED", "FILE_MISSING"} /\ k.status = "COMPROMISED"
    BY <1>4, Carried DEF CommitVerdict, TypeOK
  <2>2. /\ evidence[e] # "none"
        /\ file'[e] = file[e]
        /\ evidence'[e] \in {evidence[e], k.status}
        /\ handler'[h] = [at |-> "record", event |-> <<k.action, e>>, then |-> "end"]
    BY <1>4, <2>1 DEF CommitVerdict, Go, TypeOK, Founded
  <2>3. <<k.action, e>> \in Accounted'
    BY <2>2 DEF Accounted, At
  <2> QED
    BY <1>1, <1>2, <2>1, <2>2, <2>3 DEF IsAccountedFor
<1>5. ASSUME NEW h \in Handlers, StoreFile(h, e) PROVE IsAccountedFor(e)'
  <2>1. /\ evidence'[e] = "none"
        /\ handler'[h] = [at |-> "row", evidence |-> e]
    BY <1>1, <1>5 DEF StoreFile, Start, TypeOK, IsAccountedFor
  <2>2. h \in At("row")' /\ handler'[h].evidence = e
    BY <2>1 DEF At
  <2> QED
    BY <2>1, <2>2 DEF IsAccountedFor
<1>6. ASSUME evidence'[e] = evidence[e], file'[e] # "none" => file[e] # "none",
             file[e] # "none" => file'[e] # "none",
             \A h \in Handlers : handler[h].at = "row" /\ handler[h].evidence = e =>
                handler'[h] = handler[h] \/ <<"STORED", e>> \in lost'
      PROVE  IsAccountedFor(e)'
  BY <1>1, <1>2, <1>6 DEF IsAccountedFor, At
<1>7. ASSUME NEW h \in Handlers, NEW k, handler' = [handler EXCEPT ![h] = k],
             handler[h].at = "row" => handler[h].evidence # e,
             evidence'[e] = evidence[e], file'[e] = file[e]
      PROVE  IsAccountedFor(e)'
  BY <1>6, <1>7 DEF TypeOK
<1>8. ASSUME NEW h \in Handlers, InsertEvidence(h) \/ CommitVerdict(h), handler[h].evidence # e
      PROVE  IsAccountedFor(e)'
  BY <1>7, <1>8, Carried DEF InsertEvidence, CommitVerdict, Go, TypeOK
<1>9. ASSUME NEW h \in Handlers, Fail(h) PROVE IsAccountedFor(e)'
  <2>1. /\ UNCHANGED <<evidence, file>>
        /\ \A g \in Handlers \ {h} : handler'[g] = handler[g]
        /\ handler[h].at = "row" => <<"STORED", handler[h].evidence>> \in lost'
    BY <1>9 DEF Fail, Go, evidenceVars, TypeOK
  <2> QED
    BY <1>6, <2>1
<1>10. ASSUME NEW h \in Handlers,
              \/ InsertCase(h) \/ LogCreated(h) \/ CommitStatus(h) \/ LookForFile(h)
              \/ ReadFile(h) \/ Record(h) \/ Audit(h)
       PROVE  IsAccountedFor(e)'
  <2>1. /\ handler[h].at # "row"
        /\ \E k : handler' = [handler EXCEPT ![h] = k]
    BY <1>10 DEF InsertCase, LogCreated, CommitStatus, LookForFile, ReadFile, Record, Audit,
        Judge, Go
  <2>2. UNCHANGED <<evidence, file>>
    BY <1>10 DEF InsertCase, LogCreated, CommitStatus, LookForFile, ReadFile, Record, Audit,
        evidenceVars
  <2> QED
    BY <1>7, <2>1, <2>2
<1>11. ASSUME NEW h \in Handlers, NEW k, Start(h, k),
              evidence'[e] = evidence[e], file'[e] = file[e]
       PROVE  IsAccountedFor(e)'
  <2>1. handler[h].at = "idle" /\ handler' = [handler EXCEPT ![h] = k]
    BY <1>11 DEF Start, Idle
  <2> QED
    BY <1>7, <1>11, <2>1
<1>12. ASSUME NEW h \in Handlers, NEW d \in Evidence, StoreFile(h, d), d # e
       PROVE  IsAccountedFor(e)'
  BY <1>11, <1>12 DEF StoreFile, TypeOK
<1>13. ASSUME NEW h \in Handlers, NEW d \in Evidence, LoadEvidence(h, d)
       PROVE  IsAccountedFor(e)'
  BY <1>11, <1>13 DEF LoadEvidence, evidenceVars
<1>14. ASSUME NEW h \in Handlers, NEW c \in Cases, FindNoCase(h, c)
       PROVE  IsAccountedFor(e)'
  BY <1>11, <1>14 DEF FindNoCase, evidenceVars
<1>15. ASSUME NEW h \in Handlers, NEW c \in Cases, NEW new \in CaseStatus, LoadCase(h, c, new)
       PROVE  IsAccountedFor(e)'
  BY <1>11, <1>15 DEF LoadCase, evidenceVars
<1>16. ASSUME NEW d \in Evidence, NEW to \in {"intact", "altered", "removed"}, Disturb(d, to)
       PROVE  IsAccountedFor(e)'
  BY <1>6, <1>16 DEF Disturb, TypeOK
<1>17. CASE UNCHANGED vars
  BY <1>6, <1>17 DEF vars
<1> QED
  BY <1>3, <1>4, <1>5, <1>8, <1>9, <1>10, <1>12, <1>13, <1>14, <1>15, <1>16, <1>17 DEF Next

\* Every row has its file and its upload on record or lost with its handler,
\* every file a row, a handler on its way or one that failed, and no evidence
\* is called compromised without its verification.
THEOREM EvidenceIsKept == Spec => []EvidenceIsAccountedFor
<1>1. Init => EvidenceInv
  BY DEF Init, EvidenceInv, TypeOK, Founded, EvidenceIsAccountedFor, Idle, HandlerStates
<1>2. EvidenceInv => EvidenceIsAccountedFor
  BY DEF EvidenceInv
<1> QED
  BY <1>1, <1>2, EvidenceStep, PTL DEF Spec

-----------------------------------------------------------------------------
\* A row is inserted once, by the handler that stored the file, and nothing is
\* verified before.
RowOnce ==
    /\ \A e \in Evidence : evidence[e] = "none" => seen[e] = "intact"
    /\ \A h \in At("row") : evidence[handler[h].evidence] = "none"
    /\ \A g, h \in At("row") : handler[g].evidence = handler[h].evidence => g = h

\* Of evidence whose verifications neither overlapped nor failed: the only one
\* on its way has loaded the status that is in the row, and its verdict is what
\* it saw; the row says what was seen, unless a verdict is about to replace it.
Latest(e) ==
    /\ \A g, h \in Handlers : Verifying(g, e) /\ Verifying(h, e) => g = h
    /\ \A h \in Handlers : Verifying(h, e) => handler[h].loaded = evidence[e]
    /\ \A h \in Handlers :
          Verifying(h, e) /\ handler[h].at = "verdict"
             => (handler[h].status = "VERIFIED" <=> seen[e] = "intact")
    /\ (evidence[e] # "none"
          /\ ~\E h \in Handlers : Verifying(h, e) /\ handler[h].at = "verdict")
             => (evidence[e] = "VERIFIED" <=> seen[e] = "intact")

VerdictInv ==
    /\ EvidenceInv /\ RowOnce
    /\ \A e \in Evidence : e \notin disputed => Latest(e)

\* A step of a handler that verifies something else, or nothing.
LEMMA LatestElsewhere ==
    ASSUME TypeOK, NEW e \in Evidence, Latest(e), NEW h \in Handlers, NEW k,
           handler' = [handler EXCEPT ![h] = k], ~Verifying(h, e),
           k.at \in {"look", "read", "verdict"} => k.evidence # e,
           evidence'[e] = evidence[e], seen'[e] = seen[e]
    PROVE  Latest(e)'
<1>1. ~Verifying(h, e)'
  BY DEF Verifying, TypeOK
<1>2. \A g \in Handlers \ {h} : handler'[g] = handler[g] /\ (Verifying(g, e)' <=> Verifying(g, e))
  BY DEF Verifying, TypeOK
<1> QED
  BY <1>1, <1>2 DEF Latest

LEMMA RowOnceStep == EvidenceInv /\ RowOnce /\ [Next]_vars => RowOnce'
<1> SUFFICES ASSUME TypeOK, Founded, EvidenceIsAccountedFor, RowOnce, [Next]_vars
             PROVE  RowOnce'
  BY DEF EvidenceInv
<1> USE DEF TypeOK, RowOnce, At
<1>1. ASSUME UNCHANGED <<evidence, handler, seen>> PROVE RowOnce'
  BY <1>1
<1>2. ASSUME NEW h \in Handlers, NEW k, handler' = [handler EXCEPT ![h] = k], k.at # "row",
             UNCHANGED <<evidence, seen>>
      PROVE  RowOnce'
  BY <1>2
<1>3. ASSUME NEW h \in Handlers, NEW e \in Evidence, StoreFile(h, e) PROVE RowOnce'
  <2>1. /\ handler' = [handler EXCEPT ![h] = [at |-> "row", evidence |-> e]]
        /\ UNCHANGED <<evidence, seen>>
    BY <1>3 DEF StoreFile, Start
  <2>2. evidence[e] = "none"
    BY <1>3 DEF StoreFile, EvidenceIsAccountedFor
  <2>3. \A g \in Handlers : handler[g].at = "row" => handler[g].evidence # e
    BY <1>3 DEF StoreFile, Founded
  <2> QED
    BY <2>1, <2>2, <2>3
<1>4. ASSUME NEW h \in Handlers, InsertEvidence(h) PROVE RowOnce'
  <2>1. /\ handler[h].at = "row" /\ handler[h].evidence \in Evidence
        /\ evidence' = [evidence EXCEPT ![handler[h].evidence] = "VERIFIED"]
        /\ seen' = seen
    BY <1>4, Carried DEF InsertEvidence
  <2>2. \E k : k.at = "record" /\ handler' = [handler EXCEPT ![h] = k]
    BY <1>4 DEF InsertEvidence, Go
  <2>3. \A g \in Handlers : handler[g].at = "row" => handler[g].evidence \in Evidence
    BY Carried
  <2> QED
    BY <2>1, <2>2, <2>3
<1>5. ASSUME NEW h \in Handlers, LookForFile(h) \/ ReadFile(h) PROVE RowOnce'
  <2>1. /\ handler[h].evidence \in Evidence
        /\ evidence[handler[h].evidence] # "none"
        /\ evidence' = evidence
        /\ \A e \in Evidence : e # handler[h].evidence => seen'[e] = seen[e]
    BY <1>5, Carried DEF LookForFile, ReadFile, Judge, Founded
  <2>2. \E k : k.at \in {"read", "verdict"} /\ handler' = [handler EXCEPT ![h] = k]
    BY <1>5 DEF LookForFile, ReadFile, Judge, Go
  <2> QED
    BY <2>1, <2>2
<1>6. ASSUME NEW h \in Handlers, CommitVerdict(h) PROVE RowOnce'
  <2>1. /\ handler[h].evidence \in Evidence
        /\ evidence[handler[h].evidence] # "none"
        /\ \A e \in Evidence : e # handler[h].evidence => evidence'[e] = evidence[e]
        /\ seen' = seen
        /\ handler[h].status \in IntegrityStatus
        /\ evidence'[handler[h].evidence] # "none"
    BY <1>6, Carried DEF CommitVerdict, Founded, IntegrityStatus
  <2>2. \E k : k.at = "record" /\ handler' = [handler EXCEPT ![h] = k]
    BY <1>6 DEF CommitVerdict, Go
  <2>3. \A g \in Handlers : handler[g].at = "row" => handler[g].evidence # handler[h].evidence
    BY <2>1
  <2>4. \A g \in Handlers : handler[g].at = "row" => handler[g].evidence \in Evidence
    BY Carried
  <2> QED
    BY <2>1, <2>2, <2>3, <2>4
<1>7. ASSUME NEW h \in Handlers,
             \/ InsertCase(h) \/ LogCreated(h) \/ CommitStatus(h)
             \/ Record(h) \/ Audit(h) \/ Fail(h)
      PROVE  RowOnce'
  <2>1. UNCHANGED <<evidence, seen>>
    BY <1>7 DEF InsertCase, LogCreated, CommitStatus, Record, Audit, Fail, evidenceVars
  <2>2. \E k : k.at # "row" /\ handler' = [handler EXCEPT ![h] = k]
    BY <1>7 DEF InsertCase, LogCreated, CommitStatus, Record, Audit, Fail, Go, Idle
  <2> QED
    BY <1>2, <2>1, <2>2
<1>8. ASSUME NEW h \in Handlers,
             \/ \E c \in Cases : FindNoCase(h, c)
             \/ \E c \in Cases, new \in CaseStatus : LoadCase(h, c, new)
             \/ \E e \in Evidence : LoadEvidence(h, e)
      PROVE  RowOnce'
  <2>1. UNCHANGED <<evidence, seen>>
    BY <1>8 DEF FindNoCase, LoadCase, LoadEvidence, evidenceVars
  <2>2. \E k : k.at # "row" /\ handler' = [handler EXCEPT ![h] = k]
    BY <1>8 DEF FindNoCase, LoadCase, LoadEvidence, Start
  <2> QED
    BY <1>2, <2>1, <2>2
<1> QED
  BY <1>1, <1>3, <1>4, <1>5, <1>6, <1>7, <1>8 DEF Next, vars, Disturb

\* What a step does to the verifications of one piece of evidence.
LEMMA LatestStep ==
    ASSUME VerdictInv, [Next]_vars, NEW e \in Evidence, e \notin disputed'
    PROVE  Latest(e)'
<1> USE DEF TypeOK
<1>1. /\ TypeOK /\ Founded /\ RowOnce
      /\ disputed \subseteq disputed' /\ Latest(e)
  <2>1. disputed \subseteq disputed'
    BY DEF Next, vars, FindNoCase, LoadCase, StoreFile, LoadEvidence, InsertCase, LogCreated,
        CommitStatus, InsertEvidence, LookForFile, ReadFile, CommitVerdict, Record, Audit, Fail,
        Disturb
  <2> QED
    BY <2>1 DEF VerdictInv, EvidenceInv
<1>2. ASSUME UNCHANGED <<evidence, seen, handler>> PROVE Latest(e)'
  BY <1>1, <1>2 DEF Latest, Verifying
<1>3. ASSUME NEW h \in Handlers,
             \/ \E c \in Cases : FindNoCase(h, c)
             \/ \E c \in Cases, new \in CaseStatus : LoadCase(h, c, new)
             \/ \E d \in Evidence : StoreFile(h, d)
             \/ \E d \in Evidence : d # e /\ LoadEvidence(h, d)
             \/ InsertCase(h) \/ LogCreated(h) \/ CommitStatus(h) \/ Record(h) \/ Audit(h)
      PROVE  Latest(e)'
  <2>1. UNCHANGED <<evidence, seen>>
    BY <1>3 DEF FindNoCase, LoadCase, StoreFile, LoadEvidence, InsertCase, LogCreated,
        CommitStatus, Record, Audit, evidenceVars
  <2>2. ~Verifying(h, e)
    BY <1>3 DEF FindNoCase, LoadCase, StoreFile, LoadEvidence, InsertCase, LogCreated,
        CommitStatus, Record, Audit, Start, Idle, Verifying
  <2>3. \E k : /\ k.at \in {"look", "read", "verdict"} => k.evidence # e
               /\ handler' = [handler EXCEPT ![h] = k]
    BY <1>3 DEF FindNoCase, LoadCase, StoreFile, LoadEvidence, InsertCase, LogCreated,
        CommitStatus, Record, Audit, Start, Go, Idle
  <2> QED
    BY <1>1, <2>1, <2>2, <2>3, LatestElsewhere
<1>4. ASSUME NEW h \in Handlers, LoadEvidence(h, e) PROVE Latest(e)'
  <2>1. /\ \A g \in Handlers : ~Verifying(g, e)
        /\ evidence[e] # "none"
        /\ UNCHANGED <<evidence, seen>>
        /\ handler' = [handler EXCEPT ![h] =
                [at |-> "look", evidence |-> e, loaded |-> evidence[e]]]
    BY <1>4 DEF LoadEvidence, Start, evidenceVars
  <2>2. \A g \in Handlers : Verifying(g, e)' => g = h
    BY <1>1, <2>1 DEF Verifying
  <2>3. handler'[h] = [at |-> "look", evidence |-> e, loaded |-> evidence[e]]
    BY <1>1, <2>1
  <2> QED
    BY <1>1, <2>1, <2>2, <2>3 DEF Latest
<1>5. ASSUME NEW h \in Handlers, LookForFile(h) \/ ReadFile(h), handler[h].evidence = e
      PROVE  Latest(e)'
  <2>1. /\ Verifying(h, e) /\ handler[h].at # "verdict"
        /\ evidence' = evidence
    BY <1>5 DEF LookForFile, ReadFile, Verifying
  <2>2. \/ /\ seen'[e] = seen[e]
           /\ handler'[h] = [at |-> "read", evidence |-> e, loaded |-> handler[h].loaded]
        \/ /\ handler'[h].at = "verdict" /\ handler'[h].loaded = handler[h].loaded
           /\ handler'[h].status = IF seen'[e] = "intact" THEN "VERIFIED" ELSE "COMPROMISED"
    BY <1>1, <1>5 DEF LookForFile, ReadFile, Judge, Go
  <2>3. \A g \in Handlers \ {h} : handler'[g] = handler[g]
    BY <1>1, <1>5 DEF LookForFile, ReadFile, Judge, Go
  <2>4. \A g \in Handlers : Verifying(g, e)' => g = h
    BY <1>1, <2>1, <2>3 DEF Latest, Verifying
  <2>5. handler'[h].at = "verdict" => Verifying(h, e)'
    BY <1>1, <1>5 DEF LookForFile, ReadFile, Judge, Go, Verifying
  <2> QED
    BY <1>1, <2>1, <2>2, <2>4, <2>5 DEF Latest
<1>6. ASSUME NEW h \in Handlers, LookForFile(h) \/ ReadFile(h), handler[h].evidence # e
      PROVE  Latest(e)'
  <2>1. /\ evidence' = evidence /\ seen'[e] = seen[e]
        /\ ~Verifying(h, e)
    BY <1>1, <1>6 DEF LookForFile, ReadFile, Judge, Verifying
  <2>2. \E k : k.evidence # e /\ handler' = [handler EXCEPT ![h] = k]
    BY <1>6 DEF LookForFile, ReadFile, Judge, Go
  <2> QED
    BY <1>1, <2>1, <2>2, LatestElsewhere
<1>7. ASSUME NEW h \in Handlers, CommitVerdict(h), handler[h].evidence = e PROVE Latest(e)'
  <2>1. Verifying(h, e) /\ handler[h].at = "verdict"
    BY <1>7 DEF CommitVerdict, Verifying
  <2>2. evidence'[e] = handler[h].status /\ seen'[e] = seen[e]
    BY <1>1, <1>7, <2>1 DEF CommitVerdict, Latest
  <2>3. \A g \in Handlers : ~Verifying(g, e)'
    BY <1>1, <1>7, <2>1 DEF CommitVerdict, Go, Latest, Verifying
  <2> QED
    BY <1>1, <2>1, <2>2, <2>3 DEF Latest
<1>8. ASSUME NEW h \in Handlers, CommitVerdict(h) \/ InsertEvidence(h), handler[h].evidence # e
      PROVE  Latest(e)'
  <2>1. /\ evidence'[e] = evidence[e] /\ seen' = seen
        /\ ~Verifying(h, e)
    BY <1>1, <1>8 DEF CommitVerdict, InsertEvidence, Verifying
  <2>2. \E k : k.at = "record" /\ handler' = [handler EXCEPT ![h] = k]
    BY <1>8 DEF CommitVerdict, InsertEvidence, Go
  <2> QED
    BY <1>1, <2>1, <2>2, LatestElsewhere
<1>9. ASSUME NEW h \in Handlers, InsertEvidence(h), handler[h].evidence = e PROVE Latest(e)'
  <2>1. evidence[e] = "none" /\ seen[e] = "intact"
    BY <1>1, <1>9 DEF InsertEvidence, RowOnce, At
  <2>2. /\ evidence'[e] = "VERIFIED" /\ seen' = seen
        /\ \E k : k.at = "record" /\ handler' = [handler EXCEPT ![h] = k]
    BY <1>1, <1>9 DEF InsertEvidence, Go
  <2>3. \A g \in Handlers : ~Verifying(g, e)
    BY <1>1, <2>1 DEF Founded, Verifying
  <2>4. \A g \in Handlers : ~Verifying(g, e)'
    BY <1>1, <2>2, <2>3 DEF Verifying
  <2> QED
    BY <2>1, <2>2, <2>4 DEF Latest
<1>10. ASSUME NEW h \in Handlers, Fail(h) PROVE Latest(e)'
  <2>1. /\ handler' = [handler EXCEPT ![h] = Idle]
        /\ UNCHANGED <<evidence, seen>>
        /\ ~(Verifying(h, e) /\ handler[h].at = "verdict")
    BY <1>10 DEF Fail, Go, evidenceVars, Verifying
  <2>2. ~Verifying(h, e)'
    BY <1>1, <2>1 DEF Idle, Verifying
  <2>3. \A g \in Handlers \ {h} : handler'[g] = handler[g] /\ (Verifying(g, e)' <=> Verifying(g, e))
    BY <1>1, <2>1 DEF Verifying
  <2> QED
    BY <1>1, <2>1, <2>2, <2>3 DEF Latest
<1> QED
  BY <1>2, <1>3, <1>4, <1>5, <1>6, <1>7, <1>8, <1>9, <1>10 DEF Next, vars, Disturb

\* When no verification is under way, the status of evidence is what the latest
\* one found, unless verifications overlapped or failed before their commit.
THEOREM VerdictsAreLatest == Spec => []VerdictIsLatest
<1>1. Init => VerdictInv
  BY DEF Init, VerdictInv, EvidenceInv, TypeOK, Founded, EvidenceIsAccountedFor, RowOnce, Latest,
      Verifying, At, Idle, HandlerStates
<1>2. VerdictInv /\ [Next]_vars => VerdictInv'
  <2>1. ASSUME VerdictInv, [Next]_vars, NEW e \in Evidence, (e \notin disputed)'
        PROVE  Latest(e)'
    BY <2>1, LatestStep
  <2>2. VerdictInv /\ [Next]_vars => EvidenceInv' /\ RowOnce'
    BY EvidenceStep, RowOnceStep DEF VerdictInv
  <2> QED
    BY <2>1, <2>2 DEF VerdictInv
<1>3. VerdictInv => VerdictIsLatest
  <2> SUFFICES ASSUME VerdictInv, NEW e \in Evidence, evidence[e] # "none", e \notin disputed,
                      \A h \in Handlers : ~Verifying(h, e)
               PROVE  (evidence[e] = "VERIFIED") = (seen[e] = "intact")
    BY DEF VerdictIsLatest
  <2>1. evidence[e] = "VERIFIED" <=> seen[e] = "intact"
    BY DEF VerdictInv, Latest
  <2> QED
    BY <2>1
<1> QED
  BY <1>1, <1>2, <1>3, PTL DEF Spec

-----------------------------------------------------------------------------
(* The rows of a case: what the detectors and the summaries make of them    *)
(* (module CaseAnalysis).  Rows that are added take no flag away: each      *)
(* detector looks for rows of a kind, or counts them against a threshold.   *)

RowsTyped == calls \in Seq(CallRows) /\ transfers \in Seq(TransferRows)

LEMMA RowsGrow ==
    ASSUME RowsTyped, [AnalysisNext]_analysisVars
    PROVE  /\ \/ calls' = calls
              \/ \E c \in CallRows : calls' = Append(calls, c)
           /\ \/ transfers' = transfers
              \/ \E t \in TransferRows : transfers' = Append(transfers, t)
           /\ RowsTyped'
  <1>1. /\ \/ calls' = calls
           \/ \E c \in CallRows : calls' = Append(calls, c)
        /\ \/ transfers' = transfers
           \/ \E t \in TransferRows : transfers' = Append(transfers, t)
    BY DEF AnalysisNext, analysisVars, ReadSentence, AddCall, AddTransfer, AddMember, AddArtifact
  <1>2. calls' \in Seq(CallRows) /\ transfers' \in Seq(TransferRows)
    <2>1. calls' \in Seq(CallRows)
      BY <1>1 DEF RowsTyped
    <2>2. transfers' \in Seq(TransferRows)
      BY <1>1 DEF RowsTyped
    <2> QED
      BY <2>1, <2>2
  <1> QED
    BY <1>1, <1>2 DEF RowsTyped

LEMMA RowsAreTyped == AnalysisSpec => []RowsTyped
  <1>1. AnalysisInit => RowsTyped
    BY DEF AnalysisInit, RowsTyped
  <1>2. RowsTyped /\ [AnalysisNext]_analysisVars => RowsTyped'
    BY RowsGrow
  <1> QED
    BY <1>1, <1>2, PTL DEF AnalysisSpec

LEMMA Counted == \A S : Detect!Cardinality(S) = Cardinality(S)
  BY DEF Detect!Cardinality, Cardinality

LEMMA Appended ==
    ASSUME NEW S, NEW s \in Seq(S), NEW x \in S
    PROVE  /\ DOMAIN s \subseteq DOMAIN Append(s, x)
           /\ \A i \in DOMAIN s : Append(s, x)[i] = s[i]
           /\ IsFiniteSet(DOMAIN Append(s, x))
  <1>1. DOMAIN Append(s, x) = 1..(Len(s) + 1) /\ Len(s) + 1 \in Int /\ 1 \in Int
    OBVIOUS
  <1>2. IsFiniteSet(DOMAIN Append(s, x))
    BY ONLY <1>1, FS_Interval
  <1> QED
    BY <1>2

\* A set within another has no more elements.
LEMMA Fewer ==
    ASSUME NEW A, NEW B, A \subseteq B, IsFiniteSet(B)
    PROVE  IsFiniteSet(A) /\ Cardinality(A) \in Nat /\ Cardinality(B) \in Nat
           /\ Cardinality(A) <= Cardinality(B)
  <1>1. IsFiniteSet(A) /\ Cardinality(A) <= Cardinality(B)
    BY FS_Subset
  <1> QED
    BY <1>1, FS_CardinalityType

LEMMA CallsStayFlagged ==
    ASSUME NEW rows \in Seq(CallRows), NEW c \in CallRows
    PROVE  Detect!detect_suspicious_calls(rows)
             \subseteq Detect!detect_suspicious_calls(Append(rows, c))
  <1> DEFINE more == Append(rows, c)
  <1>1. /\ DOMAIN rows \subseteq DOMAIN more /\ \A i \in DOMAIN rows : more[i] = rows[i]
        /\ IsFiniteSet(DOMAIN more)
    BY Appended
  <1> HIDE DEF more
  <1>2. ASSUME NEW pair, Detect!Burst(rows, pair)
        PROVE  Detect!Burst(more, pair)
    <2> DEFINE A == Detect!CallsOfPair(rows, pair)
               B == Detect!CallsOfPair(more, pair)
    <2>1. A \subseteq B /\ B \subseteq DOMAIN more
      BY <1>1 DEF Detect!CallsOfPair, Detect!Indices
    <2>2. Cardinality(A) >= 3
      BY <1>2, Counted DEF Detect!Burst, Detect!BurstCount
    <2> HIDE DEF A, B
    <2>3. Cardinality(B) >= 3
      <3>1. IsFiniteSet(B)
        BY <1>1, <2>1, Fewer
      <3>2. Cardinality(A) \in Nat /\ Cardinality(B) \in Nat
            /\ Cardinality(A) <= Cardinality(B)
        BY <2>1, <3>1, Fewer
      <3> QED
        BY <2>2, <3>2
    <2> QED
      BY <2>3, Counted DEF Detect!Burst, Detect!BurstCount, B
  <1> QED
    BY <1>1, <1>2 DEF Detect!detect_suspicious_calls, Detect!Indices, more

LEMMA TransfersStayFlagged ==
    ASSUME NEW rows \in Seq(TransferRows), NEW t \in TransferRows
    PROVE  Detect!detect_suspicious_transactions(rows)
             \subseteq Detect!detect_suspicious_transactions(Append(rows, t))
  <1> DEFINE more == Append(rows, t)
  <1>1. /\ DOMAIN rows \subseteq DOMAIN more /\ \A i \in DOMAIN rows : more[i] = rows[i]
        /\ IsFiniteSet(DOMAIN more)
    BY Appended
  <1> HIDE DEF more
  <1>2. ASSUME NEW sender, NEW receiver, Detect!Structuring(rows, sender, receiver)
        PROVE  Detect!Structuring(more, sender, receiver)
    <2> DEFINE A == Detect!TransfersOfPair(rows, sender, receiver)
               B == Detect!TransfersOfPair(more, sender, receiver)
               JustA == {i \in A : Detect!JustBelow(rows[i])}
               JustB == {i \in B : Detect!JustBelow(more[i])}
    <2>1. A \subseteq B /\ B \subseteq DOMAIN more /\ A \subseteq DOMAIN rows
      BY <1>1 DEF Detect!TransfersOfPair, Detect!Indices
    <2>2. JustA \subseteq JustB /\ JustB \subseteq DOMAIN more
      BY <1>1, <2>1
    <2>3. Cardinality(JustA) >= 2 \/ Cardinality(A) >= 3
      BY <1>2, Counted DEF Detect!Structuring
    <2> HIDE DEF A, B, JustA, JustB
    <2>4. Cardinality(JustB) >= 2 \/ Cardinality(B) >= 3
      <3>1. IsFiniteSet(B) /\ IsFiniteSet(JustB)
        <4>1. B \subseteq DOMAIN more /\ JustB \subseteq DOMAIN more
          BY <2>1, <2>2
        <4> QED
          BY <1>1, <4>1, Fewer
      <3>2. Cardinality(A) \in Nat /\ Cardinality(B) \in Nat
            /\ Cardinality(A) <= Cardinality(B)
        BY <2>1, <3>1, Fewer
      <3>3. Cardinality(JustA) \in Nat /\ Cardinality(JustB) \in Nat
            /\ Cardinality(JustA) <= Cardinality(JustB)
        BY <2>2, <3>1, Fewer
      <3> QED
        BY <2>3, <3>2, <3>3
    <2> QED
      BY <2>4, Counted DEF Detect!Structuring, B, JustB
  <1> QED
    BY <1>1, <1>2 DEF Detect!detect_suspicious_transactions, Detect!Indices, more

\* A call or transfer that is flagged stays flagged, whatever rows are added:
\* every threshold of the detectors is passed in one direction only.
THEOREM FlagsStay == AnalysisSpec => FlaggedStaysFlagged
  <1>1. ASSUME RowsTyped, [AnalysisNext]_analysisVars
        PROVE  /\ Detect!detect_suspicious_calls(calls)
                    \subseteq Detect!detect_suspicious_calls(calls')
               /\ Detect!detect_suspicious_transactions(transfers)
                    \subseteq Detect!detect_suspicious_transactions(transfers')
    <2>1. CASE \E c \in CallRows : calls' = Append(calls, c)
      BY <1>1, <2>1, RowsGrow, CallsStayFlagged, TransfersStayFlagged DEF RowsTyped
    <2>2. CASE calls' = calls
      BY <1>1, <2>2, RowsGrow, TransfersStayFlagged DEF RowsTyped
    <2> QED
      BY <1>1, <2>1, <2>2, RowsGrow
  <1> QED
    BY <1>1, RowsAreTyped, PTL DEF FlaggedStaysFlagged, AnalysisSpec

-----------------------------------------------------------------------------
(* The summaries read the rows as the detectors do.  An hour is counted on  *)
(* its own, and the largest amount and the busiest pair exist as there are  *)
(* finitely many rows, by induction on their number.                        *)

LEMMA Induction ==
    ASSUME NEW T \in SUBSET Nat, 0 \in T, \A m \in T : m + 1 \in T
    PROVE  T = Nat
  <1>1. SUFFICES ASSUME Nat \ T # {} PROVE FALSE
    OBVIOUS
  <1> DEFINE less == OpToRel(<, Nat)
  <1>0. less = {p \in Nat \X Nat : p[1] < p[2]}
    BY DEF OpToRel
  <1>5. PICK m \in Nat \ T : \A k \in Nat \ T : ~(<<k, m>> \in less)
    <2>1. IsWellFoundedOn(less, Nat)
      BY NatLessThanWellFounded
    <2>2. Nat \ T \subseteq Nat
      OBVIOUS
    <2> HIDE DEF less
    <2> QED
      BY ONLY <1>1, <2>1, <2>2, WFMin
  <1> HIDE DEF less
  <1>2. \A k \in Nat \ T : ~(k < m)
    BY <1>0, <1>5
  <1>3. m # 0 /\ m - 1 \in Nat /\ ~(m <= m - 1) /\ (m - 1) + 1 = m
    BY <1>2
  <1>4. m - 1 \in T
    BY <1>2, <1>3
  <1> QED
    BY <1>2, <1>3, <1>4

LEMMA DisjointUnion ==
    ASSUME NEW A, NEW B, IsFiniteSet(A), IsFiniteSet(B), A \cap B = {}
    PROVE  /\ IsFiniteSet(A \cup B)
           /\ Cardinality(A \cup B) = Cardinality(A) + Cardinality(B)
  <1>1. /\ IsFiniteSet(A \cup B)
        /\ Cardinality(A \cup B) = Cardinality(A) + Cardinality(B) - Cardinality(A \cap B)
    BY FS_Union
  <1>2. Cardinality(A \cap B) = 0
    BY FS_EmptySet
  <1>3. Cardinality(A) \in Nat /\ Cardinality(B) \in Nat
    BY FS_CardinalityType
  <1> QED
    BY <1>1, <1>2, <1>3

\* The rows of the night are those of its six hours.
LEMMA NightIsItsHours ==
    ASSUME NEW S, NEW rows \in Seq(S)
    PROVE  /\ Cardinality(Detect!Indices(rows, Detect!EventByNight)) =
                Detect!OfHour(rows, 0) + Detect!OfHour(rows, 1) + Detect!OfHour(rows, 2)
                + Detect!OfHour(rows, 3) + Detect!OfHour(rows, 4) + Detect!OfHour(rows, 5)
           /\ \A h \in 0..5 : Detect!OfHour(rows, h) \in Nat
  <1> DEFINE night == Detect!Indices(rows, Detect!EventByNight)
             of(h) == {i \in DOMAIN rows : Detect!parse_call_hour(rows[i].time) = h}
  <1>1. \A h : Detect!OfHour(rows, h) = Cardinality(of(h))
    BY Counted DEF Detect!OfHour, Detect!Indices
  <1>2. night = of(0) \cup of(1) \cup of(2) \cup of(3) \cup of(4) \cup of(5)
    BY DEF Detect!Indices, Detect!EventByNight
  <1>3. \A g, h : g # h => of(g) \cap of(h) = {}
    OBVIOUS
  <1>4. \A h : IsFiniteSet(of(h)) /\ Cardinality(of(h)) \in Nat
    <2>1. DOMAIN rows = 1..Len(rows) /\ Len(rows) \in Int /\ 1 \in Int
      OBVIOUS
    <2>2. IsFiniteSet(DOMAIN rows)
      BY ONLY <2>1, FS_Interval
    <2>3. \A h : of(h) \subseteq DOMAIN rows
      OBVIOUS
    <2> HIDE DEF of
    <2> QED
      BY <2>2, <2>3, Fewer
  <1> HIDE DEF of, night
  <1> DEFINE n1 == of(0) \cup of(1)
             n2 == n1 \cup of(2)
             n3 == n2 \cup of(3)
             n4 == n3 \cup of(4)
             n5 == n4 \cup of(5)
  <1>5. /\ n1 \cap of(2) = {} /\ n2 \cap of(3) = {} /\ n3 \cap of(4) = {} /\ n4 \cap of(5) = {}
    BY <1>3
  <1>6. IsFiniteSet(n1) /\ Cardinality(n1) = Cardinality(of(0)) + Cardinality(of(1))
    <2>1. of(0) \cap of(1) = {} /\ IsFiniteSet(of(0)) /\ IsFiniteSet(of(1))
      BY <1>3, <1>4
    <2>2. /\ IsFiniteSet(of(0) \cup of(1))
          /\ Cardinality(of(0) \cup of(1)) = Cardinality(of(0)) + Cardinality(of(1))
      BY ONLY <2>1, DisjointUnion
    <2> QED
      BY ONLY <2>2
  <1>7. night = n5
    BY <1>2
  <1> HIDE DEF n1
  <1>8. IsFiniteSet(n2) /\ Cardinality(n2) = Cardinality(n1) + Cardinality(of(2))
    BY <1>4, <1>5, <1>6, DisjointUnion
  <1> HIDE DEF n2
  <1>9. IsFiniteSet(n3) /\ Cardinality(n3) = Cardinality(n2) + Cardinality(of(3))
    BY <1>4, <1>5, <1>8, DisjointUnion
  <1> HIDE DEF n3
  <1>10. IsFiniteSet(n4) /\ Cardinality(n4) = Cardinality(n3) + Cardinality(of(4))
    BY <1>4, <1>5, <1>9, DisjointUnion
  <1> HIDE DEF n4
  <1>11. Cardinality(n5) = Cardinality(n4) + Cardinality(of(5))
    BY <1>4, <1>5, <1>10, DisjointUnion
  <1> HIDE DEF n5
  <1> QED
    BY <1>1, <1>4, <1>6, <1>7, <1>8, <1>9, <1>10, <1>11 DEF night

\* A sequence of numbers has a largest value, and a first place of it.
LEMMA FirstLargest ==
    ASSUME NEW n \in Nat, NEW key, \A i \in 1..n : key[i] \in Int, n # 0
    PROVE  \E i \in 1..n : \A j \in 1..n : key[j] < key[i] \/ (key[j] = key[i] /\ i <= j)
  <1> DEFINE Is(i, m) ==
               i \in 1..m /\ \A j \in 1..m : key[j] < key[i] \/ (key[j] = key[i] /\ i <= j)
             T == {m \in Nat : m \in 1..n => \E i : Is(i, m)}
  <1>1. 0 \in T
    OBVIOUS
  <1>2. ASSUME NEW m \in T
        PROVE  m + 1 \in T
    <2> SUFFICES ASSUME m + 1 \in 1..n PROVE \E i : Is(i, m + 1)
      OBVIOUS
    <2>1. CASE m = 0
      <3>1. Is(1, m + 1)
        BY <2>1
      <3> QED
        BY <3>1
    <2>2. CASE m # 0
      <3>1. PICK i : Is(i, m)
        BY <2>2
      <3>2. /\ key[i] \in Int /\ key[m + 1] \in Int /\ i \in 1..m
            /\ \A j \in 1..(m + 1) : j \in 1..m \/ j = m + 1
            /\ \A j \in 1..m : key[j] \in Int
        BY <3>1
      <3>3. CASE key[i] < key[m + 1]
        <4>1. Is(m + 1, m + 1)
          BY <3>1, <3>2, <3>3
        <4> QED
          BY <4>1
      <3>4. CASE ~(key[i] < key[m + 1])
        <4>1. Is(i, m + 1)
          BY <3>1, <3>2, <3>4
        <4> QED
          BY <4>1
      <3> QED
        BY <3>3, <3>4
    <2> QED
      BY <2>1, <2>2
  <1>3. T = Nat
    <2> HIDE DEF T
    <2>1. T \in SUBSET Nat
      BY DEF T
    <2> QED
      BY <1>1, <1>2, <2>1, Induction
  <1>4. n \in 1..n
    OBVIOUS
  <1> QED
    BY <1>3, <1>4

\* A part of a sequence.
LEMMA Parts ==
    ASSUME NEW S, NEW s \in Seq(S), NEW n \in 0..Len(s)
    PROVE  /\ SubSeq(s, 1, n) \in Seq(S) /\ SubSeq(s, n + 1, Len(s)) \in Seq(S)
           /\ DOMAIN SubSeq(s, 1, n) = 1..n
           /\ DOMAIN SubSeq(s, n + 1, Len(s)) = 1..(Len(s) - n)
           /\ \A i \in 1..n : SubSeq(s, 1, n)[i] = s[i]
           /\ \A i \in 1..(Len(s) - n) : SubSeq(s, n + 1, Len(s))[i] = s[n + i]
           /\ \A i \in DOMAIN s : i \in 1..n \/ (i - n \in 1..(Len(s) - n) /\ n + (i - n) = i)
  OBVIOUS

\* What the summaries count, the detectors flag in whatever requests the rows
\* came, and the night of a timeline that can be made is that of its hours:
\* each of the three has its own copy of the night and of the pairs.
THEOREM SummariesStayAlike == AnalysisSpec => []SummariesAgree
  <1> SUFFICES ASSUME RowsTyped PROVE SummariesAgree
    BY RowsAreTyped, PTL
  <1> DEFINE timeline == Detect!analyze_case_timeline(calls, transfers)
             summary == Detect!analyze_case_calls(calls)
             flaggedCalls == Detect!detect_suspicious_calls(calls)
             largest == Detect!analyze_case_transactions(transfers).largest
             hour == timeline.hours
             byNight == Detect!Indices(calls, Detect!CountedByNight)
  <1>1. timeline.nocturnal = hour[0] + hour[1] + hour[2] + hour[3] + hour[4] + hour[5]
    <2>1. \A h \in 0..5 : hour[h] = Detect!OfHour(calls, h) + Detect!OfHour(transfers, h)
      BY DEF Detect!analyze_case_timeline, Detect!Hours
    <2>2. timeline.nocturnal = Cardinality(Detect!Indices(calls, Detect!EventByNight))
                               + Cardinality(Detect!Indices(transfers, Detect!EventByNight))
      BY Counted DEF Detect!analyze_case_timeline
    <2> HIDE DEF timeline, hour
    <2>3. /\ hour[0] = Detect!OfHour(calls, 0) + Detect!OfHour(transfers, 0)
          /\ hour[1] = Detect!OfHour(calls, 1) + Detect!OfHour(transfers, 1)
          /\ hour[2] = Detect!OfHour(calls, 2) + Detect!OfHour(transfers, 2)
          /\ hour[3] = Detect!OfHour(calls, 3) + Detect!OfHour(transfers, 3)
          /\ hour[4] = Detect!OfHour(calls, 4) + Detect!OfHour(transfers, 4)
          /\ hour[5] = Detect!OfHour(calls, 5) + Detect!OfHour(transfers, 5)
      BY <2>1
    <2>4. ASSUME NEW S, NEW rows \in Seq(S)
          PROVE  /\ Cardinality(Detect!Indices(rows, Detect!EventByNight)) =
                      Detect!OfHour(rows, 0) + Detect!OfHour(rows, 1)
                      + Detect!OfHour(rows, 2) + Detect!OfHour(rows, 3)
                      + Detect!OfHour(rows, 4) + Detect!OfHour(rows, 5)
                 /\ Detect!OfHour(rows, 0) \in Nat /\ Detect!OfHour(rows, 1) \in Nat
                 /\ Detect!OfHour(rows, 2) \in Nat /\ Detect!OfHour(rows, 3) \in Nat
                 /\ Detect!OfHour(rows, 4) \in Nat /\ Detect!OfHour(rows, 5) \in Nat
      BY <2>4, NightIsItsHours
    <2>5. calls \in Seq(CallRows) /\ transfers \in Seq(TransferRows)
      BY DEF RowsTyped
    <2>6. PICK cn : cn = Cardinality(Detect!Indices(calls, Detect!EventByNight))
      OBVIOUS
    <2>7. PICK tn : tn = Cardinality(Detect!Indices(transfers, Detect!EventByNight))
      OBVIOUS
    <2>8. /\ cn = Detect!OfHour(calls, 0) + Detect!OfHour(calls, 1)
                  + Detect!OfHour(calls, 2) + Detect!OfHour(calls, 3)
                  + Detect!OfHour(calls, 4) + Detect!OfHour(calls, 5)
          /\ Detect!OfHour(calls, 0) \in Nat /\ Detect!OfHour(calls, 1) \in Nat
          /\ Detect!OfHour(calls, 2) \in Nat /\ Detect!OfHour(calls, 3) \in Nat
          /\ Detect!OfHour(calls, 4) \in Nat /\ Detect!OfHour(calls, 5) \in Nat
      BY <2>4, <2>5, <2>6
    <2>9. /\ tn = Detect!OfHour(transfers, 0) + Detect!OfHour(transfers, 1)
                  + Detect!OfHour(transfers, 2) + Detect!OfHour(transfers, 3)
                  + Detect!OfHour(transfers, 4) + Detect!OfHour(transfers, 5)
          /\ Detect!OfHour(transfers, 0) \in Nat /\ Detect!OfHour(transfers, 1) \in Nat
          /\ Detect!OfHour(transfers, 2) \in Nat /\ Detect!OfHour(transfers, 3) \in Nat
          /\ Detect!OfHour(transfers, 4) \in Nat /\ Detect!OfHour(transfers, 5) \in Nat
      BY <2>4, <2>5, <2>7
    <2>10. timeline.nocturnal = cn + tn
      BY <2>2, <2>6, <2>7
    <2> QED
      BY ONLY <2>3, <2>8, <2>9, <2>10
  <1>2. ASSUME NEW S, NEW s \in Seq(S)
        PROVE  /\ IsFiniteSet(Detect!detect_suspicious_calls(s))
               /\ Detect!detect_suspicious_calls(s) \subseteq DOMAIN s
               /\ IsFiniteSet(DOMAIN s)
    <2>1. DOMAIN s = 1..Len(s) /\ Len(s) \in Int /\ 1 \in Int
      OBVIOUS
    <2>2. IsFiniteSet(DOMAIN s)
      BY ONLY <2>1, FS_Interval
    <2>3. Detect!detect_suspicious_calls(s) \subseteq DOMAIN s
      BY DEF Detect!detect_suspicious_calls, Detect!Indices
    <2> QED
      BY <2>2, <2>3, Fewer
  <1>3. calls \in Seq(CallRows) /\ transfers \in Seq(TransferRows)
    BY DEF RowsTyped
  <1>4. byNight \subseteq DOMAIN calls /\ IsFiniteSet(byNight)
        /\ Cardinality(byNight) \in Nat
    <2>1. byNight \subseteq DOMAIN calls /\ IsFiniteSet(DOMAIN calls)
      BY <1>2, <1>3 DEF Detect!Indices
    <2> QED
      BY <2>1, Fewer
  <1>5. summary.nocturnal = IF calls = <<>> THEN 0 ELSE Cardinality(byNight)
    BY Counted DEF Detect!analyze_case_calls
  <1>6. summary.nocturnal <= timeline.nocturnal
    <2>1. timeline.nocturnal = Cardinality(Detect!Indices(calls, Detect!EventByNight))
                               + Cardinality(Detect!Indices(transfers, Detect!EventByNight))
      BY Counted DEF Detect!analyze_case_timeline
    <2>2. byNight = Detect!Indices(calls, Detect!EventByNight)
      BY DEF Detect!Indices, Detect!EventByNight, Detect!CountedByNight
    <2>3. Cardinality(Detect!Indices(transfers, Detect!EventByNight)) \in Nat
      <3>1. /\ Detect!Indices(transfers, Detect!EventByNight) \subseteq DOMAIN transfers
            /\ IsFiniteSet(DOMAIN transfers)
        BY <1>2, <1>3 DEF Detect!Indices
      <3> QED
        BY <3>1, Fewer
    <2> HIDE DEF byNight, timeline, summary
    <2> QED
      BY <1>4, <1>5, <2>1, <2>2, <2>3
  <1>7. ASSUME NEW n \in 0..Len(calls)
        PROVE  summary.nocturnal <= Cardinality(RaisedBy(n))
    <2> DEFINE head == SubSeq(calls, 1, n)
               rest == SubSeq(calls, n + 1, Len(calls))
               first == Detect!detect_suspicious_calls(head)
               second == Detect!detect_suspicious_calls(rest)
    <2>1. /\ head \in Seq(CallRows) /\ rest \in Seq(CallRows)
          /\ DOMAIN head = 1..n /\ DOMAIN rest = 1..(Len(calls) - n)
          /\ \A i \in 1..n : head[i] = calls[i]
          /\ \A i \in 1..(Len(calls) - n) : rest[i] = calls[n + i]
          /\ \A i \in DOMAIN calls :
                i \in 1..n \/ (i - n \in 1..(Len(calls) - n) /\ n + (i - n) = i)
      BY <1>3, Parts
    <2> HIDE DEF head, rest
    <2>2. RaisedBy(n) = first \cup {n + i : i \in second}
      BY DEF RaisedBy, head, rest
    <2>3. byNight \subseteq RaisedBy(n)
      <3> SUFFICES ASSUME NEW i \in byNight PROVE i \in RaisedBy(n)
        OBVIOUS
      <3>1. i \in DOMAIN calls /\ Detect!CountedByNight(calls[i])
        BY DEF Detect!Indices
      <3>2. CASE i \in 1..n
        <4>1. Detect!Nocturnal(head[i]) /\ i \in DOMAIN head
          BY <2>1, <3>1, <3>2 DEF Detect!Nocturnal, Detect!CountedByNight
        <4>2. i \in first
          BY <4>1 DEF Detect!detect_suspicious_calls, Detect!Indices
        <4> QED
          BY <2>2, <4>2
      <3>3. CASE i - n \in 1..(Len(calls) - n) /\ n + (i - n) = i
        <4> DEFINE j == i - n
        <4>1. j \in DOMAIN rest /\ rest[j] = calls[i] /\ n + j = i
          BY <2>1, <3>3
        <4> HIDE DEF j
        <4>2. Detect!Nocturnal(rest[j])
          BY <3>1, <4>1 DEF Detect!Nocturnal, Detect!CountedByNight
        <4>3. j \in second
          BY <4>1, <4>2 DEF Detect!detect_suspicious_calls, Detect!Indices
        <4> QED
          BY <2>2, <4>1, <4>3
      <3> QED
        BY <2>1, <3>1, <3>2, <3>3
    <2>4. IsFiniteSet(RaisedBy(n))
      <3> HIDE DEF first, second
      <3>1. first \subseteq 1..n /\ second \subseteq 1..(Len(calls) - n)
        BY <1>2, <2>1 DEF first, second
      <3>2. DOMAIN calls = 1..Len(calls) /\ Len(calls) \in Nat /\ IsFiniteSet(DOMAIN calls)
        BY <1>2, <1>3
      <3>3. RaisedBy(n) \subseteq DOMAIN calls
        <4>1. \A i \in second : n + i \in 1..Len(calls)
          BY <3>1, <3>2
        <4>2. 1..n \subseteq 1..Len(calls)
          BY <3>2
        <4> QED
          BY <2>2, <3>1, <3>2, <4>1, <4>2
      <3> QED
        BY <3>2, <3>3, Fewer
    <2>5. Cardinality(byNight) <= Cardinality(RaisedBy(n)) /\ Cardinality(RaisedBy(n)) \in Nat
      <3> HIDE DEF byNight
      <3>1. Cardinality(RaisedBy(n)) \in Nat
        BY <2>4, FS_CardinalityType
      <3> QED
        BY <2>3, <2>4, <3>1, Fewer
    <2> HIDE DEF byNight, summary
    <2> QED
      BY <1>5, <2>5
  <1>8. summary.pairCount >= Detect!BurstCount => summary.pairCount <= Cardinality(flaggedCalls)
    <2>0. Cardinality(flaggedCalls) \in Nat /\ IsFiniteSet(flaggedCalls)
      BY <1>2, <1>3, FS_CardinalityType
    <2>1. CASE calls = <<>>
      BY <2>0, <2>1 DEF Detect!analyze_case_calls
    <2>2. CASE calls # <<>>
      <3>1. PICK k : summary.pairCount = Cardinality(Detect!LikePair(calls, calls[k]))
        BY <2>2, Counted DEF Detect!analyze_case_calls
      <3> DEFINE pair == Detect!Ends(calls[k])
      <3>2. Detect!LikePair(calls, calls[k]) = Detect!CallsOfPair(calls, pair)
        BY DEF Detect!LikePair, Detect!PairOf, Detect!Ends, Detect!CallsOfPair, Detect!Indices
      <3>3. ASSUME summary.pairCount >= Detect!BurstCount
            PROVE  Detect!CallsOfPair(calls, pair) \subseteq flaggedCalls
        <4>1. Detect!Burst(calls, pair)
          BY <3>1, <3>2, <3>3, Counted DEF Detect!Burst
        <4> QED
          BY <4>1 DEF Detect!CallsOfPair, Detect!detect_suspicious_calls, Detect!Indices
      <3> QED
        BY <2>0, <3>1, <3>2, <3>3, Fewer
    <2> QED
      BY <2>1, <2>2
  <1>9. ASSUME largest >= Detect!LargeAmount, NEW n \in 0..Len(transfers)
        PROVE  \E rows \in {SubSeq(transfers, 1, n),
                            SubSeq(transfers, n + 1, Len(transfers))} :
                   Detect!detect_suspicious_transactions(rows) # {}
    <2>1. transfers # <<>>
      BY <1>9 DEF Detect!analyze_case_transactions, Detect!LargeAmount
    <2> DEFINE Is(i) == \A j \in DOMAIN transfers :
                          \/ transfers[j].amount < transfers[i].amount
                          \/ transfers[j].amount = transfers[i].amount /\ i <= j
               k == CHOOSE i \in DOMAIN transfers : Is(i)
    <2>2. largest = transfers[k].amount
      BY <2>1 DEF Detect!analyze_case_transactions, Detect!Largest
    <2>3. \E i \in DOMAIN transfers : Is(i)
      <3> DEFINE key == [i \in DOMAIN transfers |-> transfers[i].amount]
      <3>1. /\ DOMAIN transfers = 1..Len(transfers) /\ Len(transfers) \in Nat
            /\ Len(transfers) # 0 /\ \A i \in DOMAIN transfers : transfers[i] \in TransferRows
        BY <1>3, <2>1
      <3>2. \A i \in 1..Len(transfers) : key[i] \in Int
        BY <3>1, AmountsAreNumbers
      <3>3. \A i \in DOMAIN transfers : key[i] = transfers[i].amount
        OBVIOUS
      <3> HIDE DEF key
      <3>4. \E i \in 1..Len(transfers) : \A j \in 1..Len(transfers) :
               key[j] < key[i] \/ (key[j] = key[i] /\ i <= j)
        BY <3>1, <3>2, FirstLargest
      <3> QED
        BY <3>1, <3>3, <3>4
    <2>4. k \in DOMAIN transfers
      BY <2>3
    <2> HIDE DEF k
    <2> DEFINE head == SubSeq(transfers, 1, n)
               rest == SubSeq(transfers, n + 1, Len(transfers))
    <2>5. /\ DOMAIN head = 1..n /\ DOMAIN rest = 1..(Len(transfers) - n)
          /\ \A i \in 1..n : head[i] = transfers[i]
          /\ \A i \in 1..(Len(transfers) - n) : rest[i] = transfers[n + i]
          /\ \A i \in DOMAIN transfers :
                i \in 1..n \/ (i - n \in 1..(Len(transfers) - n) /\ n + (i - n) = i)
      BY <1>3, Parts
    <2> HIDE DEF head, rest
    <2>6. PICK rows \in {head, rest} :
             \E j \in DOMAIN rows : rows[j].amount >= Detect!LargeAmount
      <3>1. CASE k \in 1..n
        <4>1. k \in DOMAIN head /\ head[k].amount >= Detect!LargeAmount
          BY <1>9, <2>2, <2>5, <3>1
        <4> QED
          BY <4>1
      <3>2. CASE k - n \in 1..(Len(transfers) - n) /\ n + (k - n) = k
        <4>1. k - n \in DOMAIN rest /\ rest[k - n].amount >= Detect!LargeAmount
          BY <1>9, <2>2, <2>5, <3>2
        <4> QED
          BY <4>1
      <3> QED
        BY <2>4, <2>5, <3>1, <3>2
    <2>7. Detect!detect_suspicious_transactions(rows) # {}
      BY <2>6 DEF Detect!detect_suspicious_transactions, Detect!Indices
    <2> QED
      BY <2>6, <2>7 DEF head, rest
  <1> HIDE DEF timeline, summary, hour, largest, flaggedCalls
  <1> QED
    BY <1>1, <1>6, <1>7, <1>8, <1>9
    DEF SummariesAgree, timeline, summary, hour, largest, flaggedCalls

-----------------------------------------------------------------------------
\* Sorting: a strict total order, and the sequence that it makes of a set.

StrictOrder(P, R) ==
    /\ R \in SUBSET (P \X P)
    /\ \A i, j \in P : i = j \/ <<i, j>> \in R \/ <<j, i>> \in R
    /\ \A i \in P : <<i, i>> \notin R
    /\ \A i, j, k \in P : <<i, j>> \in R /\ <<j, k>> \in R => <<i, k>> \in R

Place(P, R) == [i \in P |-> 1 + Cardinality({j \in P : <<j, i>> \in R})]

Ordered(P, R) == [k \in 1..Cardinality(P) |-> CHOOSE i \in P : Place(P, R)[i] = k]

\* In a strict total order of finitely many, each has a place, and at each
\* place there is one: the k-th is the one with k - 1 before it.
LEMMA InOrder ==
    ASSUME NEW P, IsFiniteSet(P), NEW R, StrictOrder(P, R)
    PROVE  /\ Ordered(P, R) \in [1..Cardinality(P) -> P]
           /\ \A i \in P : \E k \in 1..Cardinality(P) : Ordered(P, R)[k] = i
           /\ \A k, l \in 1..Cardinality(P) : k < l => <<Ordered(P, R)[k], Ordered(P, R)[l]>> \in R
  <1> DEFINE n == Cardinality(P)
             Before(i) == {j \in P : <<j, i>> \in R}
             place == Place(P, R)
             A(k) == CHOOSE i \in P : place[i] = k
             at == [k \in 1..n |-> A(k)]
  <1>0. /\ R \in SUBSET (P \X P)
        /\ \A i, j \in P : i = j \/ <<i, j>> \in R \/ <<j, i>> \in R
        /\ \A i \in P : <<i, i>> \notin R
        /\ \A i, j, k \in P : <<i, j>> \in R /\ <<j, k>> \in R => <<i, k>> \in R
        /\ place = [i \in P |-> 1 + Cardinality(Before(i))]
    BY DEF StrictOrder, Place
  <1> HIDE DEF place
  <1>1. \A i \in P : place[i] = 1 + Cardinality(Before(i))
    BY <1>0
  <1>2. /\ n \in Nat /\ Cardinality(P) = n
        /\ IsFiniteSet(1..n) /\ Cardinality(1..n) = n
    <2>1. n \in Nat
      BY FS_CardinalityType
    <2>2. n \in Int /\ 1 \in Int /\ (1 > n => n = 0)
      BY <2>1
    <2>3. IsFiniteSet(1..n) /\ Cardinality(1..n) = IF 1 > n THEN 0 ELSE n - 1 + 1
      BY ONLY <2>2, FS_Interval
    <2>4. Cardinality(P) = n
      OBVIOUS
    <2> HIDE DEF n
    <2> QED
      BY <2>1, <2>2, <2>3, <2>4
  <1>3. \A i : Before(i) \subseteq P
    OBVIOUS
  <1>4. \A i : IsFiniteSet(Before(i)) /\ Cardinality(Before(i)) \in Nat
    <2> HIDE DEF Before
    <2> QED
      BY <1>3, Fewer
  <1>5. ASSUME NEW i \in P
        PROVE  place[i] \in 1..n
    <2>1. Before(i) \subseteq P \ {i}
      BY <1>0
    <2>2. IsFiniteSet(P \ {i}) /\ Cardinality(P \ {i}) = n - 1
      BY FS_RemoveElement
    <2>3. Cardinality(Before(i)) <= n - 1
      <3> HIDE DEF Before
      <3>1. Cardinality(Before(i)) <= Cardinality(P \ {i})
        BY <2>1, <2>2, Fewer
      <3> QED
        BY <2>2, <3>1
    <2>4. place[i] = 1 + Cardinality(Before(i)) /\ Cardinality(Before(i)) \in Nat
      BY <1>1, <1>4
    <2> HIDE DEF Before, n
    <2> QED
      BY <1>2, <2>3, <2>4
  <1>6. ASSUME NEW i \in P, NEW j \in P, <<i, j>> \in R
        PROVE  place[i] < place[j]
    <2>1. Before(i) \cup {i} \subseteq Before(j) /\ i \notin Before(i)
      BY <1>0, <1>6
    <2> HIDE DEF Before
    <2>2. Cardinality(Before(i) \cup {i}) = Cardinality(Before(i)) + 1
      BY <1>4, <2>1, FS_AddElement
    <2>3. Cardinality(Before(i) \cup {i}) <= Cardinality(Before(j))
      BY <1>4, <2>1, Fewer
    <2>4. place[i] = 1 + Cardinality(Before(i)) /\ place[j] = 1 + Cardinality(Before(j))
      BY <1>1
    <2>5. Cardinality(Before(i)) \in Nat /\ Cardinality(Before(j)) \in Nat
      BY <1>4
    <2> QED
      BY ONLY <2>2, <2>3, <2>4, <2>5
  <1> HIDE DEF Before, n
  <1>7. \A i, j \in P : place[i] = place[j] => i = j
    <2> SUFFICES ASSUME NEW i \in P, NEW j \in P, place[i] = place[j], i # j
                 PROVE  FALSE
      OBVIOUS
    <2>1. place[i] < place[j] \/ place[j] < place[i]
      BY <1>0, <1>6
    <2>2. place[i] \in 1..n /\ place[j] \in 1..n
      BY <1>5
    <2> QED
      BY <2>1, <2>2
  <1>8. \A k \in 1..n : \E i \in P : place[i] = k
    <2>1. place \in [P -> 1..n]
      BY <1>0, <1>5
    <2>2. place \in Injection(P, 1..n)
      BY <1>7, <2>1 DEF Injection, IsInjective
    <2>3. place \in Surjection(P, 1..n)
      BY <1>2, <2>2, FS_Injection
    <2> QED
      BY <2>3 DEF Surjection
  <1>9. \A k \in 1..n : at[k] \in P /\ place[at[k]] = k
    <2>1. \A k \in 1..n : A(k) \in P /\ place[A(k)] = k
      BY <1>8
    <2> HIDE DEF A
    <2> QED
      BY <2>1
  <1>10. \A i \in P : at[place[i]] = i /\ place[i] \in 1..n
    <2> SUFFICES ASSUME NEW i \in P PROVE at[place[i]] = i /\ place[i] \in 1..n
      OBVIOUS
    <2>1. place[i] \in 1..n
      BY <1>5
    <2>2. at[place[i]] \in P /\ place[at[place[i]]] = place[i]
      BY <1>9, <2>1
    <2> HIDE DEF at
    <2> QED
      BY <1>7, <2>1, <2>2
  <1>11. at \in [1..n -> P]
    <2> HIDE DEF A
    <2> QED
      BY <1>9
  <1> HIDE DEF at
  <1>12. ASSUME NEW k \in 1..n, NEW l \in 1..n, k < l
         PROVE  <<at[k], at[l]>> \in R
    <2>1. at[k] \in P /\ at[l] \in P /\ place[at[k]] = k /\ place[at[l]] = l
      BY <1>9
    <2>2. ~(<<at[l], at[k]>> \in R)
      <3> SUFFICES ASSUME <<at[l], at[k]>> \in R PROVE FALSE
        OBVIOUS
      <3>1. place[at[l]] < place[at[k]]
        BY <1>6, <2>1
      <3> QED
        BY <1>12, <2>1, <3>1
    <2>3. at[k] # at[l]
      <3>1. k \in Int /\ l \in Int
        BY <1>2
      <3> SUFFICES ASSUME at[k] = at[l] PROVE FALSE
        OBVIOUS
      <3>2. k = l
        BY <2>1
      <3> QED
        BY ONLY <1>12, <3>1, <3>2
    <2> QED
      BY <1>0, <2>1, <2>2, <2>3
  <1>13. \A i \in P : \E k \in 1..n : at[k] = i
    BY <1>10
  <1> QED
    BY <1>11, <1>12, <1>13 DEF Ordered, at, A, n, place

-----------------------------------------------------------------------------
\* Folds from the left, and the edges that they add.

\* A set of places that is not empty has a largest one.
LEMMA LargestIn ==
    ASSUME NEW m \in Nat, NEW s \in SUBSET (1..m), s # {}
    PROVE  Engine!Max(s) \in s
  <1> DEFINE W == {k \in Nat : \A t \in SUBSET (1..k) : t # {} => \E x \in t : \A y \in t : x >= y}
  <1>1. 0 \in W
    <2>1. 1..0 = {}
      OBVIOUS
    <2> QED
      BY <2>1
  <1>2. ASSUME NEW k \in W
        PROVE  k + 1 \in W
    <2> SUFFICES ASSUME NEW t \in SUBSET (1..(k + 1)), t # {}
                 PROVE  \E x \in t : \A y \in t : x >= y
      OBVIOUS
    <2>1. CASE k + 1 \in t
      BY <2>1
    <2>2. CASE k + 1 \notin t
      <3>1. t \in SUBSET (1..k)
        BY <2>2
      <3> QED
        BY <3>1
    <2> QED
      BY <2>1, <2>2
  <1>3. W = Nat
    <2> HIDE DEF W
    <2>1. W \in SUBSET Nat
      BY DEF W
    <2> QED
      BY <1>1, <1>2, <2>1, Induction
  <1>4. \E x \in s : \A y \in s : x >= y
    BY <1>3
  <1> QED
    BY <1>4 DEF Engine!Max

\* The function that a fold from the left is computed by: of a set of places,
\* the last is added to what the others give.
FoldsTo(f, D, step, base, n, seq) ==
    /\ f \in [SUBSET (1..n) -> D]
    /\ \A s \in SUBSET (1..n) :
          f[s] = IF s = {} THEN base
                 ELSE step[<<f[s \ {Engine!Max(s)}], seq[Engine!Max(s)]>>]

LEMMA Folded ==
    ASSUME NEW D, NEW E, NEW step \in [D \X E -> D], NEW base \in D,
           NEW n \in Nat, NEW seq \in [1..n -> E]
    PROVE  \E f : FoldsTo(f, D, step, base, n, seq)
  <1> DEFINE Largest(s) == Engine!Max(s)
             Is(f, m) ==
               /\ f \in [SUBSET (1..m) -> D]
               /\ \A s \in SUBSET (1..m) :
                     f[s] = IF s = {} THEN base ELSE step[<<f[s \ {Largest(s)}], seq[Largest(s)]>>]
             T == {m \in Nat : m <= n => \E f : Is(f, m)}
  <1>1. ASSUME NEW m \in Nat, NEW s \in SUBSET (1..(m + 1)), m + 1 \in s
        PROVE  Largest(s) = m + 1
    <2>1. \A x \in s : x \in Int /\ x <= m + 1
      OBVIOUS
    <2>2. \E x \in s : \A y \in s : x >= y
      BY <1>1, <2>1
    <2>3. Largest(s) \in s /\ \A y \in s : Largest(s) >= y
      BY <2>2 DEF Engine!Max
    <2> HIDE DEF Largest
    <2>4. Largest(s) \in Int /\ Largest(s) <= m + 1 /\ Largest(s) >= m + 1
      BY <1>1, <2>1, <2>3
    <2> QED
      BY ONLY <2>4
  <1>2. ASSUME NEW m \in Nat, NEW s \in SUBSET (1..m), s # {}
        PROVE  Largest(s) \in s
    BY <1>2, LargestIn
  <1> HIDE DEF Largest
  <1>3. 0 \in T
    <2>1. Is([s \in SUBSET (1..0) |-> base], 0)
      BY DEF Is
    <2> HIDE DEF Is
    <2> QED
      BY <2>1
  <1>4. ASSUME NEW m \in T
        PROVE  m + 1 \in T
    <2> HIDE DEF Is
    <2> SUFFICES ASSUME m + 1 <= n PROVE \E g : Is(g, m + 1)
      OBVIOUS
    <2>0. \E f : Is(f, m)
      OBVIOUS
    <2>1. PICK f : Is(f, m)
      BY ONLY <2>0
    <2> USE DEF Is
    <2> DEFINE g == [s \in SUBSET (1..(m + 1)) |->
                       IF m + 1 \in s THEN step[<<f[s \ {m + 1}], seq[m + 1]>>] ELSE f[s]]
    <2>2. seq[m + 1] \in E /\ m \in Nat
      OBVIOUS
    <2>3. ASSUME NEW s \in SUBSET (1..(m + 1))
          PROVE  s \ {m + 1} \in SUBSET (1..m)
      OBVIOUS
    <2>4. ASSUME NEW s \in SUBSET (1..(m + 1))
          PROVE  /\ g[s] \in D
                 /\ g[s] = IF s = {} THEN base ELSE step[<<g[s \ {Largest(s)}], seq[Largest(s)]>>]
      <3>1. CASE m + 1 \in s
        <4>1. g[s] = step[<<f[s \ {m + 1}], seq[m + 1]>>] /\ f[s \ {m + 1}] \in D
          BY <2>1, <2>3, <3>1
        <4>2. g[s \ {m + 1}] = f[s \ {m + 1}]
          OBVIOUS
        <4>3. Largest(s) = m + 1
          BY <1>1, <2>2, <3>1
        <4> HIDE DEF g
        <4> QED
          BY <2>2, <3>1, <4>1, <4>2, <4>3
      <3>2. CASE m + 1 \notin s
        <4>1. s \in SUBSET (1..m)
          BY <3>2
        <4>2. g[s] = f[s]
          BY <3>2
        <4>3. f[s] \in D
              /\ f[s] = IF s = {} THEN base ELSE step[<<f[s \ {Largest(s)}], seq[Largest(s)]>>]
          BY <2>1, <4>1
        <4>4. s \ {Largest(s)} \in SUBSET (1..(m + 1)) /\ m + 1 \notin s \ {Largest(s)}
          BY <3>2
        <4>5. g[s \ {Largest(s)}] = f[s \ {Largest(s)}]
          BY <4>4
        <4> HIDE DEF g
        <4> QED
          BY <4>2, <4>3, <4>5
      <3> QED
        BY <3>1, <3>2
    <2>5. g \in [SUBSET (1..(m + 1)) -> D]
      <3>1. g = [s \in SUBSET (1..(m + 1)) |-> g[s]]
        OBVIOUS
      <3> HIDE DEF g
      <3> QED
        BY <2>4, <3>1
    <2>6. Is(g, m + 1)
      BY <2>4, <2>5
    <2> HIDE DEF Is, g
    <2> QED
      BY <2>6
  <1> HIDE DEF Is
  <1>5. T = Nat
    <2> HIDE DEF T
    <2>1. T \in SUBSET Nat
      BY DEF T
    <2> QED
      BY <1>3, <1>4, <2>1, Induction
  <1>6. \E f : Is(f, n)
    <2>1. n \in T /\ n <= n
      BY <1>5
    <2> QED
      BY <2>1
  <1> QED
    BY <1>6 DEF Is, Largest, FoldsTo

\* The largest of the first places is the last of them.
LEMMA LastPlace ==
    ASSUME NEW m \in Nat
    PROVE  /\ Engine!Max(1..(m + 1)) = m + 1
           /\ (1..(m + 1)) \ {m + 1} = 1..m
  <1>1. \E x \in 1..(m + 1) : \A y \in 1..(m + 1) : x >= y
    OBVIOUS
  <1>2. Engine!Max(1..(m + 1)) \in 1..(m + 1)
        /\ \A y \in 1..(m + 1) : Engine!Max(1..(m + 1)) >= y
    BY <1>1 DEF Engine!Max
  <1> QED
    BY <1>2

-----------------------------------------------------------------------------
\* An edge between two entities of the case.
Fits(e, entities) == e.ends \subseteq entities /\ Engine!Cardinality(e.ends) = 2

\* What is left of edges that are added one after the other.
LEMMA EdgesAdded ==
    ASSUME NEW S, NEW old, NEW entities, NEW new \in Seq(S),
           NEW R, R = Engine!AddEdges(old, entities, new)
    PROVE  /\ \A f \in R : f \in old \/ \E i \in DOMAIN new : f = new[i] /\ Fits(f, entities)
           /\ \A i \in DOMAIN new : Fits(new[i], entities) =>
                \E f \in R : \E j \in DOMAIN new : f = new[j] /\ f.ends = new[i].ends
  <1> DEFINE n == Len(new)
             U == old \cup S
             D == SUBSET U
             Fit(e) == Fits(e, entities)
             Added(es, e) == Engine!AddEdge(es, entities, e)
             step == [p \in D \X U |-> Added(p[1], p[2])]
             Iter(f) == f = [s \in SUBSET (DOMAIN new) |->
                               IF s = {} THEN old
                               ELSE Added(f[s \ {Engine!Max(s)}], new[Engine!Max(s)])]
             iter == CHOOSE f : Iter(f)
  <1>1. Engine!AddEdges(old, entities, new) = iter[DOMAIN new]
    BY DEF Engine!AddEdges, Engine!FoldLeft, Engine!MapThenFoldSet
  <1>2. n \in Nat /\ DOMAIN new = 1..n /\ \A i \in 1..n : new[i] \in U
    OBVIOUS
  <1>0. old \in D /\ U = old \cup S
    OBVIOUS
  <1> HIDE DEF U
  <1>3. \A es \in D, e \in U :
          Added(es, e) = IF Fit(e)
                         THEN {f \in es : <<f.ends, f.key>> # <<e.ends, e.key>>} \cup {e}
                         ELSE es
    BY DEF Engine!AddEdge, Fits
  <1> HIDE DEF Added, Fit, n
  <1>4. step \in [D \X U -> D] /\ \A es \in D, e \in U : step[<<es, e>>] = Added(es, e)
    BY <1>3
  <1> HIDE DEF step
  <1>5. \E f : Iter(f)
    <2> DEFINE Last(s) == Engine!Max(s)
    <2>1. PICK f : /\ f \in [SUBSET (1..n) -> D]
                   /\ \A s \in SUBSET (1..n) :
                        f[s] = IF s = {} THEN old
                               ELSE step[<<f[s \ {Last(s)}], new[Last(s)]>>]
      <3>1. old \in D
        BY <1>0
      <3>2. step \in [D \X U -> D] /\ n \in Nat /\ new \in [1..n -> U]
        BY <1>2, <1>4
      <3> HIDE DEF D
      <3>3. \E f : FoldsTo(f, D, step, old, n, new)
        BY ONLY <3>1, <3>2, Folded
      <3> QED
        BY ONLY <3>3 DEF FoldsTo
    <2>2. ASSUME NEW s \in SUBSET (1..n), s # {}
          PROVE  Last(s) \in s
      BY <1>2, <2>2, LargestIn
    <2> HIDE DEF Last
    <2>3. ASSUME NEW s \in SUBSET (1..n), s # {}
          PROVE  f[s] = Added(f[s \ {Last(s)}], new[Last(s)])
      <3>1. Last(s) \in 1..n /\ s \ {Last(s)} \in SUBSET (1..n)
        BY <2>2, <2>3
      <3>2. new[Last(s)] \in U /\ f[s \ {Last(s)}] \in D
        BY <1>2, <2>1, <3>1
      <3> QED
        BY <1>4, <2>1, <2>3, <3>2
    <2>4. f = [s \in SUBSET (1..n) |->
                 IF s = {} THEN old ELSE Added(f[s \ {Last(s)}], new[Last(s)])]
      BY <2>1, <2>3
    <2> QED
      BY <1>2, <2>4 DEF Last
  <1>6. Iter(iter)
    BY ONLY <1>5
  <1> DEFINE sofar(m) == iter[1..m]
  <1>7. sofar(0) = old
    <2>1. 1..0 = {} /\ {} \in SUBSET (DOMAIN new)
      OBVIOUS
    <2> HIDE DEF iter
    <2> QED
      BY <1>6, <2>1
  <1>8. ASSUME NEW m \in Nat, m + 1 <= n
        PROVE  sofar(m + 1) = Added(sofar(m), new[m + 1])
    <2>1. 1..(m + 1) \in SUBSET (DOMAIN new) /\ 1..(m + 1) # {}
      <3>1. \A x \in 1..(m + 1) : x \in 1..n
        BY <1>2, <1>8
      <3>2. 1 \in 1..(m + 1)
        OBVIOUS
      <3> QED
        BY ONLY <1>2, <3>1, <3>2
    <2>2. Engine!Max(1..(m + 1)) = m + 1 /\ (1..(m + 1)) \ {m + 1} = 1..m
      BY LastPlace
    <2>3. ASSUME NEW s \in SUBSET (DOMAIN new), s # {}
          PROVE  iter[s] = Added(iter[s \ {Engine!Max(s)}], new[Engine!Max(s)])
      BY <1>6, <2>3
    <2> HIDE DEF iter
    <2> QED
      BY <2>1, <2>2, <2>3
  <1> HIDE DEF sofar, iter
  <1> DEFINE Is(m) ==
               /\ sofar(m) \in SUBSET U
               /\ \A f \in sofar(m) : f \in old \/ \E i \in 1..m : f = new[i] /\ Fit(f)
               /\ \A i \in 1..m : Fit(new[i]) =>
                    \E f \in sofar(m) : \E j \in 1..m : f = new[j] /\ f.ends = new[i].ends
             T == {m \in Nat : m <= n => Is(m)}
  <1>9. 0 \in T
    BY <1>0, <1>7
  <1>10. ASSUME NEW m \in T
         PROVE  m + 1 \in T
    <2> HIDE DEF Is
    <2> SUFFICES ASSUME m + 1 <= n PROVE Is(m + 1)
      OBVIOUS
    <2>1. Is(m) /\ m \in Nat
      BY <1>2
    <2> USE DEF Is
    <2>2. new[m + 1] \in U /\ m + 1 \in 1..(m + 1) /\ 1..(m + 1) = 1..m \cup {m + 1}
      BY <1>2
    <2>3. sofar(m + 1) = Added(sofar(m), new[m + 1])
      BY <1>8
    <2> DEFINE e == new[m + 1]
    <2>4. CASE ~Fit(e)
      <3>1. sofar(m + 1) = sofar(m)
        BY <1>3, <2>1, <2>2, <2>3, <2>4
      <3> QED
        BY <2>1, <2>2, <2>4, <3>1
    <2>5. CASE Fit(e)
      <3>1. sofar(m + 1) = {f \in sofar(m) : <<f.ends, f.key>> # <<e.ends, e.key>>} \cup {e}
        BY <1>3, <2>1, <2>2, <2>3, <2>5
      <3>2. sofar(m + 1) \in SUBSET U
        BY <2>1, <2>2, <3>1
      <3>3. ASSUME NEW f \in sofar(m + 1)
            PROVE  f \in old \/ \E i \in 1..(m + 1) : f = new[i] /\ Fit(f)
        <4>1. CASE f = e
          BY <2>2, <2>5, <4>1
        <4>2. CASE f \in sofar(m)
          BY <2>1, <2>2, <4>2
        <4> QED
          BY <3>1, <4>1, <4>2
      <3>4. ASSUME NEW i \in 1..(m + 1), Fit(new[i])
            PROVE  \E f \in sofar(m + 1) : \E j \in 1..(m + 1) : f = new[j] /\ f.ends = new[i].ends
        <4>0. e \in sofar(m + 1)
          BY <3>1
        <4>1. CASE i = m + 1
          BY <2>2, <4>0, <4>1
        <4>2. CASE i \in 1..m
          <5>1. PICK f \in sofar(m) : \E j \in 1..m : f = new[j] /\ f.ends = new[i].ends
            BY <2>1, <3>4, <4>2
          <5>2. CASE <<f.ends, f.key>> = <<e.ends, e.key>>
            <6>1. e.ends = new[i].ends
              BY <5>1, <5>2
            <6> QED
              BY <2>2, <4>0, <6>1
          <5>3. CASE <<f.ends, f.key>> # <<e.ends, e.key>>
            <6>1. f \in sofar(m + 1)
              BY <3>1, <5>3
            <6> QED
              BY <2>2, <5>1, <6>1
          <5> QED
            BY <5>2, <5>3
        <4> QED
          BY <2>2, <4>1, <4>2
      <3> HIDE DEF e
      <3> QED
        BY <3>2, <3>3, <3>4
    <2> HIDE DEF Is
    <2> QED
      BY <2>4, <2>5
  <1>11. Is(n)
    <2> HIDE DEF Is
    <2>1. T = Nat
      <3> HIDE DEF T
      <3>1. T \in SUBSET Nat
        BY DEF T
      <3> QED
        BY <1>9, <1>10, <3>1, Induction
    <2> QED
      BY <1>2, <2>1
  <1> QED
    BY <1>1, <1>2, <1>11 DEF sofar, Fit, n

-----------------------------------------------------------------------------
\* The graph of the artifacts, the set that is made a sequence, the pings.

\* The links between entities are of the kinds of Kind: calls, chats and files.
Linked(x) == [ends |-> {x.a, x.b}, key |-> <<x.id>>, kind |-> Engine!Kind[x.type]]

Links == {Linked(x) : x \in {y \in CaseArtifacts : y.type \in DOMAIN Engine!Kind}}

LEMMA LinksAreNoColocations ==
    ASSUME NEW entities, NEW artifacts \in Seq(CaseArtifacts)
    PROVE  Engine!BuildGraph(entities, artifacts) \in SUBSET Links
  <1> DEFINE n == Len(artifacts)
             D == SUBSET Links
             Built(es, x) == IF x.type \notin DOMAIN Engine!Kind THEN es
                             ELSE Engine!AddEdge(es, entities, Linked(x))
             step == [p \in D \X CaseArtifacts |-> Built(p[1], p[2])]
             Iter(f) == f = [s \in SUBSET (DOMAIN artifacts) |->
                               IF s = {} THEN {}
                               ELSE Built(f[s \ {Engine!Max(s)}], artifacts[Engine!Max(s)])]
             iter == CHOOSE f : Iter(f)
  <1>1. Engine!BuildGraph(entities, artifacts) = iter[DOMAIN artifacts]
    BY DEF Engine!BuildGraph, Engine!FoldLeft, Engine!MapThenFoldSet, Linked
  <1>2. n \in Nat /\ DOMAIN artifacts = 1..n /\ artifacts \in [1..n -> CaseArtifacts]
    OBVIOUS
  <1>3. \A es \in D, x \in CaseArtifacts : Built(es, x) \in D
    BY DEF Engine!AddEdge, Links
  <1> HIDE DEF Built, n, D
  <1>4. step \in [D \X CaseArtifacts -> D]
        /\ \A es \in D, x \in CaseArtifacts : step[<<es, x>>] = Built(es, x)
    BY <1>3
  <1>5. {} \in D
    BY DEF D
  <1> HIDE DEF step
  <1>6. PICK f : FoldsTo(f, D, step, {}, n, artifacts)
    BY ONLY <1>2, <1>4, <1>5, Folded
  <1>7. Iter(f)
    <2> DEFINE Last(s) == Engine!Max(s)
    <2>1. /\ f \in [SUBSET (1..n) -> D]
          /\ \A s \in SUBSET (1..n) :
               f[s] = IF s = {} THEN {} ELSE step[<<f[s \ {Last(s)}], artifacts[Last(s)]>>]
      BY <1>6 DEF FoldsTo
    <2>2. ASSUME NEW s \in SUBSET (1..n), s # {}
          PROVE  Last(s) \in s
      BY <1>2, <2>2, LargestIn
    <2> HIDE DEF Last
    <2>3. ASSUME NEW s \in SUBSET (1..n), s # {}
          PROVE  f[s] = Built(f[s \ {Last(s)}], artifacts[Last(s)])
      <3>1. Last(s) \in 1..n /\ s \ {Last(s)} \in SUBSET (1..n)
        BY <2>2, <2>3
      <3>2. artifacts[Last(s)] \in CaseArtifacts /\ f[s \ {Last(s)}] \in D
        BY <1>2, <2>1, <3>1
      <3> QED
        BY <1>4, <2>1, <2>3, <3>2
    <2>4. f = [s \in SUBSET (1..n) |->
                 IF s = {} THEN {} ELSE Built(f[s \ {Last(s)}], artifacts[Last(s)])]
      BY <2>1, <2>3
    <2> QED
      BY <1>2, <2>4 DEF Last
  <1>8. Iter(iter)
    BY ONLY <1>7
  <1> DEFINE sofar(m) == iter[1..m]
             T == {m \in Nat : m <= n => sofar(m) \in D}
  <1>9. 0 \in T
    <2>1. 1..0 = {} /\ {} \in SUBSET (DOMAIN artifacts)
      OBVIOUS
    <2> HIDE DEF iter
    <2>2. sofar(0) = {}
      BY <1>8, <2>1
    <2> QED
      BY <1>5, <2>2
  <1>10. ASSUME NEW m \in T
         PROVE  m + 1 \in T
    <2> SUFFICES ASSUME m + 1 <= n PROVE sofar(m + 1) \in D
      OBVIOUS
    <2>0. m \in Nat
      OBVIOUS
    <2>1. 1..(m + 1) \in SUBSET (DOMAIN artifacts) /\ 1..(m + 1) # {}
      <3>1. m + 1 <= n /\ n \in Nat /\ DOMAIN artifacts = 1..n
        BY <1>2
      <3>2. \A x \in 1..(m + 1) : x \in 1..n
        BY ONLY <2>0, <3>1
      <3>3. 1 \in 1..(m + 1)
        BY ONLY <2>0
      <3> QED
        BY ONLY <3>1, <3>2, <3>3
    <2>2. Engine!Max(1..(m + 1)) = m + 1 /\ (1..(m + 1)) \ {m + 1} = 1..m
      BY LastPlace
    <2>3. ASSUME NEW s \in SUBSET (DOMAIN artifacts), s # {}
          PROVE  iter[s] = Built(iter[s \ {Engine!Max(s)}], artifacts[Engine!Max(s)])
      BY <1>8, <2>3
    <2> HIDE DEF iter
    <2>4. sofar(m + 1) = Built(sofar(m), artifacts[m + 1])
      BY <2>1, <2>2, <2>3
    <2>5. sofar(m) \in D /\ artifacts[m + 1] \in CaseArtifacts
      BY <1>2
    <2> HIDE DEF sofar
    <2> QED
      BY <1>3, <2>4, <2>5
  <1>11. sofar(n) \in D
    <2> HIDE DEF sofar
    <2>1. T = Nat
      <3> HIDE DEF T
      <3>1. T \in SUBSET Nat
        BY DEF T
      <3> QED
        BY <1>9, <1>10, <3>1, Induction
    <2> QED
      BY <1>2, <2>1
  <1> QED
    BY <1>1, <1>2, <1>11 DEF D

\* A finite set as a sequence.
LEMMA SetAsSequence ==
    ASSUME NEW S, IsFiniteSet(S)
    PROVE  Engine!SetToSeq(S) \in Seq(S) /\ Elements(Engine!SetToSeq(S)) = S
  <1> DEFINE c == Cardinality(S)
             s == Engine!SetToSeq(S)
  <1>1. c \in Nat /\ ExistsBijection(1..c, S)
    BY FS_CardinalityType
  <1>2. s = CHOOSE f \in [1..c -> S] : \A a, b \in DOMAIN f : f[a] = f[b] => a = b
    BY DEF Engine!SetToSeq, Engine!IsInjective, Engine!Cardinality, Cardinality
  <1> HIDE DEF c, s
  <1>3. \E f \in [1..c -> S] : \A a, b \in DOMAIN f : f[a] = f[b] => a = b
    BY <1>1 DEF ExistsBijection, Bijection, Injection, IsInjective
  <1>4. s \in [1..c -> S] /\ \A a, b \in 1..c : s[a] = s[b] => a = b
    BY <1>2, <1>3
  <1>5. s \in Injection(1..c, S)
    BY <1>4 DEF Injection, IsInjective
  <1>6. Cardinality(1..c) = Cardinality(S)
    <2>1. c \in Int /\ 1 \in Int /\ (1 > c => c = 0)
      BY <1>1
    <2>2. Cardinality(1..c) = IF 1 > c THEN 0 ELSE c - 1 + 1
      BY ONLY <2>1, FS_Interval
    <2>3. Cardinality(S) = c
      BY DEF c
    <2> QED
      BY <1>1, <2>1, <2>2, <2>3
  <1>7. s \in Surjection(1..c, S)
    BY <1>5, <1>6, FS_Injection
  <1>8. \A x \in S : \E i \in 1..c : s[i] = x
    BY <1>7 DEF Surjection
  <1> QED
    BY <1>1, <1>4, <1>8 DEF Elements, s

\* The pings in the order of time.
LEMMA SortedPings ==
    ASSUME NEW artifacts \in Seq(CaseArtifacts)
    PROVE  LET s == Engine!Sorted(artifacts)
               P == Engine!Pings(artifacts)
               n == Cardinality(P)
           IN  /\ n \in Nat /\ DOMAIN s = 1..n
               /\ \A k \in 1..n : \E i \in P : s[k] = artifacts[i]
               /\ \A i \in P : \E k \in 1..n : s[k] = artifacts[i]
               /\ \A k, l \in 1..n : k < l => s[k].time <= s[l].time
               /\ \A k \in 1..n : s[k].time \in Int
  <1> DEFINE P == Engine!Pings(artifacts)
             n == Cardinality(P)
             R == {p \in P \X P :
                     \/ artifacts[p[1]].time < artifacts[p[2]].time
                     \/ artifacts[p[1]].time = artifacts[p[2]].time /\ p[1] < p[2]}
             at == Ordered(P, R)
             s == Engine!Sorted(artifacts)
  <1>1. s = [k \in 1..n |-> artifacts[at[k]]]
    <2> DEFINE A(k) == CHOOSE i \in P : Place(P, R)[i] = k
    <2>1. s = [k \in 1..n |-> artifacts[A(k)]]
      BY DEF Engine!Sorted, Engine!Cardinality, Cardinality, Place
    <2>2. \A k \in 1..n : at[k] = A(k)
      BY DEF Ordered
    <2> HIDE DEF P, R, n, at, A, s
    <2> QED
      BY <2>1, <2>2
  <1>2. P \subseteq DOMAIN artifacts /\ IsFiniteSet(P)
    <2>1. DOMAIN artifacts = 1..Len(artifacts) /\ Len(artifacts) \in Int /\ 1 \in Int
      OBVIOUS
    <2>2. IsFiniteSet(DOMAIN artifacts)
      BY ONLY <2>1, FS_Interval
    <2>3. P \subseteq DOMAIN artifacts
      BY DEF Engine!Pings
    <2> QED
      BY <2>2, <2>3, FS_Subset
  <1>3. \A i \in P : artifacts[i].time \in Int /\ i \in Int
    BY <1>2, TimesAreNumbers
  <1>4. StrictOrder(P, R)
    <2> HIDE DEF P
    <2>1. \A i, j \in P : <<i, j>> \in R <=>
             \/ artifacts[i].time < artifacts[j].time
             \/ artifacts[i].time = artifacts[j].time /\ i < j
      OBVIOUS
    <2>2. R \in SUBSET (P \X P)
      OBVIOUS
    <2> HIDE DEF R
    <2>3. \A i \in P : <<i, i>> \notin R
      BY <1>3, <2>1
    <2>4. \A i, j \in P : i = j \/ <<i, j>> \in R \/ <<j, i>> \in R
      <3> SUFFICES ASSUME NEW i \in P, NEW j \in P, i # j
                   PROVE  <<i, j>> \in R \/ <<j, i>> \in R
        OBVIOUS
      <3>1. /\ artifacts[i].time \in Int /\ artifacts[j].time \in Int /\ i \in Int /\ j \in Int
            /\ <<i, j>> \in R <=> \/ artifacts[i].time < artifacts[j].time
                                  \/ artifacts[i].time = artifacts[j].time /\ i < j
            /\ <<j, i>> \in R <=> \/ artifacts[j].time < artifacts[i].time
                                  \/ artifacts[j].time = artifacts[i].time /\ j < i
        BY <1>3, <2>1
      <3> QED
        BY ONLY <3>1, i # j
    <2>5. ASSUME NEW i \in P, NEW j \in P, NEW k \in P, <<i, j>> \in R, <<j, k>> \in R
          PROVE  <<i, k>> \in R
      <3>1. /\ artifacts[i].time \in Int /\ artifacts[j].time \in Int /\ artifacts[k].time \in Int
            /\ i \in Int /\ j \in Int /\ k \in Int
        BY <1>3
      <3>2. \/ artifacts[i].time < artifacts[j].time
            \/ artifacts[i].time = artifacts[j].time /\ i < j
        BY <2>1, <2>5
      <3>3. \/ artifacts[j].time < artifacts[k].time
            \/ artifacts[j].time = artifacts[k].time /\ j < k
        BY <2>1, <2>5
      <3>4. \/ artifacts[i].time < artifacts[k].time
            \/ artifacts[i].time = artifacts[k].time /\ i < k
        BY ONLY <3>1, <3>2, <3>3
      <3> QED
        BY <2>1, <3>4
    <2> QED
      BY <2>2, <2>3, <2>4, <2>5 DEF StrictOrder
  <1>5. \A i, j \in P : <<i, j>> \in R => artifacts[i].time <= artifacts[j].time
    <2> HIDE DEF P
    <2> QED
      BY <1>3
  <1>6. n \in Nat
    BY <1>2, FS_CardinalityType
  <1> HIDE DEF P, R, s
  <1>7. /\ at \in [1..n -> P]
        /\ \A i \in P : \E k \in 1..n : at[k] = i
        /\ \A k, l \in 1..n : k < l => <<at[k], at[l]>> \in R
    BY ONLY <1>2, <1>4, InOrder
  <1> HIDE DEF at, n
  <1>8. \A k \in 1..n : at[k] \in P /\ s[k] = artifacts[at[k]]
    BY <1>1, <1>7
  <1>9. DOMAIN s = 1..n
    BY <1>1
  <1>10. \A k, l \in 1..n : k < l => s[k].time <= s[l].time
    BY <1>5, <1>7, <1>8
  <1> QED
    BY <1>3, <1>6, <1>7, <1>8, <1>9, <1>10 DEF s, P, n

-----------------------------------------------------------------------------
\* The sweep over the pings.

CaseTyped == caseFile \in [ids : CaseIds, artifacts : Seq(CaseArtifacts)]

LEMMA CaseIsTyped == AnalysisSpec => []CaseTyped
  <1>1. AnalysisInit => CaseTyped
    <2> SUFFICES ASSUME AnalysisInit PROVE CaseTyped
      OBVIOUS
    <2>1. PICK i \in CaseIds : caseFile = [ids |-> i, artifacts |-> <<>>]
      BY DEF AnalysisInit
    <2>2. <<>> \in Seq(CaseArtifacts)
      OBVIOUS
    <2> QED
      BY <2>1, <2>2 DEF CaseTyped
  <1>2. CaseTyped /\ [AnalysisNext]_analysisVars => CaseTyped'
    <2> SUFFICES ASSUME CaseTyped, [AnalysisNext]_analysisVars PROVE CaseTyped'
      OBVIOUS
    <2>1. CASE UNCHANGED caseFile
      BY <2>1 DEF CaseTyped
    <2>2. ASSUME NEW x \in CaseArtifacts, AddArtifact(x)
          PROVE  CaseTyped'
      BY <2>2 DEF CaseTyped, AddArtifact
    <2> QED
      BY <2>1, <2>2 DEF AnalysisNext, analysisVars, ReadSentence, AddCall, AddTransfer, AddMember
  <1> QED
    BY <1>1, <1>2, PTL DEF AnalysisSpec

LEMMA TwoElements ==
    ASSUME NEW a, NEW b, a # b
    PROVE  Engine!Cardinality({a, b}) = 2
  <1>1. IsFiniteSet({a}) /\ Cardinality({a}) = 1
    BY FS_Singleton
  <1>2. Cardinality({a} \cup {b}) = 2
    BY <1>1, FS_AddElement
  <1>3. {a} \cup {b} = {a, b}
    OBVIOUS
  <1>4. Engine!Cardinality({a, b}) = Cardinality({a, b})
    BY DEF Engine!Cardinality, Cardinality
  <1> QED
    BY <1>2, <1>3, <1>4

LEMMA Sweep ==
    ASSUME NEW ids, NEW artifacts \in Seq(CaseArtifacts)
    PROVE  LET edges == Engine!Edges(ids, artifacts)
               pings == {artifacts[i] : i \in Engine!Pings(artifacts)}
               together == {p \in pings \X pings :
                              /\ {p[1].a, p[2].a} \subseteq ids /\ p[1].a # p[2].a
                              /\ p[1].time - p[2].time \in -MaxMinutes .. MaxMinutes
                              /\ <<p[1].place, p[2].place>> \in CloseTo}
           IN  {e.ends : e \in {f \in edges : f.kind = "colocation"}}
                   = {{p[1].a, p[2].a} : p \in together}
  <1> DEFINE edges == Engine!Edges(ids, artifacts)
             P == Engine!Pings(artifacts)
             n == Cardinality(P)
             pings == {artifacts[i] : i \in P}
             Together(u, v) ==
               /\ {u.a, v.a} \subseteq ids /\ u.a # v.a
               /\ u.time - v.time \in -MaxMinutes .. MaxMinutes
               /\ <<u.place, v.place>> \in CloseTo
             together == {p \in pings \X pings : Together(p[1], p[2])}
             s == Engine!Sorted(artifacts)
             Met(k, l) ==
               /\ Engine!WithinReach(s, k, l)
               /\ s[k].a # s[l].a
               /\ <<s[k].place, s[l].place>> \in CloseTo
             Colocation(k, l) == [ends |-> {s[k].a, s[l].a}, key |-> <<s[k].id, s[l].id>>,
                                  kind |-> "colocation"]
             found == {p \in (1..n) \X (1..n) : Met(p[1], p[2])}
             S == {Colocation(p[1], p[2]) : p \in found}
             new == Engine!SetToSeq(S)
             Fit(e) == Fits(e, ids)
  <1>1. /\ n \in Nat /\ DOMAIN s = 1..n
        /\ \A k \in 1..n : \E i \in P : s[k] = artifacts[i]
        /\ \A i \in P : \E k \in 1..n : s[k] = artifacts[i]
        /\ \A k, l \in 1..n : k < l => s[k].time <= s[l].time
        /\ \A k \in 1..n : s[k].time \in Int
    <2> HIDE DEF s, P
    <2> QED
      BY SortedPings DEF s, P
  <1>2. edges = Engine!AddEdges(Engine!BuildGraph(ids, artifacts), ids, new)
    BY <1>1 DEF Engine!Edges, Engine!AddColocationEdges
  <1> HIDE DEF s, edges, P
  <1>3. \A k \in 1..n : s[k] \in pings
    BY <1>1
  <1>4. \A u \in pings : \E k \in 1..n : s[k] = u
    BY <1>1
  <1>5. IsFiniteSet(S)
    <2> DEFINE f == [p \in found |-> Colocation(p[1], p[2])]
    <2>1. IsFiniteSet(found)
      <3>1. n \in Int /\ 1 \in Int
        BY <1>1
      <3>2. IsFiniteSet(1..n)
        BY ONLY <3>1, FS_Interval
      <3>3. IsFiniteSet((1..n) \X (1..n))
        BY ONLY <3>2, FS_Product
      <3>4. found \subseteq (1..n) \X (1..n)
        OBVIOUS
      <3> HIDE DEF found
      <3> QED
        BY ONLY <3>3, <3>4, FS_Subset
    <2>2. f \in Surjection(found, S)
      <3> HIDE DEF Colocation, found
      <3> QED
        BY DEF Surjection
    <2> HIDE DEF f, S, found
    <2> QED
      BY ONLY <2>1, <2>2, FS_Surjection
  <1>6. new \in Seq(S) /\ Elements(new) = S
    <2> HIDE DEF S
    <2> QED
      BY <1>5, SetAsSequence
  <1>7. /\ \A f \in edges : f \in Links \/ (f \in S /\ Fit(f))
        /\ \A e \in S : Fit(e) => \E f \in edges : f \in S /\ f.ends = e.ends
    <2> DEFINE old == Engine!BuildGraph(ids, artifacts)
    <2>1. old \in SUBSET Links
      BY LinksAreNoColocations
    <2> HIDE DEF S, new, old
    <2>2. edges = Engine!AddEdges(old, ids, new)
      BY <1>2 DEF old
    <2>3. /\ \A f \in edges : f \in old \/ \E i \in DOMAIN new : f = new[i] /\ Fit(f)
          /\ \A i \in DOMAIN new : Fit(new[i]) =>
               \E f \in edges : \E j \in DOMAIN new : f = new[j] /\ f.ends = new[i].ends
      BY ONLY <1>6, <2>2, EdgesAdded
    <2>4. \A i \in DOMAIN new : new[i] \in S
      BY <1>6 DEF Elements
    <2>5. \A e \in S : \E i \in DOMAIN new : e = new[i]
      BY <1>6 DEF Elements
    <2> HIDE DEF Fit, Fits
    <2> QED
      BY <2>1, <2>3, <2>4, <2>5
  <1>8. \A e \in Links : e.kind # "colocation"
    BY DEF Links, Linked, Engine!Kind
  <1> HIDE DEF Fit
  <1>9. \A k, l \in 1..n : Met(k, l) => Colocation(k, l) \in S
    <2> HIDE DEF Met, Colocation
    <2> SUFFICES ASSUME NEW k \in 1..n, NEW l \in 1..n, Met(k, l) PROVE Colocation(k, l) \in S
      OBVIOUS
    <2>1. <<k, l>> \in found
      OBVIOUS
    <2> HIDE DEF found
    <2> QED
      BY <2>1
  <1>10. \A e \in S : \E k, l \in 1..n : Met(k, l) /\ e = Colocation(k, l)
    <2> HIDE DEF Met, Colocation
    <2> QED
      OBVIOUS
  <1>11. \A k, l : /\ Colocation(k, l).ends = {s[k].a, s[l].a}
                   /\ Colocation(k, l).kind = "colocation"
    OBVIOUS
  <1> HIDE DEF S, Colocation, n, new
  <1>12. ASSUME NEW k \in 1..n, NEW l \in 1..n, Met(k, l), Fit(Colocation(k, l))
         PROVE  Together(s[k], s[l])
    <2>1. {s[k].a, s[l].a} \subseteq ids
      BY <1>11, <1>12 DEF Fit, Fits
    <2>2. s[k].time - s[l].time \in -MaxMinutes .. MaxMinutes
      <3>1. k \in Int /\ l \in Int /\ k < l /\ l \in k + 1 .. l
        BY <1>1, <1>12 DEF Engine!WithinReach
      <3>2. LET dt == s[l].time - s[k].time IN (IF dt < 0 THEN -dt ELSE dt) <= MaxMinutes
        BY <1>12, <3>1 DEF Engine!WithinReach
      <3>3. s[k].time \in Int /\ s[l].time \in Int /\ MaxMinutes \in Nat
        BY <1>1, TimesAreNumbers
      <3> QED
        BY ONLY <3>2, <3>3
    <2> QED
      BY <1>12, <2>1, <2>2
  <1>13. ASSUME NEW k \in 1..n, NEW l \in 1..n, k < l, Together(s[k], s[l])
         PROVE  Met(k, l) /\ Fit(Colocation(k, l))
    <2>1. Fit(Colocation(k, l))
      <3>1. s[k].a # s[l].a /\ {s[k].a, s[l].a} \subseteq ids
        BY <1>13
      <3>2. Engine!Cardinality({s[k].a, s[l].a}) = 2
        BY <3>1, TwoElements
      <3>3. Colocation(k, l).ends = {s[k].a, s[l].a}
        BY <1>11
      <3> QED
        BY ONLY <3>1, <3>2, <3>3 DEF Fit, Fits
    <2>2. ASSUME NEW m \in k + 1 .. l
          PROVE  LET dt == s[m].time - s[k].time IN (IF dt < 0 THEN -dt ELSE dt) <= MaxMinutes
      <3>1. m \in 1..n /\ k < m /\ (m < l \/ m = l)
        BY <1>1
      <3>2. s[k].time <= s[m].time /\ s[m].time <= s[l].time
        <4>1. \A i, j \in 1..n : i < j => s[i].time <= s[j].time
          BY <1>1
        <4>2. s[l].time \in Int
          BY <1>1
        <4>3. m = l => s[m].time <= s[l].time
          BY ONLY <4>2
        <4> QED
          BY <3>1, <4>1, <4>3
      <3>3. s[k].time - s[l].time \in -MaxMinutes .. MaxMinutes
        BY <1>13
      <3>4. s[k].time \in Int /\ s[l].time \in Int /\ s[m].time \in Int /\ MaxMinutes \in Nat
        BY <1>1, <3>1, TimesAreNumbers
      <3> QED
        BY ONLY <3>2, <3>3, <3>4
    <2>3. Engine!WithinReach(s, k, l)
      BY <1>13, <2>2 DEF Engine!WithinReach
    <2> QED
      BY <1>13, <2>1, <2>3
  <1>14. ASSUME NEW u \in pings, NEW v \in pings, Together(u, v)
         PROVE  Together(v, u)
    <2>1. u.time \in Int /\ v.time \in Int /\ MaxMinutes \in Nat
      BY <1>1, <1>4, TimesAreNumbers
    <2>2. u.time - v.time \in -MaxMinutes .. MaxMinutes
      BY <1>14
    <2>3. v.time - u.time \in -MaxMinutes .. MaxMinutes
      BY ONLY <2>1, <2>2
    <2>4. <<v.place, u.place>> \in CloseTo
      BY <1>14, DistanceIsSymmetric
    <2> QED
      BY <1>14, <2>3, <2>4
  <1>15. \A u, v \in pings : Together(u, v) => u.a # v.a
    OBVIOUS
  <1> HIDE DEF Together, Met, pings
  <1>16. ASSUME NEW f \in edges, f.kind = "colocation"
         PROVE  \E p \in together : f.ends = {p[1].a, p[2].a}
    <2>1. f \in S /\ Fit(f)
      BY <1>7, <1>8, <1>16
    <2>2. PICK k \in 1..n, l \in 1..n : Met(k, l) /\ f = Colocation(k, l)
      BY <1>10, <2>1
    <2>3. Together(s[k], s[l]) /\ f.ends = {s[k].a, s[l].a}
      BY <1>11, <1>12, <2>1, <2>2
    <2>4. <<s[k], s[l]>> \in together
      BY <1>3, <2>3
    <2> HIDE DEF together
    <2> QED
      BY <2>3, <2>4
  <1>17. ASSUME NEW k \in 1..n, NEW l \in 1..n, k < l, Together(s[k], s[l])
         PROVE  \E f \in edges : f.kind = "colocation" /\ f.ends = {s[k].a, s[l].a}
    <2>1. Colocation(k, l) \in S /\ Fit(Colocation(k, l))
      BY <1>9, <1>13, <1>17
    <2>2. PICK f \in edges : f \in S /\ f.ends = {s[k].a, s[l].a}
      BY <1>7, <1>11, <2>1
    <2>3. f.kind = "colocation"
      BY <1>10, <1>11, <2>2
    <2> QED
      BY <2>2, <2>3
  <1>18. ASSUME NEW u \in pings, NEW v \in pings, Together(u, v)
         PROVE  \E f \in edges : f.kind = "colocation" /\ f.ends = {u.a, v.a}
    <2>1. PICK k \in 1..n : s[k] = u
      BY <1>4
    <2>2. PICK l \in 1..n : s[l] = v
      BY <1>4
    <2>3. k # l
      BY <1>15, <1>18, <2>1, <2>2
    <2>4. k < l \/ l < k
      BY <1>1, <2>3
    <2>5. CASE k < l
      BY <1>17, <1>18, <2>1, <2>2, <2>5
    <2>6. CASE l < k
      <3>1. Together(v, u) /\ {v.a, u.a} = {u.a, v.a}
        BY <1>14, <1>18
      <3>2. Together(s[l], s[k])
        BY <2>1, <2>2, <3>1
      <3>3. PICK f \in edges : f.kind = "colocation" /\ f.ends = {s[l].a, s[k].a}
        BY <1>17, <2>6, <3>2
      <3> QED
        BY <2>1, <2>2, <3>1, <3>3
    <2> QED
      BY <2>4, <2>5, <2>6
  <1>19. {e.ends : e \in {f \in edges : f.kind = "colocation"}}
           = {{p[1].a, p[2].a} : p \in together}
    <2>1. ASSUME NEW f \in edges, f.kind = "colocation"
          PROVE  f.ends \in {{p[1].a, p[2].a} : p \in together}
      <3> HIDE DEF together
      <3> QED
        BY <1>16, <2>1
    <2>2. ASSUME NEW p \in together
          PROVE  {p[1].a, p[2].a} \in {e.ends : e \in {f \in edges : f.kind = "colocation"}}
      <3>1. p[1] \in pings /\ p[2] \in pings /\ Together(p[1], p[2])
        OBVIOUS
      <3> QED
        BY <1>18, <3>1
    <2> HIDE DEF together
    <2> QED
      BY <2>1, <2>2
  <1> QED
    BY ONLY <1>19 DEF edges, pings, together, Together, P

\* The sweep over the pings in the order of time, which stops at the window,
\* finds the entities that a comparison of all pings finds, in every case.
THEOREM SweepIsComplete == AnalysisSpec => []SweepFindsAllPairs
  <1>1. CaseTyped => SweepFindsAllPairs
    BY Sweep DEF CaseTyped, SweepFindsAllPairs
  <1> QED
    BY <1>1, CaseIsTyped, PTL

-----------------------------------------------------------------------------
\* The words that are kept of a text.

\* What Kept does with one more word.
More(kept, w, kind, covered) ==
    IF w \notin kind \/ \E k \in Text!ToSet(kept) : <<w, k>> \in covered THEN kept
    ELSE Append(kept, w)

\* Kept as a history: what is kept after each of the words.
LEMMA KeptSoFar ==
    ASSUME NEW S, NEW words \in Seq(S), NEW kind, NEW covered
    PROVE  \E sofar : /\ sofar[0] = <<>>
                      /\ \A m \in 0..(Len(words) - 1) :
                           sofar[m + 1] = More(sofar[m], words[m + 1], kind, covered)
                      /\ sofar[Len(words)] = Text!Kept(words, kind, covered)
  <1> DEFINE n == Len(words)
             D == Seq(S)
             Added(kept, w) == More(kept, w, kind, covered)
             step == [p \in D \X S |-> Added(p[1], p[2])]
             Iter(f) == f = [s \in SUBSET (DOMAIN words) |->
                               IF s = {} THEN <<>>
                               ELSE Added(f[s \ {Text!Max(s)}], words[Text!Max(s)])]
             iter == CHOOSE f : Iter(f)
  <1>1. Text!Kept(words, kind, covered) = iter[DOMAIN words]
    BY DEF Text!Kept, Text!FoldLeft, Text!MapThenFoldSet, More
  <1>2. n \in Nat /\ DOMAIN words = 1..n /\ \A i \in 1..n : words[i] \in S
    OBVIOUS
  <1>3. \A kept \in D, w \in S : Added(kept, w) \in D
    BY DEF More
  <1> HIDE DEF Added, n
  <1>4. step \in [D \X S -> D] /\ \A kept \in D, w \in S : step[<<kept, w>>] = Added(kept, w)
    BY <1>3
  <1> HIDE DEF step
  <1>max. \A s : Text!Max(s) = Engine!Max(s)
    BY DEF Text!Max, Engine!Max
  <1>5. \E f : Iter(f)
    <2> DEFINE Last(s) == Engine!Max(s)
    <2>1. PICK f : /\ f \in [SUBSET (1..n) -> D]
                   /\ \A s \in SUBSET (1..n) :
                        f[s] = IF s = {} THEN <<>>
                               ELSE step[<<f[s \ {Last(s)}], words[Last(s)]>>]
      <3>1. <<>> \in D
        OBVIOUS
      <3>2. step \in [D \X S -> D] /\ n \in Nat /\ words \in [1..n -> S]
        BY <1>2, <1>4
      <3> HIDE DEF D
      <3>3. \E f : FoldsTo(f, D, step, <<>>, n, words)
        BY ONLY <3>1, <3>2, Folded
      <3> QED
        BY ONLY <3>3 DEF FoldsTo
    <2>2. ASSUME NEW s \in SUBSET (1..n), s # {}
          PROVE  Last(s) \in s
      BY <1>2, <2>2, LargestIn
    <2> HIDE DEF Last
    <2>3. ASSUME NEW s \in SUBSET (1..n), s # {}
          PROVE  f[s] = Added(f[s \ {Last(s)}], words[Last(s)])
      <3>1. Last(s) \in 1..n /\ s \ {Last(s)} \in SUBSET (1..n)
        BY <2>2, <2>3
      <3>2. words[Last(s)] \in S /\ f[s \ {Last(s)}] \in D
        BY <1>2, <2>1, <3>1
      <3> QED
        BY <1>4, <2>1, <2>3, <3>2
    <2>4. f = [s \in SUBSET (1..n) |->
                 IF s = {} THEN <<>> ELSE Added(f[s \ {Last(s)}], words[Last(s)])]
      BY <2>1, <2>3
    <2>5. \A s : Last(s) = Text!Max(s)
      BY <1>max DEF Last
    <2> QED
      BY <1>2, <2>4, <2>5
  <1>6. Iter(iter)
    BY ONLY <1>5
  <1> DEFINE sofar == [m \in 0..n |-> iter[1..m]]
  <1>7. sofar[0] = <<>>
    <2>1. 1..0 = {} /\ {} \in SUBSET (DOMAIN words) /\ 0 \in 0..n
      BY <1>2
    <2> HIDE DEF iter
    <2> QED
      BY <1>6, <2>1
  <1>8. ASSUME NEW m \in 0..(n - 1)
        PROVE  sofar[m + 1] = Added(sofar[m], words[m + 1])
    <2>0. m \in Nat /\ m + 1 <= n /\ m \in 0..n /\ m + 1 \in 0..n
      BY <1>2
    <2>1. 1..(m + 1) \in SUBSET (DOMAIN words) /\ 1..(m + 1) # {}
      <3>1. \A x \in 1..(m + 1) : x \in 1..n
        BY <1>2, <2>0
      <3>2. 1 \in 1..(m + 1)
        BY <2>0
      <3> QED
        BY ONLY <1>2, <3>1, <3>2
    <2>2. Text!Max(1..(m + 1)) = m + 1 /\ (1..(m + 1)) \ {m + 1} = 1..m
      BY <1>max, <2>0, LastPlace
    <2>3. ASSUME NEW s \in SUBSET (DOMAIN words), s # {}
          PROVE  iter[s] = Added(iter[s \ {Text!Max(s)}], words[Text!Max(s)])
      BY <1>6, <2>3
    <2>4. iter[1..(m + 1)] = Added(iter[1..m], words[m + 1])
      <3> HIDE DEF iter
      <3> QED
        BY <2>1, <2>2, <2>3
    <2> HIDE DEF iter
    <2> QED
      BY <2>0, <2>4
  <1>9. sofar[n] = Text!Kept(words, kind, covered)
    <2> HIDE DEF iter
    <2> QED
      BY <1>1, <1>2
  <1> HIDE DEF sofar
  <1> QED
    BY <1>7, <1>8, <1>9 DEF Added, n

\* Kept leaves words of the kind, in their order, none of them covered by an
\* earlier one, and those that it drops are covered.
LEMMA KeptWords ==
    ASSUME NEW S, NEW words \in Seq(S), NEW kind, NEW covered,
           NEW kept, kept = Text!Kept(words, kind, covered)
    PROVE  /\ kept \in Seq(S)
           /\ \A i \in DOMAIN kept : kept[i] \in kind
           /\ Elements(kept) \subseteq Elements(words)
           /\ \A i \in DOMAIN words : words[i] \in kind =>
                \/ words[i] \in Elements(kept)
                \/ \E k \in Elements(kept) : <<words[i], k>> \in covered
           /\ \A i, j \in DOMAIN kept : i < j =>
                /\ <<kept[j], kept[i]>> \notin covered
                /\ \E a, b \in DOMAIN words : a < b /\ words[a] = kept[i] /\ words[b] = kept[j]
           /\ Len(kept) <= Len(words)
           /\ Len(kept) = Len(words) => \A i \in DOMAIN words : words[i] \in kind
  <1> DEFINE n == Len(words)
             Is(k, m) ==
               /\ k \in Seq(S)
               /\ \A i \in DOMAIN k : k[i] \in kind /\ \E a \in 1..m : words[a] = k[i]
               /\ \A i \in 1..m : words[i] \in kind =>
                    \/ words[i] \in Elements(k)
                    \/ \E x \in Elements(k) : <<words[i], x>> \in covered
               /\ \A i, j \in DOMAIN k : i < j =>
                    /\ <<k[j], k[i]>> \notin covered
                    /\ \E a, b \in 1..m : a < b /\ words[a] = k[i] /\ words[b] = k[j]
               /\ Len(k) <= m
               /\ Len(k) = m => \A i \in 1..m : words[i] \in kind
  <1>1. PICK sofar : /\ sofar[0] = <<>>
                     /\ \A m \in 0..(n - 1) :
                          sofar[m + 1] = More(sofar[m], words[m + 1], kind, covered)
                     /\ sofar[n] = kept
    BY KeptSoFar
  <1>2. n \in Nat /\ DOMAIN words = 1..n /\ \A i \in 1..n : words[i] \in S
    OBVIOUS
  <1> HIDE DEF n
  <1> DEFINE T == {m \in Nat : m <= n => Is(sofar[m], m)}
  <1>3. 0 \in T
    <2>1. <<>> \in Seq(S) /\ DOMAIN <<>> = {} /\ Len(<<>>) = 0 /\ 1..0 = {}
      OBVIOUS
    <2>2. Is(<<>>, 0)
      BY ONLY <2>1 DEF Is
    <2> HIDE DEF Is
    <2> QED
      BY <1>1, <2>2
  <1>4. ASSUME NEW m \in Nat, m + 1 <= n, NEW k, Is(k, m)
        PROVE  Is(More(k, words[m + 1], kind, covered), m + 1)
    <2> DEFINE w == words[m + 1]
    <2>1. w \in S /\ 1..(m + 1) = 1..m \cup {m + 1}
      BY <1>2, <1>4
    <2>2. Text!ToSet(k) = Elements(k)
      BY DEF Text!ToSet, Elements
    <2>3. CASE w \notin kind \/ \E x \in Elements(k) : <<w, x>> \in covered
      <3>1. More(k, w, kind, covered) = k
        BY <2>2, <2>3 DEF More
      <3>2. Len(k) \in Nat /\ Len(k) # m + 1
        BY <1>4
      <3>3. \A i \in DOMAIN k : k[i] \in kind /\ \E a \in 1..(m + 1) : words[a] = k[i]
        BY <1>4, <2>1
      <3>4. \A i \in 1..(m + 1) : words[i] \in kind =>
              \/ words[i] \in Elements(k)
              \/ \E x \in Elements(k) : <<words[i], x>> \in covered
        BY <1>4, <2>1, <2>3
      <3>5. ASSUME NEW i \in DOMAIN k, NEW j \in DOMAIN k, i < j
            PROVE  /\ <<k[j], k[i]>> \notin covered
                   /\ \E a, b \in 1..(m + 1) : a < b /\ words[a] = k[i] /\ words[b] = k[j]
        <4>1. /\ <<k[j], k[i]>> \notin covered
              /\ \E a, b \in 1..m : a < b /\ words[a] = k[i] /\ words[b] = k[j]
          BY <1>4, <3>5
        <4> QED
          BY <2>1, <4>1
      <3>6. Len(k) <= m + 1
        BY <1>4, <3>2
      <3>7. Is(k, m + 1)
        BY <1>4, <3>2, <3>3, <3>4, <3>5, <3>6
      <3> HIDE DEF Is
      <3> QED
        BY <3>1, <3>7
    <2>4. CASE w \in kind /\ ~ \E x \in Elements(k) : <<w, x>> \in covered
      <3> DEFINE g == Append(k, w)
      <3>1. More(k, w, kind, covered) = g
        BY <2>2, <2>4 DEF More
      <3>2. /\ g \in Seq(S) /\ Len(g) = Len(k) + 1 /\ Len(k) \in Nat /\ DOMAIN k = 1..Len(k)
            /\ DOMAIN g = 1..(Len(k) + 1) /\ g[Len(k) + 1] = w
            /\ \A i \in DOMAIN k : g[i] = k[i]
        BY <1>4, <2>1
      <3> HIDE DEF g, w
      <3>3. DOMAIN g = DOMAIN k \cup {Len(k) + 1}
        BY <3>2
      <3>4. Elements(g) = Elements(k) \cup {w}
        BY <3>2, <3>3 DEF Elements
      <3>5. m + 1 \in 1..(m + 1) /\ words[m + 1] = w /\ \A a \in 1..m : a < m + 1
        BY DEF w
      <3>6. \A i \in DOMAIN g : g[i] \in kind /\ \E a \in 1..(m + 1) : words[a] = g[i]
        <4>1. \A i \in DOMAIN k : k[i] \in kind /\ \E a \in 1..(m + 1) : words[a] = k[i]
          BY <1>4, <2>1
        <4>2. w \in kind /\ \E a \in 1..(m + 1) : words[a] = w
          BY <2>4, <3>5 DEF w
        <4> QED
          BY ONLY <3>2, <3>3, <4>1, <4>2
      <3>7. \A i \in 1..(m + 1) : words[i] \in kind =>
              \/ words[i] \in Elements(g)
              \/ \E x \in Elements(g) : <<words[i], x>> \in covered
        BY <1>4, <2>1, <3>4, <3>5
      <3>8. ASSUME NEW i \in DOMAIN g, NEW j \in DOMAIN g, i < j
            PROVE  /\ <<g[j], g[i]>> \notin covered
                   /\ \E a, b \in 1..(m + 1) : a < b /\ words[a] = g[i] /\ words[b] = g[j]
        <4>1. i \in DOMAIN k
          BY <3>2, <3>8
        <4>2. CASE j \in DOMAIN k
          <5>1. /\ <<k[j], k[i]>> \notin covered
                /\ \E a, b \in 1..m : a < b /\ words[a] = k[i] /\ words[b] = k[j]
            BY <1>4, <3>8, <4>1, <4>2
          <5>2. g[i] = k[i] /\ g[j] = k[j]
            BY <3>2, <4>1, <4>2
          <5> QED
            BY <2>1, <5>1, <5>2
        <4>3. CASE j = Len(k) + 1
          <5>1. g[i] = k[i] /\ g[j] = w /\ k[i] \in Elements(k)
            BY <3>2, <4>1, <4>3 DEF Elements
          <5>2. PICK a \in 1..m : words[a] = k[i]
            BY <1>4, <4>1
          <5> QED
            BY <2>1, <2>4, <3>5, <5>1, <5>2
        <4> QED
          BY <3>3, <4>2, <4>3
      <3>9. Len(g) <= m + 1 /\ (Len(g) = m + 1 => \A i \in 1..(m + 1) : words[i] \in kind)
        <4>1. Len(g) <= m + 1 /\ (Len(g) = m + 1 => Len(k) = m)
          BY <1>4, <3>2
        <4> QED
          BY <1>4, <2>1, <2>4, <3>5, <4>1
      <3>10. Is(g, m + 1)
        BY <3>2, <3>6, <3>7, <3>8, <3>9
      <3> HIDE DEF Is
      <3> QED
        BY <3>1, <3>10 DEF w
    <2> HIDE DEF Is
    <2> QED
      BY <2>3, <2>4 DEF w
  <1> HIDE DEF Is
  <1>5. ASSUME NEW m \in T
        PROVE  m + 1 \in T
    <2> SUFFICES ASSUME m + 1 <= n PROVE Is(sofar[m + 1], m + 1)
      OBVIOUS
    <2>1. m \in Nat /\ m <= n /\ m \in 0..(n - 1)
      BY <1>2
    <2>2. Is(sofar[m], m)
      BY <2>1
    <2> QED
      BY <1>1, <1>4, <2>1, <2>2
  <1>6. T = Nat
    <2> HIDE DEF T
    <2>1. T \in SUBSET Nat
      BY DEF T
    <2> QED
      BY <1>3, <1>5, <2>1, Induction
  <1>7. Is(kept, n)
    <2>1. n \in T /\ n <= n
      BY <1>2, <1>6
    <2> QED
      BY <1>1, <2>1
  <1> USE DEF Is
  <1>8. Elements(kept) \subseteq Elements(words)
    <2> SUFFICES ASSUME NEW i \in DOMAIN kept PROVE kept[i] \in Elements(words)
      BY DEF Elements
    <2>1. PICK a \in 1..n : words[a] = kept[i]
      BY <1>7
    <2> QED
      BY <1>2, <2>1 DEF Elements
  <1>9. kept \in Seq(S) /\ \A i \in DOMAIN kept : kept[i] \in kind
    BY <1>7
  <1>10. \A i \in DOMAIN words : words[i] \in kind =>
           \/ words[i] \in Elements(kept)
           \/ \E k \in Elements(kept) : <<words[i], k>> \in covered
    BY <1>2, <1>7
  <1>11. ASSUME NEW i \in DOMAIN kept, NEW j \in DOMAIN kept, i < j
         PROVE  /\ <<kept[j], kept[i]>> \notin covered
                /\ \E a, b \in DOMAIN words : a < b /\ words[a] = kept[i] /\ words[b] = kept[j]
    <2>1. /\ <<kept[j], kept[i]>> \notin covered
          /\ \E a, b \in 1..n : a < b /\ words[a] = kept[i] /\ words[b] = kept[j]
      BY ONLY <1>7, <1>11 DEF Is
    <2> QED
      BY ONLY <1>2, <2>1
  <1>12. /\ Len(kept) <= Len(words)
         /\ Len(kept) = Len(words) => \A i \in DOMAIN words : words[i] \in kind
    BY <1>2, <1>7 DEF n
  <1> HIDE DEF Is, T
  <1> QED
    BY <1>8, <1>9, <1>10, <1>11, <1>12

-----------------------------------------------------------------------------
\* The names of a document.

\* Names in the order of their length.
LEMMA SortedNames ==
    ASSUME NEW K, \A n \in K : Length[n] \in Nat, NEW names \in Seq(K),
           NEW s, s = Text!LongestFirst(names)
    PROVE  /\ s \in Seq(K)
           /\ Elements(s) = Elements(names)
           /\ \A k, l \in DOMAIN s : k < l => Length[s[k]] >= Length[s[l]]
  <1> DEFINE P == DOMAIN names
             n == Cardinality(P)
             R == {p \in P \X P :
                     \/ Length[names[p[1]]] > Length[names[p[2]]]
                     \/ Length[names[p[1]]] = Length[names[p[2]]] /\ p[1] < p[2]}
             at == Ordered(P, R)
  <1>1. IsFiniteSet(P) /\ n = Len(names) /\ P = 1..n /\ n \in Nat
    <2>1. P = 1..Len(names) /\ Len(names) \in Nat /\ 1 \in Int
          /\ (1 > Len(names) => Len(names) = 0)
      OBVIOUS
    <2>2. IsFiniteSet(1..Len(names))
          /\ Cardinality(1..Len(names)) = IF 1 > Len(names) THEN 0 ELSE Len(names) - 1 + 1
      BY ONLY <2>1, FS_Interval
    <2> HIDE DEF P
    <2> QED
      BY <2>1, <2>2
  <1>2. s = [k \in 1..n |-> names[at[k]]]
    <2> DEFINE A(k) == CHOOSE i \in P : Place(P, R)[i] = k
    <2>1. s = [k \in P |-> names[A(k)]]
      BY DEF Text!LongestFirst, Text!Cardinality, Cardinality, Place
    <2>2. \A k \in 1..n : at[k] = A(k)
      BY DEF Ordered
    <2> HIDE DEF P, R, n, at, A
    <2> QED
      BY <1>1, <2>1, <2>2
  <1>3. \A i \in P : Length[names[i]] \in Nat /\ i \in Int /\ names[i] \in K
    OBVIOUS
  <1>4. StrictOrder(P, R)
    <2> HIDE DEF P
    <2>1. \A i, j \in P : <<i, j>> \in R <=>
             \/ Length[names[i]] > Length[names[j]]
             \/ Length[names[i]] = Length[names[j]] /\ i < j
      OBVIOUS
    <2>2. R \in SUBSET (P \X P)
      OBVIOUS
    <2> HIDE DEF R
    <2>3. \A i \in P : <<i, i>> \notin R
      BY <1>3, <2>1
    <2>4. \A i, j \in P : i = j \/ <<i, j>> \in R \/ <<j, i>> \in R
      <3> SUFFICES ASSUME NEW i \in P, NEW j \in P, i # j
                   PROVE  <<i, j>> \in R \/ <<j, i>> \in R
        OBVIOUS
      <3>1. /\ Length[names[i]] \in Nat /\ Length[names[j]] \in Nat /\ i \in Int /\ j \in Int
            /\ <<i, j>> \in R <=> \/ Length[names[i]] > Length[names[j]]
                                  \/ Length[names[i]] = Length[names[j]] /\ i < j
            /\ <<j, i>> \in R <=> \/ Length[names[j]] > Length[names[i]]
                                  \/ Length[names[j]] = Length[names[i]] /\ j < i
        BY <1>3, <2>1
      <3> QED
        BY ONLY <3>1, i # j
    <2>5. ASSUME NEW i \in P, NEW j \in P, NEW k \in P, <<i, j>> \in R, <<j, k>> \in R
          PROVE  <<i, k>> \in R
      <3>1. /\ Length[names[i]] \in Nat /\ Length[names[j]] \in Nat /\ Length[names[k]] \in Nat
            /\ i \in Int /\ j \in Int /\ k \in Int
        BY <1>3
      <3>2. \/ Length[names[i]] > Length[names[j]]
            \/ Length[names[i]] = Length[names[j]] /\ i < j
        BY <2>1, <2>5
      <3>3. \/ Length[names[j]] > Length[names[k]]
            \/ Length[names[j]] = Length[names[k]] /\ j < k
        BY <2>1, <2>5
      <3>4. \/ Length[names[i]] > Length[names[k]]
            \/ Length[names[i]] = Length[names[k]] /\ i < k
        BY ONLY <3>1, <3>2, <3>3
      <3> QED
        BY <2>1, <3>4
    <2> QED
      BY <2>2, <2>3, <2>4, <2>5 DEF StrictOrder
  <1>5. \A i, j \in P : <<i, j>> \in R => Length[names[i]] >= Length[names[j]]
    <2> HIDE DEF P
    <2> QED
      BY <1>3
  <1> HIDE DEF P, R
  <1>6. /\ at \in [1..n -> P]
        /\ \A i \in P : \E k \in 1..n : at[k] = i
        /\ \A k, l \in 1..n : k < l => <<at[k], at[l]>> \in R
    BY ONLY <1>1, <1>4, InOrder
  <1> HIDE DEF at, n
  <1>7. \A k \in 1..n : at[k] \in P /\ s[k] = names[at[k]]
    BY <1>2, <1>6
  <1>8. s \in Seq(K) /\ DOMAIN s = 1..n
    BY <1>1, <1>2, <1>3, <1>6
  <1>9. \A k, l \in DOMAIN s : k < l => Length[s[k]] >= Length[s[l]]
    <2> SUFFICES ASSUME NEW k \in 1..n, NEW l \in 1..n, k < l
                 PROVE  Length[s[k]] >= Length[s[l]]
      BY <1>8
    <2>1. /\ at[k] \in P /\ s[k] = names[at[k]]
          /\ at[l] \in P /\ s[l] = names[at[l]]
      BY <1>7
    <2>2. <<at[k], at[l]>> \in R
      BY <1>6
    <2> QED
      BY <1>5, <2>1, <2>2
  <1>10. Elements(s) = Elements(names)
    <2>1. ASSUME NEW k \in 1..n PROVE s[k] \in Elements(names)
      BY <1>7 DEF Elements, P
    <2>2. ASSUME NEW i \in P PROVE names[i] \in Elements(s)
      BY <1>6, <1>7, <1>8 DEF Elements
    <2> QED
      BY <1>8, <2>1, <2>2 DEF Elements, P
  <1> QED
    BY <1>8, <1>9, <1>10

\* The words of the document, and the sequence that it is joined to.
Words == UNION {Elements(s) : s \in Sentences}

DocumentTyped == document \in Seq(Sentences)

LEMMA DocumentIsTyped == AnalysisSpec => []DocumentTyped
  <1>1. AnalysisInit => DocumentTyped
    BY DEF AnalysisInit, DocumentTyped
  <1>2. DocumentTyped /\ [AnalysisNext]_analysisVars => DocumentTyped'
    BY DEF DocumentTyped, AnalysisNext, analysisVars, ReadSentence, AddCall, AddTransfer,
           AddMember, AddArtifact
  <1> QED
    BY <1>1, <1>2, PTL DEF AnalysisSpec

LEMMA SentencesHoldWords == Sentences \subseteq Seq(Words)
  <1> SUFFICES ASSUME NEW s \in Sentences PROVE s \in Seq(Words)
    OBVIOUS
  <1>1. s \in Seq(Elements(s)) /\ Elements(s) \subseteq Words
    BY SentencesAreSequences DEF Elements, Words
  <1> HIDE DEF Words
  <1> QED
    BY <1>1

\* The names of a list that are kept are of the list; they stand for all of it,
\* and none of them for another.
LEMMA Deduplicated ==
    ASSUME NEW K, \A n \in K : Length[n] \in Nat, NEW names \in Seq(K),
           NEW kept, kept = Text!deduplicate_entities_fuzzy(names)
    PROVE  /\ kept \in Seq(K)
           /\ Elements(kept) \subseteq Elements(names)
           /\ \A n \in Elements(names) : \E k \in Elements(kept) : Text!Subsumed(n, k)
           /\ \A i, j \in DOMAIN kept : i < j =>
                /\ ~ Text!Subsumed(kept[j], kept[i])
                /\ Length[kept[i]] >= Length[kept[j]]
  <1> DEFINE unique == Text!Unique(names)
             sorted == Text!LongestFirst(unique)
             same == {<<w, w>> : w \in Text!ToSet(names)}
             covered == {p \in Text!ToSet(sorted) \X Text!ToSet(sorted) :
                           Text!Subsumed(p[1], p[2])}
  <1>set. \A s : Text!ToSet(s) = Elements(s)
    BY DEF Text!ToSet, Elements
  <1>1. unique \in Seq(K) /\ Elements(unique) = Elements(names)
    <2>1. unique = Text!Kept(names, Text!ToSet(names), same)
      BY DEF Text!Unique
    <2>2. \A v, w : <<v, w>> \in same => v = w
      OBVIOUS
    <2> HIDE DEF unique, same
    <2>3. /\ unique \in Seq(K)
          /\ Elements(unique) \subseteq Elements(names)
          /\ \A i \in DOMAIN names : names[i] \in Text!ToSet(names) =>
               \/ names[i] \in Elements(unique)
               \/ \E k \in Elements(unique) : <<names[i], k>> \in same
      BY <2>1, KeptWords
    <2>4. \A i \in DOMAIN names : names[i] \in Elements(unique)
      BY <1>set, <2>2, <2>3 DEF Elements
    <2> QED
      BY <2>3, <2>4 DEF Elements
  <1> HIDE DEF unique
  <1>2. /\ sorted \in Seq(K)
        /\ Elements(sorted) = Elements(unique)
        /\ \A k, l \in DOMAIN sorted : k < l => Length[sorted[k]] >= Length[sorted[l]]
    <2> HIDE DEF sorted
    <2> QED
      BY <1>1, SortedNames DEF sorted
  <1>3. kept = Text!Kept(sorted, Text!ToSet(sorted), covered)
    BY DEF Text!deduplicate_entities_fuzzy, Text!Merge, unique
  <1>4. \A v, w : <<v, w>> \in covered <=>
           v \in Elements(sorted) /\ w \in Elements(sorted) /\ Text!Subsumed(v, w)
    BY <1>set
  <1> HIDE DEF sorted, covered
  <1>5. /\ kept \in Seq(K)
        /\ Elements(kept) \subseteq Elements(sorted)
        /\ \A i \in DOMAIN sorted : sorted[i] \in Text!ToSet(sorted) =>
             \/ sorted[i] \in Elements(kept)
             \/ \E k \in Elements(kept) : <<sorted[i], k>> \in covered
        /\ \A i, j \in DOMAIN kept : i < j =>
             /\ <<kept[j], kept[i]>> \notin covered
             /\ \E a, b \in DOMAIN sorted : a < b /\ sorted[a] = kept[i] /\ sorted[b] = kept[j]
    <2> DEFINE kind == Text!ToSet(sorted)
    <2>1. sorted \in Seq(K) /\ kept = Text!Kept(sorted, kind, covered)
      BY <1>2, <1>3
    <2> HIDE DEF kind
    <2>2. /\ kept \in Seq(K)
          /\ Elements(kept) \subseteq Elements(sorted)
          /\ \A i \in DOMAIN sorted : sorted[i] \in kind =>
               \/ sorted[i] \in Elements(kept)
               \/ \E k \in Elements(kept) : <<sorted[i], k>> \in covered
          /\ \A i, j \in DOMAIN kept : i < j =>
               /\ <<kept[j], kept[i]>> \notin covered
               /\ \E a, b \in DOMAIN sorted : a < b /\ sorted[a] = kept[i] /\ sorted[b] = kept[j]
      BY ONLY <2>1, KeptWords
    <2> QED
      BY ONLY <2>2 DEF kind
  <1>6. ASSUME NEW n \in Elements(names)
        PROVE  \E k \in Elements(kept) : Text!Subsumed(n, k)
    <2>1. PICK i \in DOMAIN sorted : n = sorted[i]
      BY <1>1, <1>2 DEF Elements
    <2>2. n \in Elements(kept) \/ \E k \in Elements(kept) : <<n, k>> \in covered
      <3>1. sorted[i] \in Text!ToSet(sorted)
        BY <1>set DEF Elements
      <3> QED
        BY <1>5, <2>1, <3>1
    <2>3. Text!Subsumed(n, n)
      BY DEF Text!Subsumed
    <2> QED
      BY <1>4, <2>2, <2>3
  <1>7. ASSUME NEW i \in DOMAIN kept, NEW j \in DOMAIN kept, i < j
        PROVE  ~ Text!Subsumed(kept[j], kept[i]) /\ Length[kept[i]] >= Length[kept[j]]
    <2>1. kept[i] \in Elements(sorted) /\ kept[j] \in Elements(sorted)
      BY <1>5 DEF Elements
    <2>2. <<kept[j], kept[i]>> \notin covered
      BY <1>5, <1>7
    <2>3. PICK a \in DOMAIN sorted, b \in DOMAIN sorted :
             a < b /\ sorted[a] = kept[i] /\ sorted[b] = kept[j]
      BY <1>5, <1>7
    <2> QED
      BY <1>2, <1>4, <2>1, <2>2, <2>3
  <1> QED
    BY <1>1, <1>2, <1>5, <1>6, <1>7

\* The words of one kind in a text.
LEMMA FoundWords ==
    ASSUME NEW S, NEW text \in Seq(S), NEW kind, NEW found, found = Text!Found(text, kind)
    PROVE  found \in Seq(kind) /\ Elements(found) \subseteq Elements(text)
  <1>1. /\ found \in Seq(S)
        /\ \A i \in DOMAIN found : found[i] \in kind
        /\ Elements(found) \subseteq Elements(text)
    <2>1. found = Text!Kept(text, kind, {})
      BY DEF Text!Found
    <2> QED
      BY <2>1, KeptWords
  <1> QED
    BY <1>1

\* What FlattenSeq joins has the elements of the sequences it is given.
LEMMA Joined ==
    ASSUME NEW S, NEW seqs \in Seq(Seq(S))
    PROVE  Text!FlattenSeq(seqs) \in Seq(S)
  <1> DEFINE n == Len(seqs)
             Flat(f, m) ==
               f = [i \in 1..m |-> IF i = 1 THEN seqs[i] ELSE f[i - 1] \o seqs[i]]
             flat == CHOOSE f : Flat(f, n)
  <1>1. Text!FlattenSeq(seqs) = IF n = 0 THEN seqs ELSE flat[n]
    BY DEF Text!FlattenSeq
  <1>2. Flat(<<>>, 0)
    OBVIOUS
  <1>3. ASSUME NEW m \in Nat, NEW f, Flat(f, m)
        PROVE  \E g : Flat(g, m + 1)
    <2> DEFINE g == [i \in 1..(m + 1) |->
                       IF i = 1 THEN seqs[i]
                       ELSE IF i = m + 1 THEN f[i - 1] \o seqs[i] ELSE f[i]]
    <2>1. ASSUME NEW i \in 1..(m + 1), i # 1
          PROVE  g[i] = g[i - 1] \o seqs[i]
      <3>1. i - 1 \in 1..m /\ i - 1 # m + 1 /\ i - 1 \in 1..(m + 1)
        BY <2>1
      <3>2. g[i - 1] = f[i - 1]
        BY <1>3, <3>1
      <3>3. CASE i = m + 1
        BY <2>1, <3>2, <3>3
      <3>4. CASE i # m + 1
        <4>1. i \in 1..m
          BY <3>4
        <4>2. f[i] = f[i - 1] \o seqs[i]
          BY <1>3, <2>1, <4>1
        <4> QED
          BY <2>1, <3>2, <3>4, <4>2
      <3> QED
        BY <3>3, <3>4
    <2>2. Flat(g, m + 1)
      BY <2>1
    <2> HIDE DEF g, Flat
    <2> QED
      BY <2>2
  <1>4. ASSUME NEW m \in Nat, NEW f, Flat(f, m), NEW i \in 1..m
        PROVE  f[i] = IF i = 1 THEN seqs[i] ELSE f[i - 1] \o seqs[i]
    BY <1>4
  <1>5. n \in Nat /\ DOMAIN seqs = 1..n /\ \A i \in 1..n : seqs[i] \in Seq(S)
    OBVIOUS
  <1>6. n = 0 => Text!FlattenSeq(seqs) \in Seq(S)
    <2> SUFFICES ASSUME n = 0 PROVE seqs \in Seq(S)
      BY <1>1
    <2> seqs = <<>>
      OBVIOUS
    <2> QED
      OBVIOUS
  <1> HIDE DEF n, Flat
  <1>7. Flat(flat, n)
    <2> DEFINE T == {m \in Nat : \E f : Flat(f, m)}
    <2>1. 0 \in T
      BY <1>2
    <2>2. \A m \in T : m + 1 \in T
      BY <1>3
    <2>3. T = Nat
      <3> HIDE DEF T
      <3>1. T \in SUBSET Nat
        BY DEF T
      <3> QED
        BY <2>1, <2>2, <3>1, Induction
    <2> QED
      BY <1>5, <2>3
  <1> HIDE DEF flat
  <1>8. ASSUME n # 0
        PROVE  flat[n] \in Seq(S)
    <2> DEFINE T == {m \in Nat : m \in 1..n => flat[m] \in Seq(S)}
    <2>1. 0 \in T
      OBVIOUS
    <2>2. ASSUME NEW m \in T
          PROVE  m + 1 \in T
      <3> SUFFICES ASSUME m + 1 \in 1..n PROVE flat[m + 1] \in Seq(S)
        OBVIOUS
      <3>1. flat[m + 1] = IF m + 1 = 1 THEN seqs[m + 1] ELSE flat[(m + 1) - 1] \o seqs[m + 1]
        BY <1>4, <1>5, <1>7
      <3>2. seqs[m + 1] \in Seq(S)
        BY <1>5
      <3>3. CASE m = 0
        BY <3>1, <3>2, <3>3
      <3>4. CASE m # 0
        <4>1. m \in 1..n /\ (m + 1) - 1 = m /\ m + 1 # 1
          BY <1>5, <3>4
        <4>2. flat[m] \in Seq(S)
          BY <4>1
        <4>3. flat[m + 1] = flat[m] \o seqs[m + 1]
          BY <3>1, <4>1
        <4> QED
          BY <3>2, <4>2, <4>3
      <3> QED
        BY <3>3, <3>4
    <2>3. T = Nat
      <3> HIDE DEF T
      <3>1. T \in SUBSET Nat
        BY DEF T
      <3> QED
        BY <2>1, <2>2, <3>1, Induction
    <2>4. n \in 1..n
      BY <1>5, <1>8
    <2> QED
      BY <1>5, <2>3, <2>4
  <1> QED
    BY <1>1, <1>6, <1>8

\* Whatever the document: every person of it is represented by a name that is
\* kept, and no name is kept beside one that stands for it.
THEOREM NamesStayCanonical == AnalysisSpec => []NamesAreCanonical
  <1>1. DocumentTyped => NamesAreCanonical
    <2> SUFFICES ASSUME DocumentTyped PROVE NamesAreCanonical
      OBVIOUS
    <2> DEFINE text == Text!FlattenSeq(document)
               names == Text!Found(text, Persons)
               kept == Text!deduplicate_entities_fuzzy(names)
    <2>1. text \in Seq(Words)
      <3>1. document \in Seq(Seq(Words))
        BY SentencesHoldWords DEF DocumentTyped
      <3> HIDE DEF Words
      <3> QED
        BY <3>1, Joined
    <2> HIDE DEF text
    <2>2. names \in Seq(Persons)
      BY <2>1, FoundWords
    <2>3. \A n \in Persons : Length[n] \in Nat
      BY LengthsAreNumbers
    <2> HIDE DEF names
    <2>4. /\ kept \in Seq(Persons)
          /\ \A n \in Elements(names) : \E k \in Elements(kept) : Text!Subsumed(n, k)
          /\ \A i, j \in DOMAIN kept : i < j =>
               /\ ~ Text!Subsumed(kept[j], kept[i])
               /\ Length[kept[i]] >= Length[kept[j]]
      BY <2>2, <2>3, Deduplicated
    <2> HIDE DEF kept
    <2>5. ASSUME NEW i \in DOMAIN kept, NEW j \in DOMAIN kept, Text!Subsumed(kept[i], kept[j])
          PROVE  kept[i] = kept[j]
      <3>0. i \in Int /\ j \in Int /\ kept[i] \in Persons /\ kept[j] \in Persons
        BY <2>4
      <3>1. CASE j < i
        BY <2>4, <2>5, <3>1
      <3>2. CASE i = j
        BY <3>2
      <3>3. CASE i < j
        <4>1. ~ Text!Subsumed(kept[j], kept[i]) /\ Length[kept[i]] >= Length[kept[j]]
          BY <2>4, <3>3
        <4>2. <<kept[i], kept[j]>> \notin Similar
          BY <4>1, RatioIsSymmetric DEF Text!Subsumed
        <4>3. Length[kept[i]] \in Nat /\ Length[kept[j]] \in Nat
          BY <2>3, <3>0
        <4>4. <<kept[i], kept[j]>> \notin Within
          <5> DEFINE p == <<kept[i], kept[j]>>
          <5>1. p[1] = kept[i] /\ p[2] = kept[j]
            OBVIOUS
          <5> HIDE DEF p
          <5>2. p \in Within => Length[p[1]] < Length[p[2]] \/ p \in Similar
            BY <3>0, <5>1, PartsAreShorter
          <5> QED
            BY <4>1, <4>2, <4>3, <5>1, <5>2 DEF p
        <4> QED
          BY <2>5, <4>2, <4>4 DEF Text!Subsumed
      <3> QED
        BY <3>0, <3>1, <3>2, <3>3
    <2>6. \A k, l \in Elements(kept) : Text!Subsumed(k, l) => k = l
      BY <2>5 DEF Elements
    <2> QED
      BY <2>4, <2>6 DEF NamesAreCanonical, kept, names, text
  <1> QED
    BY <1>1, DocumentIsTyped, PTL

-----------------------------------------------------------------------------
\* The events of a sentence.

\* A set of numbers that is not empty has a smallest one.
LEMMA SmallestIn ==
    ASSUME NEW s \in SUBSET Nat, s # {}
    PROVE  \E x \in s : \A y \in s : x <= y
  <1> DEFINE less == OpToRel(<, Nat)
  <1>1. less = {p \in Nat \X Nat : p[1] < p[2]}
    BY DEF OpToRel
  <1>2. PICK x \in s : \A y \in s : ~(<<y, x>> \in less)
    <2>1. IsWellFoundedOn(less, Nat)
      BY NatLessThanWellFounded
    <2> HIDE DEF less
    <2> QED
      BY ONLY s \in SUBSET Nat, s # {}, <2>1, WFMin
  <1> HIDE DEF less
  <1>3. ASSUME NEW y \in s PROVE x <= y
    <2>1. x \in Nat /\ y \in Nat /\ ~(y < x)
      BY <1>1, <1>2
    <2> QED
      BY ONLY <2>1
  <1> QED
    BY <1>3

\* One of them has the smallest number.
LEMMA Nearest ==
    ASSUME NEW B, B # {}, NEW f, \A n \in B : f[n] \in Nat
    PROVE  \E n \in B : \A m \in B : f[n] <= f[m]
  <1> DEFINE s == {f[n] : n \in B}
  <1>1. s \in SUBSET Nat /\ s # {}
    OBVIOUS
  <1>2. \A n \in B : f[n] \in s
    OBVIOUS
  <1>3. \A x \in s : \E n \in B : x = f[n]
    OBVIOUS
  <1> HIDE DEF s
  <1>4. \E x \in s : \A y \in s : x <= y
    BY <1>1, SmallestIn
  <1> QED
    BY <1>2, <1>3, <1>4

\* A word is found at a number, 0 when it is not in the sentence.
LEMMA FoundAt ==
    ASSUME NEW S, NEW sentence \in Seq(S), NEW w
    PROVE  Text!Find(sentence, w) \in Nat
  <1> DEFINE I == {i \in 1..Len(sentence) : sentence[i] = w \/ <<w, sentence[i]>> \in Within}
  <1>1. Text!Find(sentence, w) = IF I # {} THEN Text!Min(I) ELSE 0
    BY DEF Text!Find, Text!SelectInSeq
  <1>2. I \in SUBSET Nat
    OBVIOUS
  <1> HIDE DEF I
  <1>3. CASE I # {}
    <2>1. \E x \in I : \A y \in I : x <= y
      BY <1>2, <1>3, SmallestIn
    <2>2. Text!Min(I) \in I
      BY <2>1 DEF Text!Min
    <2> QED
      BY <1>1, <1>2, <1>3, <2>2
  <1> QED
    BY <1>1, <1>3

\* So is the place of a text.
LEMMA PlacedAt ==
    ASSUME NEW S, NEW sentence \in Seq(S), NEW w
    PROVE  Text!Position(sentence, w) \in Nat
  <1> DEFINE I == {i \in 1..Len(sentence) : sentence[i] = w \/ <<w, sentence[i]>> \in Within}
             found == Text!Find(sentence, w)
  <1>1. found = IF I # {} THEN Text!Min(I) ELSE 0
    BY DEF Text!Find, Text!SelectInSeq
  <1>2. found \in Nat
    BY FoundAt
  <1>3. found # 0 => sentence[found] = w \/ <<w, sentence[found]>> \in Within
    <2> SUFFICES ASSUME found # 0 PROVE sentence[found] = w \/ <<w, sentence[found]>> \in Within
      OBVIOUS
    <2>1. I # {} /\ I \in SUBSET Nat
      BY <1>1
    <2>2. \E x \in I : \A y \in I : x <= y
      BY <2>1, SmallestIn
    <2>3. found \in I
      BY <1>1, <2>1, <2>2 DEF Text!Min
    <2> QED
      BY <2>3
  <1>4. Text!Position(sentence, w)
            = IF found = 0 THEN 0
              ELSE IF sentence[found] = w THEN found * Widest
                   ELSE found * Widest + Offset[<<w, sentence[found]>>]
    BY DEF Text!Position, Text!Character
  <1> HIDE DEF found
  <1>5. PICK start : start = found * Widest
    OBVIOUS
  <1>6. PICK offset : offset = Offset[<<w, sentence[found]>>]
    OBVIOUS
  <1>7. start \in Nat
    BY <1>2, <1>5, OffsetsAreNumbers
  <1>8. <<w, sentence[found]>> \in Within => offset \in Nat
    BY <1>6, OffsetsAreNumbers
  <1> QED
    BY ONLY <1>3, <1>4, <1>5, <1>6, <1>7, <1>8

\* The first name of a list that is in a set is in the set.
LEMMA FirstListed ==
    ASSUME NEW E, NEW names \in Seq(E), NEW B, NEW n \in Text!ToSet(names), n \in B,
           NEW k, k = LET I == {i \in 1..Len(names) : names[i] \in B}
                      IN  IF I # {} THEN Text!Min(I) ELSE 0
    PROVE  names[k] \in B
  <1> DEFINE I == {i \in 1..Len(names) : names[i] \in B}
  <1>1. I # {} /\ I \in SUBSET Nat
    BY DEF Text!ToSet
  <1>2. \E x \in I : \A y \in I : x <= y
    BY <1>1, SmallestIn
  <1>3. k \in I
    BY <1>1, <1>2 DEF Text!Min
  <1> QED
    BY <1>3

\* The ends of an event are names of the list, or nobody.
LEMMA ClosestOfList ==
    ASSUME NEW E, NEW names \in Seq(E), NEW at \in [Text!ToSet(names) -> Nat], NEW mark \in Nat
    PROVE  Text!Closest(names, at, mark) \in (E \cup {Text!Nobody}) \X (E \cup {Text!Nobody})
  <1> DEFINE A == Text!ToSet(names)
             before == {n \in A : at[n] < mark}
             after == A \ before
             B == {n \in before : \A m \in before : at[m] <= at[n]}
             C == {n \in after : \A m \in after : at[n] <= at[m]}
             I == {i \in 1..Len(names) : names[i] \in B}
             J == {i \in 1..Len(names) : names[i] \in C}
             last == IF I # {} THEN Text!Min(I) ELSE 0
             first == IF J # {} THEN Text!Min(J) ELSE 0
             subj == IF before = {} THEN Text!Nth(names, 1) ELSE names[last]
             second == Text!Nth(names, 2)
             obj == IF after # {} THEN names[first]
                    ELSE IF second = subj THEN Text!Nobody ELSE second
  <1>1. Text!Closest(names, at, mark) = <<subj, obj>>
    <2>1. I = {i \in 1..Len(names) : names[i] \in before
                                     /\ \A m \in before : at[m] <= at[names[i]]}
      OBVIOUS
    <2>2. J = {i \in 1..Len(names) : names[i] \in after
                                     /\ \A m \in after : at[names[i]] <= at[m]}
      OBVIOUS
    <2> HIDE DEF I, J
    <2> QED
      BY <2>1, <2>2 DEF Text!Closest, Text!SelectInSeq
  <1>2. A \subseteq E
    BY DEF Text!ToSet
  <1>3. \A k \in Nat : k # 0 => Text!Nth(names, k) \in E \cup {Text!Nobody}
    BY DEF Text!Nth
  <1>4. mark \in Nat /\ \A n \in A : at[n] \in Nat
    OBVIOUS
  <1>5. before \subseteq A /\ after \subseteq A
    OBVIOUS
  <1> HIDE DEF A
  <1>6. ASSUME before # {}
        PROVE  names[last] \in before
    <2> DEFINE f == [n \in before |-> mark - at[n]]
    <2>1. \A n \in before : f[n] = mark - at[n] /\ f[n] \in Nat
      BY <1>4, <1>5
    <2> HIDE DEF f, before
    <2>2. PICK n \in before : \A m \in before : f[n] <= f[m]
      BY <1>6, <2>1, Nearest
    <2>3. \A m \in before : at[m] <= at[n]
      <3> SUFFICES ASSUME NEW m \in before PROVE at[m] <= at[n]
        OBVIOUS
      <3>1. f[n] = mark - at[n] /\ f[m] = mark - at[m] /\ f[n] <= f[m]
        BY <2>1, <2>2
      <3>2. mark \in Nat /\ at[m] \in Nat /\ at[n] \in Nat
        BY <1>4, <1>5
      <3> QED
        BY ONLY <3>1, <3>2
    <2>4. n \in B /\ n \in Text!ToSet(names)
      BY <1>5, <2>3 DEF A
    <2> HIDE DEF B
    <2>5. names[last] \in B
      BY <2>4, FirstListed
    <2> QED
      BY <2>5 DEF B
  <1>7. ASSUME after # {}
        PROVE  names[first] \in after
    <2> DEFINE f == [n \in after |-> at[n]]
    <2>1. \A n \in after : f[n] = at[n] /\ f[n] \in Nat
      BY <1>4, <1>5
    <2> HIDE DEF f, after
    <2>2. PICK n \in after : \A m \in after : f[n] <= f[m]
      BY <1>7, <2>1, Nearest
    <2>3. n \in C /\ n \in Text!ToSet(names)
      BY <1>5, <2>1, <2>2 DEF A
    <2> HIDE DEF C
    <2>4. names[first] \in C
      BY <2>3, FirstListed
    <2> QED
      BY <2>4 DEF C
  <1> HIDE DEF last, first
  <1>8. subj \in E \cup {Text!Nobody}
    BY <1>2, <1>3, <1>5, <1>6
  <1> HIDE DEF subj
  <1>9. obj \in E \cup {Text!Nobody}
    BY <1>2, <1>3, <1>5, <1>7
  <1> HIDE DEF obj
  <1> QED
    BY <1>1, <1>8, <1>9

LEMMA EndsOfList ==
    ASSUME NEW S, NEW sentence \in Seq(S), NEW trigger, NEW E, NEW names \in Seq(E)
    PROVE  Text!Ends(sentence, trigger, names)
               \in (E \cup {Text!Nobody}) \X (E \cup {Text!Nobody})
  <1> DEFINE at == [n \in Text!ToSet(names) |-> Text!Position(sentence, n)]
  <1>1. at \in [Text!ToSet(names) -> Nat] /\ Text!Position(sentence, trigger) \in Nat
    BY PlacedAt
  <1>2. Text!Ends(sentence, trigger, names)
            = Text!Closest(names, at, Text!Position(sentence, trigger))
    BY DEF Text!Ends
  <1> HIDE DEF at
  <1> QED
    BY <1>1, <1>2, ClosestOfList

\* A relation between words of one sentence; an end may be unknown.
Kinds == {"CALLED", "TRANSACTED_WITH", "MET_WITH", "LOCATED_AT", "COMMUNICATED_WITH",
          "AFFILIATED_WITH", "OPERATES_VEHICLE"}

Said(E) == Kinds \X (E \cup {Text!Unknown}) \X (E \cup {Text!Unknown})

LEMMA Chosen ==
    ASSUME NEW E, NEW a \in E \cup {Text!Nobody}, NEW b
    PROVE  /\ b \in E \cup {Text!Unknown} => Text!Or(a, b) \in E \cup {Text!Unknown}
           /\ b \in E \cup {Text!Nobody} => Text!Or(a, b) \in E \cup {Text!Nobody}
  BY DEF Text!Or

LEMMA NthOfList ==
    ASSUME NEW E, NEW names \in Seq(E), NEW k \in Nat \ {0}
    PROVE  Text!Nth(names, k) \in E \cup {Text!Nobody}
  BY DEF Text!Nth

\* An event is a relation between words of its sentence.
LEMMA EventsOfSentence ==
    ASSUME NEW S, NEW s \in Seq(S), NEW E,
           NEW people \in Seq(E), NEW phones \in Seq(E), NEW places \in Seq(E)
    PROVE  /\ Text!CallEvents(s, people, phones) \in Seq(Said(E))
           /\ Text!TransactionEvents(s, people) \in Seq(Said(E))
           /\ Text!MeetingEvents(s, people, places) \in Seq(Said(E))
           /\ Text!CommunicationEvents(s, people, phones) \in Seq(Said(E))
           /\ Text!PresenceEvents(s, people, places) \in Seq(Said(E))
  <1> DEFINE N == E \cup {Text!Nobody}
             U == E \cup {Text!Unknown}
  <1>1. \A what \in Kinds, a \in U, b \in U : <<<<what, a, b>>>> \in Seq(Said(E))
    BY DEF Said
  <1>2. <<>> \in Seq(Said(E))
    OBVIOUS
  <1>3. \A trigger : /\ Text!Ends(s, trigger, people) \in N \X N
                     /\ Text!Ends(s, trigger, people)[1] \in N
                     /\ Text!Ends(s, trigger, people)[2] \in N
    <2> SUFFICES ASSUME NEW trigger PROVE Text!Ends(s, trigger, people) \in N \X N
      OBVIOUS
    <2> QED
      BY EndsOfList
  <1>4. /\ Text!Nth(people, 1) \in N /\ Text!Nth(people, 2) \in N
        /\ Text!Nth(phones, 1) \in N /\ Text!Nth(places, 1) \in N
    BY NthOfList
  <1>5. \A a \in N, b \in U : Text!Or(a, b) \in U
    BY Chosen
  <1>6. Text!Unknown \in U
    OBVIOUS
  <1>7. Text!CallEvents(s, people, phones) \in Seq(Said(E))
    <2> DEFINE e == Text!Ends(s, Text!Call, people)
               a == Text!Or(e[1], Text!Unknown)
               b == Text!Or(e[2], Text!Or(Text!Nth(phones, 1), Text!Unknown))
    <2>1. a \in U /\ b \in U
      BY <1>3, <1>4, <1>5, <1>6
    <2>2. Text!CallEvents(s, people, phones)
            = IF ~ Text!Has(s, Text!Call) THEN <<>> ELSE <<<<"CALLED", a, b>>>>
      BY DEF Text!CallEvents
    <2> HIDE DEF a, b, U
    <2> QED
      BY <1>1, <1>2, <2>1, <2>2 DEF Kinds
  <1>8. Text!TransactionEvents(s, people) \in Seq(Said(E))
    <2> DEFINE e == Text!Ends(s, Text!Transfer, people)
               a == Text!Or(e[1], Text!Unknown)
               b == Text!Or(e[2], Text!Or(Text!Nth(people, 2), Text!Unknown))
    <2>1. a \in U /\ b \in U
      BY <1>3, <1>4, <1>5, <1>6
    <2>2. Text!TransactionEvents(s, people)
            = IF ~ Text!Has(s, Text!Transfer) THEN <<>> ELSE <<<<"TRANSACTED_WITH", a, b>>>>
      BY DEF Text!TransactionEvents
    <2> HIDE DEF a, b, U
    <2> QED
      BY <1>1, <1>2, <2>1, <2>2 DEF Kinds
  <1>9. Text!MeetingEvents(s, people, places) \in Seq(Said(E))
    <2> DEFINE e == Text!Ends(s, Text!Meeting, people)
               there == Text!ToSet(e) \ {Text!Nobody}
               present == Text!Kept(e, there, {})
               place == Text!Or(Text!Nth(places, 1), Text!Unknown)
               met == IF Len(present) = 2 THEN <<<<"MET_WITH", e[1], e[2]>>>> ELSE <<>>
               at == [k \in DOMAIN present |-> <<"LOCATED_AT", present[k], place>>]
    <2>1. Text!MeetingEvents(s, people, places)
            = IF ~ Text!Has(s, Text!Meeting) THEN <<>> ELSE met \o at
      BY DEF Text!MeetingEvents
    <2>2. place \in U
      BY <1>4, <1>5, <1>6
    <2>3. e \in N \X N
      BY <1>3
    <2> HIDE DEF e
    <2>4. e \in Seq(N) /\ Len(e) = 2 /\ DOMAIN e = 1..2 /\ \A i \in 1..2 : e[i] \in N
      <3> HIDE DEF N
      <3>1. PICK a \in N, b \in N : e = <<a, b>>
        BY <2>3
      <3>2. <<a, b>> \in Seq(N) /\ Len(<<a, b>>) = 2 /\ DOMAIN <<a, b>> = 1..2
        OBVIOUS
      <3>3. \A i \in 1..2 : <<a, b>>[i] \in N
        OBVIOUS
      <3> QED
        BY <3>1, <3>2, <3>3
    <2>5. there \subseteq E
      <3> QED
        BY <2>4 DEF Text!ToSet
    <2> HIDE DEF there, N
    <2>6. /\ present \in Seq(N)
          /\ \A i \in DOMAIN present : present[i] \in there
          /\ Len(present) = Len(e) => \A i \in DOMAIN e : e[i] \in there
      <3>1. present = Text!Kept(e, there, {})
        OBVIOUS
      <3> HIDE DEF present
      <3>2. e \in Seq(N)
        BY <2>4
      <3>3. present \in Seq(N)
        BY ONLY <3>1, <3>2, KeptWords
      <3>4. \A i \in DOMAIN present : present[i] \in there
        BY ONLY <3>1, <3>2, KeptWords
      <3>5. Len(present) = Len(e) => \A i \in DOMAIN e : e[i] \in there
        BY ONLY <3>1, <3>2, KeptWords
      <3> QED
        BY <3>3, <3>4, <3>5
    <2> HIDE DEF present
    <2>7. met \in Seq(Said(E))
      <3>1. CASE Len(present) = 2
        <4>1. e[1] \in U /\ e[2] \in U
          BY <2>4, <2>5, <2>6, <3>1
        <4> HIDE DEF U
        <4> QED
          BY <1>1, <3>1, <4>1 DEF Kinds
      <3>2. CASE Len(present) # 2
        BY <1>2, <3>2
      <3> QED
        BY <3>1, <3>2
    <2>8. at \in Seq(Said(E))
      <3>1. \A k \in DOMAIN present : present[k] \in U
        BY <2>5, <2>6
      <3>2. DOMAIN present = 1..Len(present) /\ Len(present) \in Nat
        BY <2>6
      <3>3. \A k \in DOMAIN present : <<"LOCATED_AT", present[k], place>> \in Said(E)
        BY <2>2, <3>1 DEF Said, Kinds
      <3> HIDE DEF place, U
      <3> QED
        BY <3>2, <3>3
    <2> HIDE DEF met, at
    <2> QED
      BY <1>2, <2>1, <2>7, <2>8
  <1>10. Text!CommunicationEvents(s, people, phones) \in Seq(Said(E))
    <2> DEFINE e == Text!Ends(s, Text!Communication, people)
               a == Text!Or(e[1], Text!Unknown)
               c == Text!Or(Text!Nth(phones, 1), Text!Unknown)
               b == Text!Or(e[2], Text!Or(Text!Nth(people, 2), c))
    <2>0. c \in U
      BY <1>4, <1>5, <1>6
    <2>1. a \in U /\ b \in U
      BY <1>3, <1>4, <1>5, <1>6, <2>0
    <2>2. Text!CommunicationEvents(s, people, phones)
            = IF Text!Has(s, Text!Call) \/ ~ Text!Has(s, Text!Communication) THEN <<>>
              ELSE <<<<"COMMUNICATED_WITH", a, b>>>>
      BY DEF Text!CommunicationEvents
    <2> HIDE DEF a, b, U
    <2> QED
      BY <1>1, <1>2, <2>1, <2>2 DEF Kinds
  <1>11. Text!PresenceEvents(s, people, places) \in Seq(Said(E))
    <2> DEFINE a == Text!Or(Text!Nth(people, 1), Text!Unknown)
    <2>1. a \in U
      BY <1>4, <1>5, <1>6
    <2>2. Text!PresenceEvents(s, people, places)
            = IF ~ Text!Has(s, Text!Presence) \/ places = <<>> THEN <<>>
              ELSE <<<<"LOCATED_AT", a, places[1]>>>>
      BY DEF Text!PresenceEvents
    <2>3. places # <<>> => places[1] \in U
      OBVIOUS
    <2> HIDE DEF a, U
    <2> QED
      BY <1>1, <1>2, <2>1, <2>2, <2>3 DEF Kinds
  <1> QED
    BY <1>7, <1>8, <1>9, <1>10, <1>11

-----------------------------------------------------------------------------
\* The relations of a document.

\* The lists of a text hold words of the text.
LEMMA EntitiesOfText ==
    ASSUME NEW S, NEW text \in Seq(S), NEW e, e = Text!extract_entities(text)
    PROVE  /\ e.PERSON \in Seq(Elements(text))
           /\ e.LOCATION \in Seq(Elements(text))
           /\ e.ORGANIZATION \in Seq(Elements(text))
           /\ e.PHONE \in Seq(Elements(text))
           /\ e.VEHICLE \in Seq(Elements(text))
  <1>1. ASSUME NEW s, NEW R, s \in Seq(R), Elements(s) \subseteq Elements(text)
        PROVE  s \in Seq(Elements(text))
    <2>1. \A i \in DOMAIN s : s[i] \in Elements(text)
      BY <1>1 DEF Elements
    <2> QED
      BY <1>1, <2>1
  <1>2. ASSUME NEW kind, \A n \in kind : Length[n] \in Nat
        PROVE  Text!deduplicate_entities_fuzzy(Text!Found(text, kind)) \in Seq(Elements(text))
    <2> DEFINE found == Text!Found(text, kind)
               kept == Text!deduplicate_entities_fuzzy(found)
    <2>1. found \in Seq(kind) /\ Elements(found) \subseteq Elements(text)
      BY FoundWords
    <2> HIDE DEF found
    <2>2. kept \in Seq(kind) /\ Elements(kept) \subseteq Elements(found)
      BY <1>2, <2>1, Deduplicated
    <2> HIDE DEF kept
    <2>3. kept \in Seq(Elements(text))
      BY <1>1, <2>1, <2>2
    <2> QED
      BY <2>3 DEF kept, found
  <1>3. ASSUME NEW kind
        PROVE  Text!Unique(Text!Found(text, kind)) \in Seq(Elements(text))
    <2> DEFINE found == Text!Found(text, kind)
               all == Text!ToSet(found)
               same == {<<w, w>> : w \in all}
               kept == Text!Unique(found)
    <2>1. found \in Seq(kind) /\ Elements(found) \subseteq Elements(text)
      BY FoundWords
    <2>2. kept = Text!Kept(found, all, same)
      BY DEF Text!Unique
    <2> HIDE DEF found, all, same, kept
    <2>3. kept \in Seq(kind) /\ Elements(kept) \subseteq Elements(found)
      BY ONLY <2>1, <2>2, KeptWords
    <2>4. kept \in Seq(Elements(text))
      BY <1>1, <2>1, <2>3
    <2> QED
      BY <2>4 DEF kept, found
  <1>4. /\ \A n \in Persons : Length[n] \in Nat
        /\ \A n \in Locations : Length[n] \in Nat
        /\ \A n \in Organizations : Length[n] \in Nat
    BY LengthsAreNumbers
  <1>5. /\ e.PERSON = Text!deduplicate_entities_fuzzy(Text!Found(text, Persons))
        /\ e.LOCATION = Text!deduplicate_entities_fuzzy(Text!Found(text, Locations))
        /\ e.ORGANIZATION = Text!deduplicate_entities_fuzzy(Text!Found(text, Organizations))
        /\ e.PHONE = Text!Unique(Text!Found(text, Phones))
        /\ e.VEHICLE = Text!Unique(Text!Found(text, Vehicles))
    BY DEF Text!extract_entities
  <1> QED
    BY <1>2, <1>3, <1>4, <1>5

LEMMA PairsOfLists ==
    ASSUME NEW A, NEW B, NEW what, NEW from \in Seq(A), NEW to \in Seq(B)
    PROVE  Text!Pairs(what, from, to) \in Seq({what} \X A \X B)
  <1> DEFINE R == {what} \X A \X B
             row(i) == [j \in DOMAIN to |-> <<what, from[i], to[j]>>]
             rows == [i \in DOMAIN from |-> row(i)]
  <1>1. Text!Pairs(what, from, to) = Text!FlattenSeq(rows)
    BY DEF Text!Pairs
  <1>2. /\ DOMAIN from = 1..Len(from) /\ Len(from) \in Nat
        /\ DOMAIN to = 1..Len(to) /\ Len(to) \in Nat
    OBVIOUS
  <1>3. ASSUME NEW i \in DOMAIN from
        PROVE  row(i) \in Seq(R)
    <2>1. \A j \in DOMAIN to : <<what, from[i], to[j]>> \in R
      OBVIOUS
    <2> HIDE DEF R
    <2> QED
      BY <1>2, <2>1
  <1> HIDE DEF row, R
  <1>4. rows \in Seq(Seq(R))
    BY <1>2, <1>3
  <1> HIDE DEF rows
  <1> QED
    BY <1>1, <1>4, Joined DEF R

\* What is found in a document: relations between words of one sentence, and of
\* any word to the case.
Supported ==
    (UNION {Said(Elements(s)) : s \in Elements(document)})
    \cup ({"MENTIONED_IN"} \X Words \X {Text!CaseNode})

LEMMA OfSentence ==
    ASSUME NEW i \in DOMAIN document, NEW r \in Seq(Said(Elements(document[i])))
    PROVE  r \in Seq(Supported)
  <1>1. Said(Elements(document[i])) \subseteq Supported
    <2>1. document[i] \in Elements(document)
      BY DEF Elements
    <2> QED
      BY <2>1 DEF Supported
  <1> HIDE DEF Supported
  <1> QED
    BY <1>1

LEMMA CoOccurrencesOfSentence ==
    ASSUME NEW S, NEW s \in Seq(S)
    PROVE  Text!CoOccurrences(s) \in Seq(Said(Elements(s)))
  <1> DEFINE e == Text!extract_entities(s)
             R == Said(Elements(s))
             affiliated == IF Text!Has(s, Text!Affiliation)
                           THEN Text!Pairs("AFFILIATED_WITH", e.PERSON, e.ORGANIZATION)
                           ELSE <<>>
             operated == Text!Pairs("OPERATES_VEHICLE", e.PERSON, e.VEHICLE)
             located == Text!Pairs("LOCATED_AT", e.PERSON, e.LOCATION)
  <1>1. Text!CoOccurrences(s) = affiliated \o operated \o located
    BY DEF Text!CoOccurrences
  <1>2. ASSUME NEW what \in Kinds, NEW from \in Seq(Elements(s)), NEW to \in Seq(Elements(s))
        PROVE  Text!Pairs(what, from, to) \in Seq(R)
    <2>1. Text!Pairs(what, from, to) \in Seq({what} \X Elements(s) \X Elements(s))
      BY PairsOfLists
    <2>2. {what} \X Elements(s) \X Elements(s) \subseteq R
      BY DEF Said
    <2> HIDE DEF R
    <2> QED
      BY <2>1, <2>2
  <1>3. /\ e.PERSON \in Seq(Elements(s)) /\ e.ORGANIZATION \in Seq(Elements(s))
        /\ e.VEHICLE \in Seq(Elements(s)) /\ e.LOCATION \in Seq(Elements(s))
    BY EntitiesOfText
  <1> HIDE DEF e, R
  <1>4. affiliated \in Seq(R) /\ operated \in Seq(R) /\ located \in Seq(R)
    <2>1. "AFFILIATED_WITH" \in Kinds /\ "OPERATES_VEHICLE" \in Kinds /\ "LOCATED_AT" \in Kinds
      BY DEF Kinds
    <2>2. affiliated \in Seq(R)
      <3>1. Text!Pairs("AFFILIATED_WITH", e.PERSON, e.ORGANIZATION) \in Seq(R)
        BY <1>2, <1>3, <2>1
      <3> QED
        BY <3>1
    <2>3. operated \in Seq(R)
      BY <1>2, <1>3, <2>1
    <2>4. located \in Seq(R)
      BY <1>2, <1>3, <2>1
    <2> QED
      BY <2>2, <2>3, <2>4
  <1> HIDE DEF affiliated, operated, located
  <1> QED
    BY <1>1, <1>4 DEF R

LEMMA EventsOfDocument ==
    ASSUME DocumentTyped
    PROVE  Text!Events(document) \in Seq(Supported)
  <1> DEFINE e(i) == Text!extract_entities(document[i])
             p(i) == Text!People(document, i)
             Calls(i) == Text!CallEvents(document[i], p(i), e(i).PHONE)
             Transfers(i) == Text!TransactionEvents(document[i], p(i))
             Meetings(i) == Text!MeetingEvents(document[i], p(i),
                                               e(i).LOCATION \o e(i).ORGANIZATION)
             Contacts(i) == Text!CommunicationEvents(document[i], p(i), e(i).PHONE)
             Presences(i) == Text!PresenceEvents(document[i], p(i), e(i).LOCATION)
             c == [i \in DOMAIN document |-> Calls(i)]
             t == [i \in DOMAIN document |-> Transfers(i)]
             m == [i \in DOMAIN document |-> Meetings(i)]
             k == [i \in DOMAIN document |-> Contacts(i)]
             l == [i \in DOMAIN document |-> Presences(i)]
  <1>1. Text!Events(document) = Text!FlattenSeq(c) \o Text!FlattenSeq(t) \o Text!FlattenSeq(m)
                                \o Text!FlattenSeq(k) \o Text!FlattenSeq(l)
    BY DEF Text!Events
  <1>2. DOMAIN document = 1..Len(document) /\ Len(document) \in Nat
    BY DEF DocumentTyped
  <1>3. ASSUME NEW i \in DOMAIN document
        PROVE  /\ Calls(i) \in Seq(Supported)
               /\ Transfers(i) \in Seq(Supported)
               /\ Meetings(i) \in Seq(Supported)
               /\ Contacts(i) \in Seq(Supported)
               /\ Presences(i) \in Seq(Supported)
    <2> DEFINE E == Elements(document[i])
               R == Said(E)
    <2>1. document[i] \in Seq(Words)
      BY SentencesHoldWords DEF DocumentTyped
    <2>2. /\ e(i).PERSON \in Seq(E) /\ e(i).LOCATION \in Seq(E)
          /\ e(i).ORGANIZATION \in Seq(E) /\ e(i).PHONE \in Seq(E)
      <3> HIDE DEF Words
      <3> QED
        BY <2>1, EntitiesOfText
    <2>3. p(i) = e(i).PERSON
      BY DEF Text!People
    <2> HIDE DEF e, p, E
    <2>4. p(i) \in Seq(E) /\ e(i).LOCATION \o e(i).ORGANIZATION \in Seq(E)
      BY <2>2, <2>3
    <2> DEFINE people == p(i)
               phones == e(i).PHONE
               venues == e(i).LOCATION \o e(i).ORGANIZATION
               places == e(i).LOCATION
    <2>5. /\ people \in Seq(E) /\ phones \in Seq(E) /\ venues \in Seq(E) /\ places \in Seq(E)
      BY <2>2, <2>4
    <2>6. /\ Calls(i) = Text!CallEvents(document[i], people, phones)
          /\ Transfers(i) = Text!TransactionEvents(document[i], people)
          /\ Meetings(i) = Text!MeetingEvents(document[i], people, venues)
          /\ Contacts(i) = Text!CommunicationEvents(document[i], people, phones)
          /\ Presences(i) = Text!PresenceEvents(document[i], people, places)
      OBVIOUS
    <2> HIDE DEF people, phones, venues, places, Calls, Transfers, Meetings, Contacts, Presences, R
    <2>7. Calls(i) \in Seq(R) /\ Transfers(i) \in Seq(R) /\ Contacts(i) \in Seq(R)
          /\ Presences(i) \in Seq(R)
      BY ONLY <2>1, <2>5, <2>6, EventsOfSentence DEF R
    <2>8. Meetings(i) \in Seq(R)
      BY ONLY <2>1, <2>5, <2>6, EventsOfSentence DEF R
    <2> QED
      BY <2>7, <2>8, OfSentence DEF R, E
  <1> HIDE DEF Calls, Transfers, Meetings, Contacts, Presences, Supported
  <1>4. /\ c \in Seq(Seq(Supported)) /\ t \in Seq(Seq(Supported)) /\ m \in Seq(Seq(Supported))
        /\ k \in Seq(Seq(Supported)) /\ l \in Seq(Seq(Supported))
    BY <1>2, <1>3
  <1> HIDE DEF c, t, m, k, l
  <1>5. /\ Text!FlattenSeq(c) \in Seq(Supported) /\ Text!FlattenSeq(t) \in Seq(Supported)
        /\ Text!FlattenSeq(m) \in Seq(Supported) /\ Text!FlattenSeq(k) \in Seq(Supported)
        /\ Text!FlattenSeq(l) \in Seq(Supported)
    BY <1>4, Joined
  <1> QED
    BY <1>1, <1>5

LEMMA CaseScopeOfDocument ==
    ASSUME DocumentTyped
    PROVE  Text!CaseScope(document) \in Seq(Supported)
  <1> DEFINE text == Text!FlattenSeq(document)
             e == Text!extract_entities(text)
             all == e.PERSON \o e.LOCATION \o e.ORGANIZATION
             R == {"MENTIONED_IN"} \X Words \X {Text!CaseNode}
  <1>1. Text!CaseScope(document) = Text!Pairs("MENTIONED_IN", all, <<Text!CaseNode>>)
    BY DEF Text!CaseScope
  <1>2. text \in Seq(Words)
    <2>1. document \in Seq(Seq(Words))
      BY SentencesHoldWords DEF DocumentTyped
    <2> HIDE DEF Words
    <2> QED
      BY <2>1, Joined
  <1> HIDE DEF text, Words
  <1>3. /\ e.PERSON \in Seq(Elements(text)) /\ e.LOCATION \in Seq(Elements(text))
        /\ e.ORGANIZATION \in Seq(Elements(text))
    BY <1>2, EntitiesOfText
  <1>4. Elements(text) \subseteq Words
    BY <1>2 DEF Elements
  <1> HIDE DEF e
  <1>5. all \in Seq(Words)
    BY <1>3, <1>4
  <1> HIDE DEF all
  <1>6. <<Text!CaseNode>> \in Seq({Text!CaseNode})
    OBVIOUS
  <1>7. Text!CaseScope(document) \in Seq(R)
    <2> DEFINE to == <<Text!CaseNode>>
               B == {Text!CaseNode}
    <2>1. to \in Seq(B)
      BY <1>6
    <2> HIDE DEF to, B
    <2>2. Text!Pairs("MENTIONED_IN", all, to) \in Seq({"MENTIONED_IN"} \X Words \X B)
      BY <1>5, <2>1, PairsOfLists
    <2> QED
      BY <1>1, <2>2 DEF to, B
  <1>8. R \subseteq Supported
    BY DEF Supported
  <1> HIDE DEF R
  <1> QED
    BY <1>7, <1>8

\* Whatever the document: the ends of every relation but that to the case
\* stand in one sentence.
THEOREM RelationsStayInSentences == AnalysisSpec => []RelationsHaveSentence
  <1>1. DocumentTyped => RelationsHaveSentence
    <2> SUFFICES ASSUME DocumentTyped PROVE RelationsHaveSentence
      OBVIOUS
    <2> DEFINE co == [i \in DOMAIN document |-> Text!CoOccurrences(document[i])]
               found == Text!Events(document) \o Text!FlattenSeq(co) \o Text!CaseScope(document)
               linkable == {rel \in Text!ToSet(found) : Text!Linkable(rel)}
               linked == Text!Kept(found, linkable, {})
               all == Text!ToSet(linked)
               same == {<<w, w>> : w \in all}
               relations == Text!extract_relationships(document)
    <2>1. relations = Text!Kept(linked, all, same)
      BY DEF Text!extract_relationships, Text!Unique
    <2>2. Text!FlattenSeq(co) \in Seq(Supported)
      <3>1. ASSUME NEW i \in DOMAIN document
            PROVE  Text!CoOccurrences(document[i]) \in Seq(Supported)
        <4>1. document[i] \in Seq(Words)
          BY SentencesHoldWords DEF DocumentTyped
        <4> HIDE DEF Words
        <4>2. Text!CoOccurrences(document[i]) \in Seq(Said(Elements(document[i])))
          BY <4>1, CoOccurrencesOfSentence
        <4> QED
          BY <4>2, OfSentence
      <3>2. DOMAIN document = 1..Len(document) /\ Len(document) \in Nat
        BY DEF DocumentTyped
      <3>3. co \in Seq(Seq(Supported))
        <4> HIDE DEF Supported
        <4> QED
          BY <3>1, <3>2
      <3> HIDE DEF co, Supported
      <3> QED
        BY <3>3, Joined
    <2>3. Text!Events(document) \in Seq(Supported) /\ Text!CaseScope(document) \in Seq(Supported)
      BY EventsOfDocument, CaseScopeOfDocument
    <2> HIDE DEF co, Supported
    <2>4. found \in Seq(Supported)
      BY <2>2, <2>3
    <2> HIDE DEF found
    <2>5. linked \in Seq(Supported)
      <3> HIDE DEF linkable
      <3> QED
        BY <2>4, KeptWords
    <2>6. \A i \in DOMAIN linked : linked[i] \in linkable
      <3>1. linked = Text!Kept(found, linkable, {})
        OBVIOUS
      <3> HIDE DEF linkable, linked
      <3> QED
        BY ONLY <2>4, <3>1, KeptWords
    <2>7. \A rel \in linkable : Text!Linkable(rel)
      OBVIOUS
    <2> HIDE DEF linkable, linked, all, same, relations
    <2>8. Elements(relations) \subseteq Elements(linked)
      BY ONLY <2>1, <2>5, KeptWords
    <2>9. ASSUME NEW rel \in Elements(relations), rel[1] # "MENTIONED_IN"
          PROVE  \E s \in Elements(document) : {rel[2], rel[3]} \subseteq Elements(s)
      <3>1. rel \in Supported /\ Text!Linkable(rel)
        BY <2>5, <2>6, <2>7, <2>8 DEF Elements
      <3>2. PICK s \in Elements(document) : rel \in Said(Elements(s))
        <4>1. rel \notin {"MENTIONED_IN"} \X Words \X {Text!CaseNode}
          BY <2>9
        <4> QED
          BY <3>1, <4>1 DEF Supported
      <3>3. /\ rel[2] \in Elements(s) \cup {Text!Unknown}
            /\ rel[3] \in Elements(s) \cup {Text!Unknown}
        BY <3>2 DEF Said
      <3>4. rel[2] # Text!Unknown /\ rel[3] # Text!Unknown
        BY <3>1 DEF Text!Linkable
      <3> QED
        BY <3>3, <3>4
    <2> QED
      BY <2>9 DEF RelationsHaveSentence, relations
  <1> QED
    BY <1>1, DocumentIsTyped, PTL

=============================================================================
