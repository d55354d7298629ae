-------------------------------- MODULE CaseFile --------------------------------
(***************************************************************************)
(* Cases and their digital evidence: cases/service.py, evidence/service.py *)
(* and the routes that insert a case on their way (load_demo_case,         *)
(* upload_case_json).  A handler reads, decides, and commits step by step: *)
(* the row, the record in the chain of custody, the audit event.  Evidence *)
(* is also a file on disk, which is written before its row and which may   *)
(* be altered, removed or restored behind the program's back.              *)
(*                                                                         *)
(* An UPDATE holds a column only if its value differs from the one loaded. *)
(* The hash is taken to be injective: a file matches if it is as stored.   *)
(***************************************************************************)
EXTENDS Naturals

CONSTANTS
    Handlers,   \* concurrent requests
    Cases,      \* case numbers
    Evidence,   \* evidence ids, each given out once
    MaxRequests \* bound on the requests

VARIABLES
    cases,      \* status of the row of a case, "none" if there is no row
    created,    \* number of CASE_CREATED records in the chain of custody
    evidence,   \* integrity_status of the row, "none" if there is no row
    file,       \* the file on disk: "none", "intact", "altered", "removed"
    custody,    \* the other records of the chain of custody
    audit,      \* audit events
    requests,   \* requests made so far
    handler,    \* where a handler is and what it holds in memory
    lost,       \* history: records of committed changes whose handler failed
    seen,       \* history: what the latest verification found of a file
    disputed    \* history: evidence whose verifications overlapped or failed

vars == <<cases, created, evidence, file, custody, audit, requests, handler, lost, seen, disputed>>

caseVars == <<cases, created, audit>>
evidenceVars == <<evidence, file, seen>>

-----------------------------------------------------------------------------
CaseStatus == {"OPEN", "IN_PROGRESS", "COMPLETED", "CLOSED"}

Idle == [at |-> "idle"]

Init ==
    /\ cases = [c \in Cases |-> "none"]
    /\ created = [c \in Cases |-> 0]
    /\ evidence = [e \in Evidence |-> "none"]
    /\ file = [e \in Evidence |-> "none"]
    /\ custody = {}
    /\ audit = {}
    /\ requests = 0
    /\ handler = [h \in Handlers |-> Idle]
    /\ lost = {}
    /\ seen = [e \in Evidence |-> "intact"]
    /\ disputed = {}

\* Handler h starts with k, or goes on with k.
Start(h, k) ==
    /\ handler[h] = Idle
    /\ requests < MaxRequests
    /\ requests' = requests + 1
    /\ handler' = [handler EXCEPT ![h] = k]

Go(h, k) == handler' = [handler EXCEPT ![h] = k] /\ UNCHANGED requests

\* create_case finds no case of the number; so do the routes that insert a
\* case of their own ("upload"), which have nothing to do here if they find one.
FindNoCase(h, c) ==
    /\ cases[c] = "none"
    /\ \E route \in {"create", "upload"} : Start(h, [at |-> "insert", case |-> c, route |-> route])
    /\ UNCHANGED <<caseVars, evidenceVars, custody, lost, disputed>>

\* Mutant of InsertCase: without the unique index on case_id.
InsertCaseAgain(h) ==
    LET k == handler[h] IN
    /\ k.at = "insert"
    /\ cases' = [cases EXCEPT ![k.case] = "OPEN"]
    /\ Go(h, IF k.route = "create" THEN [at |-> "created", case |-> k.case] ELSE Idle)
    /\ UNCHANGED <<created, audit, evidenceVars, custody, lost, disputed>>

\* The INSERT, refused by the unique index if another was faster.
InsertCase(h) ==
    LET k == handler[h] IN
    /\ k.at = "insert"
    /\ IF cases[k.case] = "none"
       THEN /\ cases' = [cases EXCEPT ![k.case] = "OPEN"]
            /\ Go(h, IF k.route = "create" THEN [at |-> "created", case |-> k.case] ELSE Idle)
       ELSE /\ Go(h, Idle)
            /\ UNCHANGED cases
    /\ UNCHANGED <<created, audit, evidenceVars, custody, lost, disputed>>

\* The record CASE_CREATED.
LogCreated(h) ==
    LET k == handler[h] IN
    /\ k.at = "created"
    /\ created' = [created EXCEPT ![k.case] = @ + 1]
    /\ Go(h, [at |-> "audit", event |-> <<"CREATE_CASE", k.case>>])
    /\ UNCHANGED <<cases, audit, evidenceVars, custody, lost, disputed>>

\* update_case_status up to the commit.
LoadCase(h, c, new) ==
    /\ cases[c] # "none"
    /\ Start(h, [at |-> "update", case |-> c, old |-> cases[c], new |-> new])
    /\ UNCHANGED <<caseVars, evidenceVars, custody, lost, disputed>>

Changed(k) == <<"STATUS", k.case, k.old, k.new>>

CommitStatus(h) ==
    LET k == handler[h] IN
    /\ k.at = "update"
    /\ cases' = [cases EXCEPT ![k.case] = IF k.new = k.old THEN @ ELSE k.new]
    /\ Go(h, [at |-> "record", event |-> Changed(k), then |-> "audit"])
    /\ UNCHANGED <<created, audit, evidenceVars, custody, lost, disputed>>

\* Mutant of Record: the status of an ended case is not recorded again.
RecordFirst(h) ==
    LET k == handler[h] IN
    /\ k.at = "record"
    /\ custody' = IF \E r \in custody : r[1] = "STATUS" /\ r[2] = k.event[2]
                  THEN custody ELSE custody \cup {k.event}
    /\ Go(h, IF k.then = "audit" THEN [at |-> "audit", event |-> k.event] ELSE Idle)
    /\ UNCHANGED <<caseVars, evidenceVars, lost, disputed>>

\* The record of a change that is committed (CASE_COMPLETED or CASE_UPDATED,
\* EVIDENCE_UPLOADED, EVIDENCE_VERIFIED, EVIDENCE_COMPROMISED,
\* EVIDENCE_FILE_MISSING), a transaction of log_custody_action.
Record(h) ==
    LET k == handler[h] IN
    /\ k.at = "record"
    /\ custody' = custody \cup {k.event}
    /\ Go(h, IF k.then = "audit" THEN [at |-> "audit", event |-> k.event] ELSE Idle)
    /\ UNCHANGED <<caseVars, evidenceVars, lost, disputed>>

Audit(h) ==
    /\ handler[h].at = "audit"
    /\ audit' = audit \cup {handler[h].event}
    /\ Go(h, Idle)
    /\ UNCHANGED <<cases, created, evidenceVars, custody, lost, disputed>>

-----------------------------------------------------------------------------
\* register_evidence: the file is written first, under an id of its own.
StoreFile(h, e) ==
    /\ file[e] = "none"
    /\ file' = [file EXCEPT ![e] = "intact"]
    /\ Start(h, [at |-> "row", evidence |-> e])
    /\ UNCHANGED <<caseVars, evidence, seen, custody, lost, disputed>>

\* Its row follows, with status VERIFIED.
InsertEvidence(h) ==
    LET k == handler[h] IN
    /\ k.at = "row"
    /\ evidence' = [evidence EXCEPT ![k.evidence] = "VERIFIED"]
    /\ Go(h, [at |-> "record", event |-> <<"UPLOADED", k.evidence>>, then |-> "end"])
    /\ UNCHANGED <<caseVars, file, seen, custody, lost, disputed>>

\* Somebody alters, removes or restores a stored file.
Disturb(e, to) ==
    /\ file[e] # "none"
    /\ file' = [file EXCEPT ![e] = to]
    /\ UNCHANGED <<caseVars, evidence, seen, custody, requests, handler, lost, disputed>>

Verifying(h, e) ==
    /\ handler[h].at \in {"look", "read", "verdict"}
    /\ handler[h].evidence = e

\* verify_evidence_integrity loads the row ...
LoadEvidence(h, e) ==
    /\ evidence[e] # "none"
    /\ Start(h, [at |-> "look", evidence |-> e, loaded |-> evidence[e]])
    /\ disputed' = IF \E g \in Handlers : Verifying(g, e) THEN disputed \cup {e} ELSE disputed
    /\ UNCHANGED <<caseVars, evidenceVars, custody, lost>>

\* The assignment of a verdict to the row, not yet committed.
Judge(h, action, found) ==
    /\ Go(h, [at |-> "verdict", evidence |-> handler[h].evidence, loaded |-> handler[h].loaded,
              action |-> action, status |-> IF found = "intact" THEN "VERIFIED" ELSE "COMPROMISED"])
    /\ seen' = [seen EXCEPT ![handler[h].evidence] = found]

\* ... asks whether the file exists ...
LookForFile(h) ==
    LET k == handler[h] IN
    /\ k.at = "look"
    /\ IF file[k.evidence] = "removed"
       THEN Judge(h, "FILE_MISSING", "removed")
       ELSE /\ Go(h, [at |-> "read", evidence |-> k.evidence, loaded |-> k.loaded])
            /\ UNCHANGED seen
    /\ UNCHANGED <<caseVars, evidence, file, custody, lost, disputed>>

\* ... reads it (open raises if it is gone by now: Fail) and compares the hash ...
ReadFile(h) ==
    LET k == handler[h] IN
    /\ k.at = "read"
    /\ file[k.evidence] # "removed"
    /\ Judge(h, IF file[k.evidence] = "intact" THEN "VERIFIED" ELSE "COMPROMISED",
             file[k.evidence])
    /\ UNCHANGED <<caseVars, evidence, file, custody, lost, disputed>>

\* Mutant of CommitVerdict: once compromised, evidence stays so.
CommitVerdictOnce(h) ==
    LET k == handler[h] IN
    /\ k.at = "verdict"
    /\ evidence' = [evidence EXCEPT ![k.evidence] = IF k.loaded = "COMPROMISED" THEN @ ELSE k.status]
    /\ Go(h, [at |-> "record", event |-> <<k.action, k.evidence>>, then |-> "end"])
    /\ UNCHANGED <<caseVars, file, seen, custody, lost, disputed>>

\* ... and commits the verdict, which is an UPDATE if it is not the loaded one.
CommitVerdict(h) ==
    LET k == handler[h] IN
    /\ k.at = "verdict"
    /\ evidence' = [evidence EXCEPT ![k.evidence] = IF k.status = k.loaded THEN @ ELSE k.status]
    /\ Go(h, [at |-> "record", event |-> <<k.action, k.evidence>>, then |-> "end"])
    /\ UNCHANGED <<caseVars, file, seen, custody, lost, disputed>>

\* Mutant of Fail: an upload that fails is recorded as verified by a retry.
FailVerified(h) ==
    LET k == handler[h] IN
    /\ k # Idle
    /\ Go(h, Idle)
    /\ evidence' = IF k.at = "row" THEN [evidence EXCEPT ![k.evidence] = "VERIFIED"] ELSE evidence
    /\ lost' = CASE k.at = "record" -> lost \cup {k.event}
                 [] k.at = "created" -> lost \cup {<<"CREATE_CASE", k.case>>}
                 [] OTHER -> lost
    /\ disputed' = IF k.at = "verdict" THEN disputed \cup {k.evidence} ELSE disputed
    /\ UNCHANGED <<caseVars, file, seen, custody>>

\* A transaction fails and is rolled back, a call raises, or the server stops.
Fail(h) ==
    LET k == handler[h] IN
    /\ k # Idle
    /\ Go(h, Idle)
    /\ lost' = CASE k.at = "row" -> lost \cup {<<"STORED", k.evidence>>}
                 [] k.at = "record" -> lost \cup {k.event}
                 [] k.at = "created" -> lost \cup {<<"CREATE_CASE", k.case>>}
                 [] OTHER -> lost
    /\ disputed' = IF k.at = "verdict" THEN disputed \cup {k.evidence} ELSE disputed
    /\ UNCHANGED <<caseVars, evidenceVars, custody>>

Next ==
    \/ \E h \in Handlers :
         \/ \E c \in Cases : FindNoCase(h, c)
         \/ \E c \in Cases, new \in CaseStatus : LoadCase(h, c, new)
         \/ \E e \in Evidence : StoreFile(h, e) \/ LoadEvidence(h, e)
         \/ InsertCase(h) \/ LogCreated(h) \/ CommitStatus(h)
         \/ InsertEvidence(h) \/ LookForFile(h) \/ ReadFile(h) \/ CommitVerdict(h)
         \/ Record(h) \/ Audit(h) \/ Fail(h)
    \/ \E e \in Evidence, to \in {"intact", "altered", "removed"} : Disturb(e, to)

Spec == Init /\ [][Next]_vars

-----------------------------------------------------------------------------
IntegrityStatus == {"VERIFIED", "COMPROMISED"}

Changes == {"STATUS"} \X Cases \X CaseStatus \X CaseStatus
Creations == {"CREATE_CASE"} \X Cases
EvidenceEvents == {"UPLOADED", "VERIFIED", "COMPROMISED", "FILE_MISSING"} \X Evidence

HandlerStates ==
    [at : {"idle"}]
    \cup [at : {"insert"}, case : Cases, route : {"create", "upload"}]
    \cup [at : {"created"}, case : Cases]
    \cup [at : {"update"}, case : Cases, old : CaseStatus, new : CaseStatus]
    \cup [at : {"record"}, event : Changes, then : {"audit"}]
    \cup [at : {"record"}, event : EvidenceEvents, then : {"end"}]
    \cup [at : {"audit"}, event : Changes \cup Creations]
    \cup [at : {"row"}, evidence : Evidence]
    \cup [at : {"look", "read"}, evidence : Evidence, loaded : IntegrityStatus]
    \cup [at : {"verdict"}, evidence : Evidence, loaded : IntegrityStatus,
          action : {"VERIFIED"}, status : {"VERIFIED"}]
    \cup [at : {"verdict"}, evidence : Evidence, loaded : IntegrityStatus,
          action : {"COMPROMISED", "FILE_MISSING"}, status : {"COMPROMISED"}]

\* Type invariant.
TypeOK ==
    /\ cases \in [Cases -> CaseStatus \cup {"none"}]
    /\ created \in [Cases -> Nat]
    /\ evidence \in [Evidence -> IntegrityStatus \cup {"none"}]
    /\ file \in [Evidence -> {"none", "intact", "altered", "removed"}]
    /\ custody \subseteq Changes \cup EvidenceEvents
    /\ audit \subseteq Changes \cup Creations
    /\ requests \in Nat
    /\ handler \in [Handlers -> HandlerStates]
    /\ lost \subseteq Changes \cup Creations \cup EvidenceEvents \cup ({"STORED"} \X Evidence)
    /\ seen \in [Evidence -> {"none", "intact", "altered", "removed"}]
    /\ disputed \subseteq Evidence

At(place) == {h \in Handlers : handler[h].at = place}

\* What has been done and is on record, about to be, or never will be because
\* the handler failed in between.
Accounted == custody \cup lost \cup {handler[h].event : h \in At("record")}

\* Of the creators of one case number at most one reaches the chain of custody,
\* and only together with the row, although they all found no such case.
CreatedOnce ==
    \A c \in Cases :
        LET creators == {h \in At("created") : handler[h].case = c} IN
        /\ created[c] <= 1
        /\ created[c] = 1 => creators = {} /\ cases[c] # "none"
        /\ \A g, h \in creators : g = h

\* The status of a case is the new status of a recorded change, or the one it
\* was opened with: handlers that loaded an older status, and UPDATEs that leave
\* the column out, do not put a status there that nobody set.
StatusIsAccountedFor ==
    \A c \in Cases :
        \/ cases[c] \in {"none", "OPEN"}
        \/ \E old \in CaseStatus : <<"STATUS", c, old, cases[c]>> \in Accounted

\* File, row and record follow one another: a row has a file, a file without a
\* row or a row without its upload record is a handler on its way or one that
\* failed, and no status other than the first is without its verification.
EvidenceIsAccountedFor ==
    \A e \in Evidence :
        /\ evidence[e] # "none" => file[e] # "none" /\ <<"UPLOADED", e>> \in Accounted
        /\ (file[e] # "none" /\ evidence[e] = "none") =>
              \/ \E h \in At("row") : handler[h].evidence = e
              \/ <<"STORED", e>> \in lost
        /\ evidence[e] = "COMPROMISED" =>
              {<<"COMPROMISED", e>>, <<"FILE_MISSING", e>>} \cap Accounted # {}

\* "compare with the immutable originally recorded fingerprint. Updates status"
\* (evidence/service.py 121): when no verification is under way, the status is
\* what the latest one found, unless verifications overlapped or failed before
\* their commit.
VerdictIsLatest ==
    \A e \in Evidence :
        (evidence[e] # "none" /\ e \notin disputed /\ ~\E h \in Handlers : Verifying(h, e)) =>
            (evidence[e] = "VERIFIED") = (seen[e] = "intact")

=============================================================================
