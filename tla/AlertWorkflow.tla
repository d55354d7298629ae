---------------------------- MODULE AlertWorkflow ----------------------------
(***************************************************************************)
(* The human review of automated alerts: alerts/workflow.py over the table *)
(* alerts.  A disposition (confirm_alert, dismiss_alert) loads the row and *)
(* assigns its columns (Review), commits an UPDATE (CommitDisposition),    *)
(* and then records itself twice, in transactions of their own: an audit   *)
(* event (Audit) and a custody record (Custody).                           *)
(*                                                                         *)
(* The UPDATE that SQLAlchemy emits holds the columns whose value differs  *)
(* from the one loaded, so a row that two handlers write can mix columns   *)
(* of both.  Of the columns of a review, status and reviewed_by are        *)
(* modelled; the notes and the time of the review are left out.            *)
(***************************************************************************)
CONSTANTS
    Alerts,     \* ids of alerts
    Reviewers,  \* e-mail addresses of investigators and administrators
    Sessions,   \* concurrent handler invocations
    Nobody      \* the value of reviewed_by that is NULL

ASSUME AlertConstants == Nobody \notin Reviewers

VARIABLES
    alerts,         \* the table; status "none" where no row exists
    audit_log,      \* <<decision, alert, reviewer>> of the audit events
    custody_log,    \* the same of the custody records
    session,        \* session[s] = what handler s has loaded and decided
    lost            \* history: what failing handlers committed, never to audit

vars == <<alerts, audit_log, custody_log, session, lost>>

-----------------------------------------------------------------------------
Decisions == {"CONFIRMED", "DISMISSED"}

Row(st, reviewer) == [status |-> st, reviewed_by |-> reviewer]

Idle == [pc |-> "idle"]

Init ==
    /\ alerts = [a \in Alerts |-> Row("none", Nobody)]
    /\ audit_log = {}
    /\ custody_log = {}
    /\ session = [s \in Sessions |-> Idle]
    /\ lost = {}

\* create_alert, called by the detectors of an ingestion.
CreateAlert(a) ==
    /\ alerts[a].status = "none"
    /\ alerts' = [alerts EXCEPT ![a] = Row("PENDING", Nobody)]
    /\ UNCHANGED <<audit_log, custody_log, session, lost>>

\* confirm_alert and dismiss_alert up to the commit.  Nothing asks for the
\* row to be PENDING.
Review(s, a, decision, reviewer) ==
    /\ session[s] = Idle
    /\ alerts[a].status # "none"
    /\ session' = [session EXCEPT ![s] =
            [pc |-> "update", alert |-> a, loaded |-> alerts[a],
             decision |-> decision, by |-> reviewer]]
    /\ UNCHANGED <<alerts, audit_log, custody_log, lost>>

\* A column after an UPDATE that holds it only if it changed since the load.
Written(now, loaded, new) == IF new = loaded THEN now ELSE new

\* The row after the UPDATE of lines 57 and 107.
Disposed(k) ==
    LET now == alerts[k.alert] IN
    Row(Written(now.status, k.loaded.status, k.decision),
        Written(now.reviewed_by, k.loaded.reviewed_by, k.by))

\* Mutant of ToRecord: only the first disposition of an alert is recorded.
ToRecordFirst(k) ==
    IF k.loaded.status = "PENDING"
    THEN [pc |-> "audit", event |-> <<k.decision, k.alert, k.by>>]
    ELSE Idle

\* What is left to record once the disposition is committed.
ToRecord(k) == [pc |-> "audit", event |-> <<k.decision, k.alert, k.by>>]

CommitDisposition(s) ==
    LET k == session[s] IN
    /\ k.pc = "update"
    /\ alerts' = [alerts EXCEPT ![k.alert] = Disposed(k)]
    /\ session' = [session EXCEPT ![s] = ToRecord(k)]
    /\ UNCHANGED <<audit_log, custody_log, lost>>

\* Mutant of Audit: the exception of log_audit_event is swallowed.
AuditSwallowed(s) ==
    LET k == session[s] IN
    /\ k.pc = "audit"
    /\ session' = [session EXCEPT ![s] = [pc |-> "custody", event |-> k.event]]
    /\ UNCHANGED <<alerts, audit_log, custody_log, lost>>

\* Lines 61-68 and 111-118.
Audit(s) ==
    LET k == session[s] IN
    /\ k.pc = "audit"
    /\ audit_log' = audit_log \cup {k.event}
    /\ session' = [session EXCEPT ![s] = [pc |-> "custody", event |-> k.event]]
    /\ UNCHANGED <<alerts, custody_log, lost>>

\* Lines 71-84 and 121-134.
Custody(s) ==
    /\ session[s].pc = "custody"
    /\ custody_log' = custody_log \cup {session[s].event}
    /\ session' = [session EXCEPT ![s] = Idle]
    /\ UNCHANGED <<alerts, audit_log, lost>>

\* A transaction fails and is rolled back, or the server stops.
Fail(s) ==
    /\ session[s] # Idle
    /\ session' = [session EXCEPT ![s] = Idle]
    /\ lost' = IF session[s].pc = "audit" THEN lost \cup {session[s].event}
                                         ELSE lost
    /\ UNCHANGED <<alerts, audit_log, custody_log>>

Next ==
    \/ \E a \in Alerts : CreateAlert(a)
    \/ \E s \in Sessions :
         \/ \E a \in Alerts, d \in Decisions, u \in Reviewers : Review(s, a, d, u)
         \/ CommitDisposition(s)
         \/ Audit(s)
         \/ Custody(s)
         \/ Fail(s)

Spec == Init /\ [][Next]_vars

-----------------------------------------------------------------------------
Rows == [status : {"none", "PENDING"} \cup Decisions,
         reviewed_by : Reviewers \cup {Nobody}]

Events == Decisions \X Alerts \X Reviewers

SessionStates ==
    {Idle}
    \cup [pc : {"update"}, alert : Alerts, loaded : Rows,
          decision : Decisions, by : Reviewers]
    \cup [pc : {"audit", "custody"}, event : Events]

\* Type invariant of the table, the two logs and the handlers.
TypeOK ==
    /\ alerts \in [Alerts -> Rows]
    /\ audit_log \subseteq Events
    /\ custody_log \subseteq Events
    /\ session \in [Sessions -> SessionStates]
    /\ lost \subseteq Events

\* "Cannot be confirmed without human action" (line 21): an alert has left
\* PENDING exactly if it has a reviewer, although the two columns may have
\* been written by different handlers.
DecidedHasReviewer ==
    \A a \in Alerts :
        alerts[a].status \in Decisions <=> alerts[a].reviewed_by # Nobody

\* The two logs tell one story: a disposition in the chain of custody is in
\* the audit log, and what the audit log reports was done to an alert that is
\* no longer pending, whatever fails in between.
LogsFollowTheTable ==
    /\ custody_log \subseteq audit_log
    /\ \A e \in audit_log : alerts[e[2]].status \in Decisions

\* A disposed alert never becomes PENDING again, and keeps a reviewer.
NeverReopened ==
    [][\A a \in Alerts :
         alerts[a].status \in Decisions => alerts'[a].status \in Decisions]_vars

\* The events of the handlers that have committed but not yet recorded.
Unrecorded == {session[s].event : s \in {r \in Sessions : session[r].pc = "audit"}}

\* The dispositions that have been committed.
Committed == audit_log \cup Unrecorded \cup lost

\* "Only authorized officers can confirm or dismiss alerts, with every
\* disposition recorded in the audit log" (README line 32).  What holds of it:
\* the status of a disposed alert and its reviewer are each from a disposition
\* that is in the audit log, or about to be; unless the handler has failed
\* between its commit and its audit event, which is the one gap.
RowIsAccountedFor ==
    \A a \in Alerts :
        alerts[a].status \in Decisions =>
            /\ \E u \in Reviewers : <<alerts[a].status, a, u>> \in Committed
            /\ \E d \in Decisions : <<d, a, alerts[a].reviewed_by>> \in Committed

-----------------------------------------------------------------------------
\* The same sentence of the README, taken at its word: the decision that the
\* row shows was audited, or is about to be, and as its reviewer's.  It fails
\* if a handler fails, and if two handlers write the two columns.
RowIsOnAudit ==
    \A a \in Alerts :
        alerts[a].status \in Decisions =>
            <<alerts[a].status, a, alerts[a].reviewed_by>>
                \in audit_log \cup Unrecorded

=============================================================================
