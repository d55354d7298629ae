------------------------- MODULE AlertWorkflowProofs -------------------------
(***************************************************************************)
(* Proofs about AlertWorkflow for any alerts, reviewers and handlers.  A   *)
(* handler commits over a row that others may have written since it was    *)
(* loaded; what saves the invariants is that a row only ever moves forward *)
(* (Forward), so that a stale row is an earlier stage of the present one.  *)
(***************************************************************************)
EXTENDS AlertWorkflow, TLAPS

\* Decided exactly if reviewed.
WellFormed(row) == row.status \in Decisions <=> row.reviewed_by # Nobody

\* A later row of the same alert.
Forward(old, new) ==
    /\ old.status # "none" => new.status # "none"
    /\ old.status \in Decisions => new.status \in Decisions

Handler(s) ==
    LET k == session[s] IN
    /\ k.pc = "update" => /\ WellFormed(k.loaded)
                          /\ k.loaded.status # "none"
                          /\ Forward(k.loaded, alerts[k.alert])
    /\ k.pc \in {"audit", "custody"} => alerts[k.event[2]].status \in Decisions
    /\ k.pc = "custody" => k.event \in audit_log

\* The inductive invariant.
IInv ==
    /\ TypeOK
    /\ DecidedHasReviewer
    /\ LogsFollowTheTable
    /\ \A s \in Sessions : Handler(s)

-----------------------------------------------------------------------------
\* The fields of a handler's state, by what the handler is about to do.
LEMMA SessionFields ==
    ASSUME NEW k \in SessionStates
    PROVE  /\ k.pc \in {"idle", "update", "audit", "custody"}
           /\ k.pc = "idle" => k = Idle
           /\ k.pc = "update" => /\ k.alert \in Alerts /\ k.loaded \in Rows
                                 /\ k.decision \in Decisions /\ k.by \in Reviewers
           /\ k.pc \in {"audit", "custody"} => k.event \in Events
BY DEF SessionStates, Idle

\* The row that a commit leaves is decided and has a reviewer, whoever wrote
\* which of its columns.
LEMMA DisposedRow ==
    ASSUME TypeOK, DecidedHasReviewer, NEW k \in SessionStates, k.pc = "update",
           WellFormed(k.loaded), Forward(k.loaded, alerts[k.alert])
    PROVE  /\ Disposed(k) \in Rows
           /\ Disposed(k).status \in Decisions
           /\ Disposed(k).reviewed_by # Nobody
           /\ \/ Disposed(k).status = k.decision
              \/ /\ Disposed(k).status = alerts[k.alert].status
                 /\ alerts[k.alert].status \in Decisions
           /\ \/ Disposed(k).reviewed_by = k.by
              \/ /\ Disposed(k).reviewed_by = alerts[k.alert].reviewed_by
                 /\ alerts[k.alert].status \in Decisions
<1> DEFINE now == alerts[k.alert]
<1>1. /\ k.alert \in Alerts /\ k.loaded \in Rows /\ k.decision \in Decisions
      /\ k.by \in Reviewers /\ now \in Rows
  BY SessionFields DEF TypeOK
<1>2. /\ Disposed(k).status = Written(now.status, k.loaded.status, k.decision)
      /\ Disposed(k).reviewed_by
           = Written(now.reviewed_by, k.loaded.reviewed_by, k.by)
      /\ Disposed(k) = [status |-> Disposed(k).status,
                        reviewed_by |-> Disposed(k).reviewed_by]
  BY DEF Disposed, Row
<1>3. k.loaded.status = k.decision => now.status \in Decisions
  BY <1>1 DEF Forward
<1>4. k.loaded.reviewed_by = k.by
        => now.reviewed_by # Nobody /\ now.status \in Decisions
  BY <1>1, AlertConstants DEF WellFormed, Forward, DecidedHasReviewer
<1> QED
  BY <1>1, <1>2, <1>3, <1>4, AlertConstants DEF Written, Rows

\* Rows only move forward.
LEMMA ForwardStep ==
    IInv /\ [Next]_vars => \A a \in Alerts : Forward(alerts[a], alerts'[a])
<1> SUFFICES ASSUME IInv, [Next]_vars, NEW a \in Alerts
             PROVE  Forward(alerts[a], alerts'[a])
  OBVIOUS
<1>1. ASSUME alerts' = alerts PROVE Forward(alerts[a], alerts'[a])
  BY <1>1 DEF Forward
<1>2. ASSUME NEW b \in Alerts, CreateAlert(b) PROVE Forward(alerts[a], alerts'[a])
  BY <1>2 DEF CreateAlert, Forward, IInv, TypeOK, Row, Decisions
<1>3. ASSUME NEW s \in Sessions, CommitDisposition(s)
      PROVE  Forward(alerts[a], alerts'[a])
  <2>1. Disposed(session[s]).status \in Decisions
    BY <1>3, DisposedRow DEF IInv, Handler, CommitDisposition, TypeOK
  <2>2. alerts'[a] \in {alerts[a], Disposed(session[s])}
    BY <1>3, SessionFields DEF CommitDisposition, IInv, TypeOK
  <2> QED
    BY <2>1, <2>2 DEF Forward, Decisions
<1> QED
  BY <1>1, <1>2, <1>3 DEF Next, vars, Review, Audit, Custody, Fail

\* The rows stay rows, decided exactly if reviewed, and the logs truthful.
LEMMA TableStep ==
    IInv /\ [Next]_vars => TypeOK' /\ DecidedHasReviewer' /\ LogsFollowTheTable'
<1> SUFFICES ASSUME IInv, [Next]_vars
             PROVE  TypeOK' /\ DecidedHasReviewer' /\ LogsFollowTheTable'
  OBVIOUS
<1> USE DEF IInv
<1>0. ASSUME TypeOK', audit_log' = audit_log, custody_log' = custody_log
      PROVE  LogsFollowTheTable'
  <2>1. \A e \in audit_log : e[2] \in Alerts
    BY DEF TypeOK, Events
  <2> QED
    BY <1>0, <2>1, ForwardStep DEF LogsFollowTheTable, Forward
<1>1. ASSUME NEW a \in Alerts, CreateAlert(a)
      PROVE  TypeOK' /\ DecidedHasReviewer' /\ LogsFollowTheTable'
  <2>1. TypeOK' /\ audit_log' = audit_log /\ custody_log' = custody_log
    BY <1>1 DEF CreateAlert, TypeOK, Row, Rows
  <2>2. DecidedHasReviewer'
    BY <1>1 DEF CreateAlert, TypeOK, DecidedHasReviewer, Row, Decisions
  <2> QED
    BY <1>0, <2>1, <2>2
<1>2. ASSUME NEW s \in Sessions, NEW a \in Alerts, NEW d \in Decisions,
             NEW u \in Reviewers, Review(s, a, d, u)
      PROVE  TypeOK' /\ DecidedHasReviewer' /\ LogsFollowTheTable'
  BY <1>2
  DEF Review, TypeOK, DecidedHasReviewer, LogsFollowTheTable, SessionStates
<1>3. ASSUME NEW s \in Sessions, CommitDisposition(s)
      PROVE  TypeOK' /\ DecidedHasReviewer' /\ LogsFollowTheTable'
  <2> DEFINE k == session[s]
  <2>1. k \in SessionStates /\ k.pc = "update" /\ k.alert \in Alerts
    BY <1>3, SessionFields DEF CommitDisposition, TypeOK
  <2>2. /\ Disposed(k) \in Rows
        /\ Disposed(k).status \in Decisions
        /\ Disposed(k).reviewed_by # Nobody
    BY <2>1, DisposedRow DEF Handler
  <2>3. ToRecord(k) \in SessionStates
    BY <2>1, SessionFields DEF ToRecord, SessionStates, Events
  <2>4. TypeOK' /\ audit_log' = audit_log /\ custody_log' = custody_log
    BY <1>3, <2>1, <2>2, <2>3 DEF CommitDisposition, TypeOK
  <2>5. DecidedHasReviewer'
    BY <1>3, <2>1, <2>2 DEF CommitDisposition, TypeOK, DecidedHasReviewer
  <2> QED
    BY <1>0, <2>4, <2>5
<1>4. ASSUME NEW s \in Sessions, Audit(s)
      PROVE  TypeOK' /\ DecidedHasReviewer' /\ LogsFollowTheTable'
  <2>1. session[s].event \in Events
    BY <1>4, SessionFields DEF Audit, TypeOK
  <2>2. TypeOK'
    BY <1>4, <2>1 DEF Audit, TypeOK, SessionStates
  <2>3. alerts[session[s].event[2]].status \in Decisions
    BY <1>4 DEF Audit, Handler
  <2> QED
    BY <1>4, <2>2, <2>3 DEF Audit, DecidedHasReviewer, LogsFollowTheTable
<1>5. ASSUME NEW s \in Sessions, Custody(s)
      PROVE  TypeOK' /\ DecidedHasReviewer' /\ LogsFollowTheTable'
  <2>1. session[s].event \in Events /\ session[s].event \in audit_log
    BY <1>5, SessionFields DEF Custody, TypeOK, Handler
  <2> QED
    BY <1>5, <2>1
    DEF Custody, TypeOK, SessionStates, DecidedHasReviewer, LogsFollowTheTable
<1>6. ASSUME NEW s \in Sessions, Fail(s)
      PROVE  TypeOK' /\ DecidedHasReviewer' /\ LogsFollowTheTable'
  BY <1>6, SessionFields
  DEF Fail, TypeOK, SessionStates, DecidedHasReviewer, LogsFollowTheTable
<1>7. CASE UNCHANGED vars
  BY <1>7 DEF vars, TypeOK, DecidedHasReviewer, LogsFollowTheTable
<1> QED
  BY <1>1, <1>2, <1>3, <1>4, <1>5, <1>6, <1>7 DEF Next

\* What a handler relies on stays true.
LEMMA HandlerStep ==
    IInv /\ [Next]_vars => \A s \in Sessions : Handler(s)'
<1> SUFFICES ASSUME IInv, [Next]_vars, NEW s \in Sessions PROVE Handler(s)'
  OBVIOUS
<1>0. /\ \A a \in Alerts : Forward(alerts[a], alerts'[a])
      /\ session[s] \in SessionStates
      /\ TypeOK
      /\ Handler(s)
  BY ForwardStep DEF IInv, TypeOK
<1>1. ASSUME session'[s] = session[s], audit_log \subseteq audit_log'
      PROVE  Handler(s)'
  <2>1. CASE session[s].pc = "update"
    BY <1>0, <1>1, <2>1, SessionFields DEF Handler, Forward
  <2>2. CASE session[s].pc \in {"audit", "custody"}
    <3>1. session[s].event[2] \in Alerts
      BY <1>0, <2>2, SessionFields DEF Events
    <3> QED
      BY <1>0, <1>1, <2>2, <3>1 DEF Handler, Forward
  <2> QED
    BY <1>1, <2>1, <2>2 DEF Handler
<1>2. ASSUME session'[s] = Idle PROVE Handler(s)'
  BY <1>2 DEF Handler, Idle
<1>3. ASSUME NEW a \in Alerts, NEW d \in Decisions, NEW u \in Reviewers,
             Review(s, a, d, u)
      PROVE  Handler(s)'
  <2>1. /\ session'[s] = [pc |-> "update", alert |-> a, loaded |-> alerts[a],
                          decision |-> d, by |-> u]
        /\ alerts' = alerts
        /\ alerts[a].status # "none"
    BY <1>0, <1>3 DEF Review, TypeOK
  <2>2. WellFormed(alerts[a])
    BY DEF IInv, DecidedHasReviewer, WellFormed
  <2> QED
    BY <2>1, <2>2 DEF Handler, Forward, WellFormed
<1>4. ASSUME CommitDisposition(s) PROVE Handler(s)'
  <2> DEFINE k == session[s]
  <2>1. k.alert \in Alerts /\ Disposed(k).status \in Decisions
    BY <1>0, <1>4, SessionFields, DisposedRow DEF CommitDisposition, Handler, IInv
  <2>2. /\ session'[s] = [pc |-> "audit", event |-> <<k.decision, k.alert, k.by>>]
        /\ alerts'[k.alert] = Disposed(k)
    BY <1>0, <1>4, <2>1 DEF CommitDisposition, ToRecord, TypeOK
  <2> QED
    BY <2>1, <2>2 DEF Handler
<1>5. ASSUME Audit(s) PROVE Handler(s)'
  <2>1. /\ session'[s] = [pc |-> "custody", event |-> session[s].event]
        /\ session[s].event \in audit_log'
        /\ alerts' = alerts
        /\ session[s].pc = "audit"
    BY <1>0, <1>5 DEF Audit, TypeOK
  <2> QED
    BY <1>0, <2>1 DEF Handler
<1>6. Custody(s) \/ Fail(s) => session'[s] = Idle
  BY <1>0 DEF Custody, Fail, TypeOK
<1>7. ASSUME NEW r \in Sessions, r # s,
             \/ \E a \in Alerts, d \in Decisions, u \in Reviewers :
                  Review(r, a, d, u)
             \/ CommitDisposition(r) \/ Audit(r) \/ Custody(r) \/ Fail(r)
      PROVE  session'[s] = session[s] /\ audit_log \subseteq audit_log'
  BY <1>0, <1>7 DEF Review, CommitDisposition, Audit, Custody, Fail, TypeOK
<1> QED
  BY <1>1, <1>2, <1>3, <1>4, <1>5, <1>6, <1>7 DEF Next, vars, CreateAlert

\* The inductive invariant holds.
LEMMA Invariance == Spec => []IInv
<1>1. Init => IInv
  BY AlertConstants
  DEF Init, IInv, TypeOK, DecidedHasReviewer, LogsFollowTheTable, Handler,
      Idle, Row, Rows, SessionStates, Decisions
<1>2. IInv /\ [Next]_vars => IInv'
  BY TableStep, HandlerStep DEF IInv
<1> QED
  BY <1>1, <1>2, PTL DEF Spec

\* No alert is confirmed or dismissed without a reviewer, although handlers
\* overwrite each other column by column.
THEOREM ConfirmedByHumans == Spec => [](TypeOK /\ DecidedHasReviewer)
<1>1. IInv => TypeOK /\ DecidedHasReviewer
  BY DEF IInv
<1> QED
  BY <1>1, Invariance, PTL

\* The chain of custody never reports a disposition that the audit log lacks,
\* and neither reports one of a pending alert.
THEOREM LogsAreTruthful == Spec => []LogsFollowTheTable
<1>1. IInv => LogsFollowTheTable
  BY DEF IInv
<1> QED
  BY <1>1, Invariance, PTL

\* A disposed alert is never pending again.
THEOREM DispositionStays == Spec => NeverReopened
<1>1. IInv /\ [Next]_vars =>
        [\A a \in Alerts :
           alerts[a].status \in Decisions => alerts'[a].status \in Decisions]_vars
  BY ForwardStep DEF Forward
<1> QED
  BY <1>1, Invariance, PTL DEF Spec, NeverReopened

\* What has been committed stays committed: an event goes from the handler to
\* the audit log, or is lost with the handler.
LEMMA CommittedStays == IInv /\ [Next]_vars => Committed \subseteq Committed'
<1> SUFFICES ASSUME IInv, [Next]_vars PROVE Committed \subseteq Committed'
  OBVIOUS
<1>1. ASSUME NEW s \in Sessions, session[s].pc = "audit",
             session[s].event \notin audit_log' \cup lost'
      PROVE  session'[s] = session[s]
  BY <1>1 DEF IInv, TypeOK, Next, vars, CreateAlert, Review,
              CommitDisposition, Audit, Custody, Fail, Idle
<1>2. audit_log \subseteq audit_log' /\ lost \subseteq lost'
  BY DEF Next, vars, CreateAlert, Review, CommitDisposition, Audit, Custody, Fail
<1> QED
  BY <1>1, <1>2 DEF Committed, Unrecorded

\* The status of every disposed alert, and its reviewer, are each from a
\* committed disposition, audited unless its handler failed before that.
THEOREM RowsAreAccountedFor == Spec => []RowIsAccountedFor
<1>1. Init => RowIsAccountedFor
  BY DEF Init, RowIsAccountedFor, Row, Decisions
<1>2. IInv /\ RowIsAccountedFor /\ [Next]_vars => RowIsAccountedFor'
  <2> SUFFICES ASSUME IInv, RowIsAccountedFor, [Next]_vars,
                      NEW a \in Alerts, alerts'[a].status \in Decisions
               PROVE  /\ \E u \in Reviewers :
                           <<alerts'[a].status, a, u>> \in Committed'
                      /\ \E d \in Decisions :
                           <<d, a, alerts'[a].reviewed_by>> \in Committed'
    BY DEF RowIsAccountedFor
  <2>1. Committed \subseteq Committed'
    BY CommittedStays
  <2>2. CASE alerts[a] = alerts'[a]
    BY <2>1, <2>2 DEF RowIsAccountedFor
  <2>3. CASE alerts[a] # alerts'[a]
    <3>1. ASSUME NEW b \in Alerts, CreateAlert(b) PROVE FALSE
      BY <2>3, <3>1 DEF CreateAlert, IInv, TypeOK, Row, Decisions
    <3>2. PICK s \in Sessions : CommitDisposition(s)
      BY <2>3, <3>1 DEF Next, vars, Review, Audit, Custody, Fail
    <3> DEFINE k == session[s]
    <3>3. /\ k \in SessionStates /\ k.pc = "update" /\ k.alert \in Alerts
          /\ k.by \in Reviewers /\ k.decision \in Decisions
      BY <3>2, SessionFields DEF CommitDisposition, IInv, TypeOK
    <3>4. k.alert = a /\ alerts'[a] = Disposed(k)
      BY <2>3, <3>2, <3>3 DEF CommitDisposition, IInv, TypeOK
    <3>5. /\ \/ alerts'[a].status = k.decision
             \/ /\ alerts'[a].status = alerts[a].status
                /\ alerts[a].status \in Decisions
          /\ \/ alerts'[a].reviewed_by = k.by
             \/ /\ alerts'[a].reviewed_by = alerts[a].reviewed_by
                /\ alerts[a].status \in Decisions
      BY <3>3, <3>4, DisposedRow DEF IInv, Handler
    <3>6. session'[s] = [pc |-> "audit", event |-> <<k.decision, a, k.by>>]
      BY <3>2, <3>4 DEF CommitDisposition, ToRecord, IInv, TypeOK
    <3>7. <<k.decision, a, k.by>> \in Committed'
      BY <3>6 DEF Committed, Unrecorded
    <3> HIDE DEF k
    <3>8. \E u \in Reviewers : <<alerts'[a].status, a, u>> \in Committed'
      BY <2>1, <3>3, <3>5, <3>7 DEF RowIsAccountedFor
    <3>9. \E d \in Decisions : <<d, a, alerts'[a].reviewed_by>> \in Committed'
      BY <2>1, <3>3, <3>5, <3>7 DEF RowIsAccountedFor
    <3> QED
      BY <3>8, <3>9
  <2> QED
    BY <2>2, <2>3
<1> QED
  BY <1>1, <1>2, Invariance, PTL DEF Spec

=============================================================================
