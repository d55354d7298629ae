------------------------- MODULE RevealRequestProofs -------------------------
(***************************************************************************)
(* Proofs about RevealRequest for any users, roles, requests and number of *)
(* concurrent handlers, and of its refinement of DualAuthorization when    *)
(* the handlers run one at a time.                                         *)
(*                                                                         *)
(* What a handler has loaded may be stale when it commits, so the argument *)
(* rests on two facts that hold together: Kept, what no step does to a row *)
(* under a handler, and HandlerOK, what therefore still holds of the row   *)
(* that a handler decided on.                                              *)
(***************************************************************************)
EXTENDS RevealSerial, SequenceTheorems, FiniteSetTheorems, TLAPS

Decided == {"APPROVED", "REJECTED"}

\* What a step keeps of a row: that it exists and who requested it, that it is
\* decided, and that a role has approved it (not who did).
Kept(old, new) ==
    /\ old.status # "none" =>
         new.status # "none" /\ new.requested_by = old.requested_by
    /\ old.status \in Decided => new.status \in Decided
    /\ old.admin_approved_by # Nobody => new.admin_approved_by # Nobody
    /\ old.investigator_approved_by # Nobody
         => new.investigator_approved_by # Nobody

\* A handler about to commit an approval: its row holds its own approval, and
\* any other approval in it is still in the table, if not by the same person.
ApprovalOK(k) ==
    LET row == reveal_requests[k.req] IN
    /\ k.by[2] \in {"ADMINISTRATOR", "INVESTIGATOR"}
    /\ k.by[1] # row.requested_by
    /\ row.status # "none"
    /\ k.row.requested_by = row.requested_by
    /\ k.row.admin_approved_by # k.row.requested_by
    /\ k.row.investigator_approved_by # k.row.requested_by
    /\ k.row.admin_approved_by # Nobody =>
         k.by[2] = "ADMINISTRATOR" \/ row.admin_approved_by # Nobody
    /\ k.row.investigator_approved_by # Nobody =>
         k.by[2] = "INVESTIGATOR" \/ row.investigator_approved_by # Nobody

Handler(s) ==
    /\ session[s].pc = "approve" => ApprovalOK(session[s])
    /\ session[s].pc = "reject" =>
         reveal_requests[session[s].req].status # "none"
    /\ session[s].pc = "audit" => Happened(session[s].event)

HandlerOK == \A s \in Sessions : Handler(s)

-----------------------------------------------------------------------------
\* The fields of a handler's state, by what the handler is about to do.
LEMMA SessionFields ==
    ASSUME NEW k \in SessionStates
    PROVE  /\ k.pc \in {"idle", "approve", "reject", "audit"}
           /\ k.pc = "idle" => k = Idle
           /\ k.pc = "approve" => /\ k.req \in ReqIds /\ k.by \in Claims
                                  /\ k.row \in Rows
           /\ k.pc = "reject" => k.req \in ReqIds /\ k.by \in Claims
           /\ k.pc = "audit" => k.event \in Events
BY DEF SessionStates, Idle

\* The row in memory after an approval is a row.
LEMMA ApprovedIsRow ==
    ASSUME NEW row \in Rows, NEW t \in Claims
    PROVE  Approved(row, t) \in Rows
BY DEF Approved, Row, Rows, Claims

\* Claims are users with roles.
LEMMA CallersAreClaims == TypeOK => Callers \subseteq Claims
BY RevealConstants DEF TypeOK, Callers, Claims

\* A step keeps the types.
LEMMA TypeStep == TypeOK /\ [Next]_vars => TypeOK'
<1> SUFFICES ASSUME TypeOK, [Next]_vars PROVE TypeOK'
  OBVIOUS
<1> USE DEF TypeOK
<1>0. Callers \subseteq Claims
  BY CallersAreClaims
<1>1. ASSUME NEW u \in Users, IssueToken(u) PROVE TypeOK'
  BY <1>1 DEF IssueToken, Claims
<1>2. ASSUME NEW u \in Users, NEW role \in Roles, UpdateUserRole(u, role)
      PROVE  TypeOK'
  BY <1>2 DEF UpdateUserRole
<1>3. ASSUME NEW s \in Sessions, NEW q \in ReqIds, NEW t \in Callers,
             CreateRevealRequest(s, q, t)
      PROVE  TypeOK'
  <2>1. t[1] \in Users /\ t[2] \in Roles
    BY <1>0 DEF Claims
  <2>2. Row(t[1], Nobody, Nobody, "PENDING") \in Rows
    BY <2>1 DEF Row, Rows, Statuses
  <2>3. [pc |-> "audit", event |-> <<"SUBMIT", q, t[1], t[2]>>]
           \in SessionStates
    BY <2>1 DEF SessionStates, Events
  <2> QED
    BY <1>3, <2>2, <2>3 DEF CreateRevealRequest
<1>4. ASSUME NEW s \in Sessions, NEW q \in ReqIds, NEW t \in Callers,
             ApproveRevealRequest(s, q, t)
      PROVE  TypeOK'
  <2>1. Approved(reveal_requests[q], t) \in Rows
    BY <1>0, ApprovedIsRow
  <2>2. [pc |-> "approve", req |-> q, by |-> t,
         row |-> Approved(reveal_requests[q], t)] \in SessionStates
    BY <1>0, <2>1 DEF SessionStates
  <2> QED
    BY <1>4, <2>2 DEF ApproveRevealRequest, MayApprove
<1>5. ASSUME NEW s \in Sessions, NEW q \in ReqIds, NEW t \in Callers,
             RejectRevealRequest(s, q, t)
      PROVE  TypeOK'
  BY <1>0, <1>5 DEF RejectRevealRequest, SessionStates
<1>6. ASSUME NEW s \in Sessions, CommitApproval(s) PROVE TypeOK'
  <2> DEFINE k == session[s]
             own == Approved(reveal_requests[k.req], k.by)
             rec == [req |-> k.req,
                     admin_approver |-> k.row.admin_approved_by,
                     investigator_approver |-> k.row.investigator_approved_by]
  <2>1. k.req \in ReqIds /\ k.by \in Claims /\ k.row \in Rows
    BY <1>6, SessionFields DEF CommitApproval, Resolved, Recording
  <2>2. own \in Rows
    BY <2>1, ApprovedIsRow
  <2>3. WithStatus(own, "APPROVED") \in Rows
    BY <2>2 DEF WithStatus, Row, Rows, Statuses
  <2>4. reveal_requests' \in [ReqIds -> Rows]
    BY <1>6, <2>1, <2>2, <2>3 DEF CommitApproval, Resolved, Recording
  <2>5. BothApproved(k.row) => rec \in Disclosures
    BY <2>1 DEF BothApproved, Rows, Disclosures
  <2>6. custody_log' \in Seq(Disclosures)
    <3>1. CASE BothApproved(k.row)
      <4>1. custody_log' = Append(custody_log, rec)
        BY <1>6, <3>1 DEF CommitApproval, Resolved, Recording
      <4> QED
        BY <2>5, <3>1, <4>1, AppendProperties
    <3>2. CASE ~BothApproved(k.row)
      BY <1>6, <3>2 DEF CommitApproval, Resolved, Recording
    <3> QED
      BY <3>1, <3>2
  <2>7. session' \in [Sessions -> SessionStates]
    BY <1>6, <2>1 DEF CommitApproval, Resolved, Recording, SessionStates, Events, Claims
  <2> QED
    BY <1>6, <2>4, <2>6, <2>7 DEF CommitApproval, Resolved, Recording
<1>7. ASSUME NEW s \in Sessions, CommitRejection(s) PROVE TypeOK'
  <2>1. session[s].req \in ReqIds /\ session[s].by \in Claims
    BY <1>7, SessionFields DEF CommitRejection, Rejected
  <2>2. WithStatus(reveal_requests[session[s].req], "REJECTED") \in Rows
    BY <2>1 DEF WithStatus, Row, Rows, Statuses
  <2>2a. reveal_requests' \in [ReqIds -> Rows]
    BY <1>7, <2>1, <2>2 DEF CommitRejection, Rejected
  <2>3. session' \in [Sessions -> SessionStates]
    BY <1>7, <2>1 DEF CommitRejection, Rejected, SessionStates, Events, Claims
  <2> QED
    BY <1>7, <2>2a, <2>3 DEF CommitRejection, Rejected
<1>8. ASSUME NEW s \in Sessions, Audit(s) PROVE TypeOK'
  <2>1. session[s].event \in Events
    BY <1>8, SessionFields DEF Audit
  <2> QED
    BY <1>8, <2>1 DEF Audit, SessionStates
<1>9. ASSUME NEW s \in Sessions, Fail(s) PROVE TypeOK'
  BY <1>9 DEF Fail, SessionStates
<1>10. ASSUME NEW q \in ReqIds, NEW t \in Callers, GetRevealRequestStatus(q, t)
       PROVE  TypeOK'
  BY <1>10 DEF GetRevealRequestStatus
<1>11. CASE UNCHANGED vars
  BY <1>11 DEF vars
<1> QED
  BY <1>1, <1>2, <1>3, <1>4, <1>5, <1>6, <1>7, <1>8, <1>9, <1>10, <1>11
  DEF Next

\* Type correctness: whatever interleaves, rows stay rows, a custody record
\* names two approvers (never a NULL), and handlers hold what they loaded.
THEOREM TypeCorrect == Spec => []TypeOK
<1>1. Init => TypeOK
  BY RevealConstants DEF Init, TypeOK, NoRow, Row, Rows, Statuses, SessionStates
<1> QED
  BY <1>1, TypeStep, PTL DEF Spec

-----------------------------------------------------------------------------
\* An approval and a decision keep what is to be kept of a row.
LEMMA ApprovalKeeps ==
    ASSUME NEW row \in Rows, NEW t \in Claims
    PROVE  /\ Kept(row, Approved(row, t))
           /\ Kept(row, WithStatus(Approved(row, t), "APPROVED"))
           /\ Kept(row, WithStatus(row, "REJECTED"))
BY RevealConstants
DEF Kept, Approved, WithStatus, Row, Rows, Claims, Decided, Statuses

\* No step of any handler undoes the existence, the decision or an approval
\* of a request under the others.
LEMMA KeptStep ==
    TypeOK /\ [Next]_vars =>
        \A q \in ReqIds : Kept(reveal_requests[q], reveal_requests'[q])
<1> SUFFICES ASSUME TypeOK, [Next]_vars, NEW q \in ReqIds
             PROVE  Kept(reveal_requests[q], reveal_requests'[q])
  OBVIOUS
<1>1. ASSUME reveal_requests' = reveal_requests
      PROVE  Kept(reveal_requests[q], reveal_requests'[q])
  BY <1>1 DEF Kept
<1>2. ASSUME NEW s \in Sessions, NEW p \in ReqIds, NEW t \in Callers,
             CreateRevealRequest(s, p, t)
      PROVE  Kept(reveal_requests[q], reveal_requests'[q])
  BY <1>1, <1>2
  DEF CreateRevealRequest, TypeOK, Kept, NoRow, Row, Decided
<1>3. ASSUME NEW s \in Sessions, CommitApproval(s)
      PROVE  Kept(reveal_requests[q], reveal_requests'[q])
  <2>1. /\ session[s].req \in ReqIds
        /\ session[s].by \in Claims
    BY <1>3, SessionFields DEF CommitApproval, Resolved, Recording, TypeOK
  <2>2. CASE q = session[s].req
    <3>1. \/ reveal_requests'[q] =
                WithStatus(Approved(reveal_requests[q], session[s].by),
                           "APPROVED")
          \/ reveal_requests'[q] = Approved(reveal_requests[q], session[s].by)
      BY <1>3, <2>2 DEF CommitApproval, Resolved, Recording, TypeOK
    <3> QED
      BY <2>1, <3>1, ApprovalKeeps DEF TypeOK
  <2>3. CASE q # session[s].req
    <3>1. reveal_requests'[q] = reveal_requests[q]
      BY <1>3, <2>1, <2>3 DEF CommitApproval, Resolved, Recording, TypeOK
    <3> QED
      BY <3>1 DEF Kept
  <2> QED
    BY <2>2, <2>3
<1>4. ASSUME NEW s \in Sessions, CommitRejection(s)
      PROVE  Kept(reveal_requests[q], reveal_requests'[q])
  <2>1. /\ session[s].req \in ReqIds
        /\ session[s].by \in Claims
    BY <1>4, SessionFields DEF CommitRejection, Rejected, TypeOK
  <2>2. reveal_requests'[q] \in
            {reveal_requests[q], WithStatus(reveal_requests[q], "REJECTED")}
    BY <1>4, <2>1 DEF CommitRejection, Rejected, TypeOK
  <2> QED
    BY <2>1, <2>2, ApprovalKeeps DEF TypeOK, Kept
<1> QED
  BY <1>1, <1>2, <1>3, <1>4
  DEF Next, vars, IssueToken, UpdateUserRole, ApproveRevealRequest,
      RejectRevealRequest, Audit, Fail, GetRevealRequestStatus

\* What an event reports stays true.
LEMMA HappenedStays ==
    ASSUME TypeOK, TypeOK', NEW e \in Events, Happened(e),
           \A q \in ReqIds : Kept(reveal_requests[q], reveal_requests'[q])
    PROVE  Happened(e)'
<1>1. e[2] \in ReqIds
  BY DEF Events
<1>2. Kept(reveal_requests[e[2]], reveal_requests'[e[2]])
  BY <1>1
<1> QED
  BY <1>2 DEF Happened, Kept, Recorded, Decided

\* What a waiting handler relies on stays true while others move.
LEMMA HandlerStays ==
    ASSUME TypeOK, TypeOK', NEW s \in Sessions, Handler(s),
           session'[s] = session[s],
           \A q \in ReqIds : Kept(reveal_requests[q], reveal_requests'[q])
    PROVE  Handler(s)'
<1>1. session[s] \in SessionStates
  BY DEF TypeOK
<1>2. session[s].pc = "approve" => ApprovalOK(session[s])'
  <2> SUFFICES ASSUME session[s].pc = "approve" PROVE ApprovalOK(session[s])'
    OBVIOUS
  <2>1. session[s].req \in ReqIds
    BY <1>1, SessionFields
  <2>2. Kept(reveal_requests[session[s].req], reveal_requests'[session[s].req])
    BY <2>1
  <2> QED
    BY <2>2 DEF ApprovalOK, Kept, Handler
<1>3. session[s].pc = "reject" =>
        reveal_requests'[session[s].req].status # "none"
  BY <1>1, SessionFields DEF Handler, Kept
<1>4. session[s].pc = "audit" => Happened(session[s].event)'
  BY <1>1, SessionFields, HappenedStays DEF Handler
<1> QED
  BY <1>2, <1>3, <1>4 DEF Handler

\* An approval fills the column of its role and leaves the rest of the row.
LEMMA ApprovalFields ==
    ASSUME NEW row \in Rows, NEW t \in Claims
    PROVE  /\ Recorded(Approved(row, t), t) = t[1]
           /\ Recorded(WithStatus(Approved(row, t), "APPROVED"), t) = t[1]
           /\ Approved(row, t).requested_by = row.requested_by
           /\ Approved(row, t).status = row.status
           /\ t[2] = "ADMINISTRATOR" =>
                Approved(row, t).investigator_approved_by
                    = row.investigator_approved_by
           /\ t[2] # "ADMINISTRATOR" =>
                Approved(row, t).admin_approved_by = row.admin_approved_by
BY DEF Recorded, Approved, WithStatus, Row, Rows, Claims

\* A step keeps what the handlers rely on, provided that no request that
\* exists was requested or approved by its own requester.
LEMMA HandlerStep ==
    TypeOK /\ HandlerOK /\ NoSelfApproval /\ [Next]_vars => HandlerOK'
<1> SUFFICES ASSUME TypeOK, HandlerOK, NoSelfApproval, [Next]_vars,
                    NEW s \in Sessions
             PROVE  Handler(s)'
  BY DEF HandlerOK
<1>a. TypeOK'
  BY TypeStep
<1>b. \A q \in ReqIds : Kept(reveal_requests[q], reveal_requests'[q])
  BY KeptStep
<1>c. Callers \subseteq Claims
  BY CallersAreClaims
<1>1. CASE session'[s] = session[s]
  BY <1>a, <1>b, <1>1, HandlerStays DEF HandlerOK
<1>2. ASSUME session'[s] = Idle PROVE Handler(s)'
  BY <1>2 DEF Handler, Idle
<1>3. ASSUME NEW q \in ReqIds, NEW t \in Callers, CreateRevealRequest(s, q, t)
      PROVE  Handler(s)'
  <2>1. session'[s] = [pc |-> "audit", event |-> <<"SUBMIT", q, t[1], t[2]>>]
    BY <1>3 DEF CreateRevealRequest, TypeOK
  <2>2. reveal_requests'[q] = Row(t[1], Nobody, Nobody, "PENDING")
    BY <1>3 DEF CreateRevealRequest, TypeOK
  <2> QED
    BY <2>1, <2>2 DEF Handler, Happened, Row
<1>4. ASSUME NEW q \in ReqIds, NEW t \in Callers, ApproveRevealRequest(s, q, t)
      PROVE  Handler(s)'
  <2> DEFINE row == reveal_requests[q]
             k == [pc |-> "approve", req |-> q, by |-> t,
                   row |-> Approved(row, t)]
  <2>1. session'[s] = k /\ reveal_requests' = reveal_requests
    BY <1>4 DEF ApproveRevealRequest, MayApprove, TypeOK
  <2>2. /\ row \in Rows
        /\ t \in Claims
        /\ row.status = "PENDING"
        /\ t[1] # row.requested_by
        /\ t[2] \in {"ADMINISTRATOR", "INVESTIGATOR"}
    BY <1>4, <1>c DEF ApproveRevealRequest, MayApprove, Authorised, TypeOK
  <2>3. /\ row.requested_by # row.admin_approved_by
        /\ row.requested_by # row.investigator_approved_by
    BY <2>2 DEF NoSelfApproval
  <2>4. ApprovalOK(k)
    BY <2>2, <2>3 DEF ApprovalOK, Approved, Row
  <2>5. ApprovalOK(session[s])'
    BY <2>1, <2>4 DEF ApprovalOK
  <2> QED
    BY <2>1, <2>5 DEF Handler
<1>5. ASSUME NEW q \in ReqIds, NEW t \in Callers, RejectRevealRequest(s, q, t)
      PROVE  Handler(s)'
  <2>1. /\ session'[s] = [pc |-> "reject", req |-> q, by |-> t]
        /\ reveal_requests' = reveal_requests
    BY <1>5 DEF RejectRevealRequest, TypeOK
  <2>2. reveal_requests[q].status # "none"
    BY <1>5 DEF RejectRevealRequest
  <2> QED
    BY <2>1, <2>2 DEF Handler
<1>6. ASSUME CommitApproval(s) PROVE Handler(s)'
  <2> DEFINE k == session[s]
             own == Approved(reveal_requests[k.req], k.by)
             e == <<"APPROVE", k.req, k.by[1], k.by[2]>>
  <2>1. k.req \in ReqIds /\ k.by \in Claims
    BY <1>6, SessionFields DEF CommitApproval, Resolved, Recording, TypeOK
  <2>2. session'[s] = [pc |-> "audit", event |-> e]
    BY <1>6 DEF CommitApproval, Resolved, Recording, TypeOK
  <2>3. reveal_requests'[k.req] \in {own, WithStatus(own, "APPROVED")}
    BY <1>6, <2>1 DEF CommitApproval, Resolved, Recording, TypeOK
  <2>4. Recorded(reveal_requests'[k.req], k.by) = k.by[1]
    BY <2>1, <2>3, ApprovalFields DEF TypeOK
  <2>5. k.by[1] \in Users /\ k.by = <<k.by[1], k.by[2]>>
    BY <2>1 DEF Claims
  <2>6. Recorded(reveal_requests'[e[2]], <<e[3], e[4]>>) # Nobody
    BY <2>4, <2>5, RevealConstants
  <2>7. session'[s].event = e /\ session'[s].pc = "audit"
    BY <2>2
  <2>8. Happened(session[s].event)'
    BY <2>6, <2>7 DEF Happened
  <2> QED
    BY <2>7, <2>8 DEF Handler
<1>7. ASSUME CommitRejection(s) PROVE Handler(s)'
  <2> DEFINE k == session[s]
             e == <<"REJECT", k.req, k.by[1], k.by[2]>>
  <2>1. k.req \in ReqIds
    BY <1>7, SessionFields DEF CommitRejection, Rejected, TypeOK
  <2>2. session'[s] = [pc |-> "audit", event |-> e]
    BY <1>7 DEF CommitRejection, Rejected, TypeOK
  <2>3. reveal_requests'[k.req].status = "REJECTED"
    BY <1>7, <2>1 DEF CommitRejection, Rejected, TypeOK, WithStatus, Row
  <2> QED
    BY <2>2, <2>3 DEF Handler, Happened
<1>8. ASSUME NEW r \in Sessions, r # s,
             \/ \E q \in ReqIds, t \in Callers :
                  \/ CreateRevealRequest(r, q, t)
                  \/ ApproveRevealRequest(r, q, t)
                  \/ RejectRevealRequest(r, q, t)
             \/ CommitApproval(r) \/ CommitRejection(r) \/ Audit(r) \/ Fail(r)
      PROVE  session'[s] = session[s]
  BY <1>8
  DEF CreateRevealRequest, ApproveRevealRequest, RejectRevealRequest,
      CommitApproval, CommitRejection, Audit, Fail, TypeOK
<1>9. Audit(s) \/ Fail(s) => session'[s] = Idle
  BY DEF Audit, Fail, TypeOK
<1> QED
  BY <1>1, <1>2, <1>3, <1>4, <1>5, <1>6, <1>7, <1>8, <1>9
  DEF Next, vars, IssueToken, UpdateUserRole, GetRevealRequestStatus

-----------------------------------------------------------------------------
\* The custody record of a reveal, from the row that the handler holds.
Disclosure(k) ==
    [req |-> k.req, admin_approver |-> k.row.admin_approved_by,
     investigator_approver |-> k.row.investigator_approved_by]

\* A record at the end of the custody log adds to the records of its request
\* and leaves those of the others.
LEMMA AppendedRecord ==
    ASSUME TypeOK, NEW rec \in Disclosures,
           custody_log' = Append(custody_log, rec), NEW q \in ReqIds
    PROVE  /\ RevealsOf(q) \subseteq RevealsOf(q)'
           /\ rec.req = q => RevealsOf(q)' # {}
           /\ \A i \in RevealsOf(q)' :
                \/ i \in RevealsOf(q) /\ custody_log'[i] = custody_log[i]
                \/ rec.req = q /\ custody_log'[i] = rec
<1> DEFINE n == Len(custody_log) + 1
<1>1. /\ DOMAIN custody_log = 1 .. Len(custody_log)
      /\ DOMAIN custody_log' = 1 .. n
      /\ Len(custody_log) \in Nat
      /\ \A i \in 1 .. Len(custody_log) : custody_log'[i] = custody_log[i]
      /\ custody_log'[n] = rec
  BY AppendProperties, LenProperties DEF TypeOK
<1>2. RevealsOf(q) \subseteq RevealsOf(q)'
  BY <1>1 DEF RevealsOf
<1>3. rec.req = q => n \in RevealsOf(q)'
  BY <1>1 DEF RevealsOf
<1>4. ASSUME NEW i \in RevealsOf(q)'
      PROVE  \/ i \in RevealsOf(q) /\ custody_log'[i] = custody_log[i]
             \/ rec.req = q /\ custody_log'[i] = rec
  BY <1>1 DEF RevealsOf
<1> QED
  BY <1>2, <1>3, <1>4

\* Who writes to a row, and what.
LEMMA RowWriters ==
    ASSUME TypeOK, [Next]_vars, NEW q \in ReqIds
    PROVE  \/ reveal_requests'[q] = reveal_requests[q]
           \/ \E s \in Sessions, t \in Callers :
                /\ CreateRevealRequest(s, q, t)
                /\ reveal_requests'[q] = Row(t[1], Nobody, Nobody, "PENDING")
           \/ \E s \in Sessions : /\ CommitApproval(s)
                                  /\ session[s].req = q
           \/ \E s \in Sessions :
                /\ CommitRejection(s)
                /\ session[s].req = q
                /\ reveal_requests'[q] =
                      WithStatus(reveal_requests[q], "REJECTED")
<1>1. ASSUME NEW s \in Sessions, NEW p \in ReqIds, NEW t \in Callers,
             CreateRevealRequest(s, p, t), reveal_requests'[q] # reveal_requests[q]
      PROVE  p = q /\ reveal_requests'[q] = Row(t[1], Nobody, Nobody, "PENDING")
  BY <1>1 DEF CreateRevealRequest, TypeOK
<1>2. ASSUME NEW s \in Sessions, CommitApproval(s),
             reveal_requests'[q] # reveal_requests[q]
      PROVE  session[s].req = q
  BY <1>2, SessionFields DEF CommitApproval, Resolved, Recording, TypeOK
<1>3. ASSUME NEW s \in Sessions, CommitRejection(s),
             reveal_requests'[q] # reveal_requests[q]
      PROVE  /\ session[s].req = q
             /\ reveal_requests'[q] = WithStatus(reveal_requests[q], "REJECTED")
  BY <1>3, SessionFields DEF CommitRejection, Rejected, TypeOK
<1> QED
  BY <1>1, <1>2, <1>3
  DEF Next, vars, IssueToken, UpdateUserRole, ApproveRevealRequest,
      RejectRevealRequest, Audit, Fail, GetRevealRequestStatus

\* What the commit of an approval does to its row and to the custody log.
LEMMA ApprovalWrites ==
    ASSUME TypeOK, NEW s \in Sessions, CommitApproval(s)
    PROVE  LET k == session[s]
               own == Approved(reveal_requests[k.req], k.by)
           IN  /\ k \in SessionStates
               /\ k.req \in ReqIds /\ k.by \in Claims /\ k.row \in Rows
               /\ \/ /\ BothApproved(k.row)
                     /\ Disclosure(k) \in Disclosures
                     /\ reveal_requests'[k.req] = WithStatus(own, "APPROVED")
                     /\ custody_log' = Append(custody_log, Disclosure(k))
                  \/ /\ ~BothApproved(k.row)
                     /\ reveal_requests'[k.req] = own
                     /\ custody_log' = custody_log
<1> DEFINE k == session[s]
<1>1. k \in SessionStates /\ k.req \in ReqIds /\ k.by \in Claims /\ k.row \in Rows
  BY SessionFields DEF CommitApproval, Resolved, Recording, TypeOK
<1>2. BothApproved(k.row) => Disclosure(k) \in Disclosures
  BY <1>1 DEF BothApproved, Rows, Disclosures, Disclosure
<1> QED
  BY <1>1, <1>2 DEF CommitApproval, Resolved, Recording, Disclosure, TypeOK

\* The custody log only grows, by commits of approvals.
LEMMA LogWriters ==
    ASSUME [Next]_vars, custody_log' # custody_log
    PROVE  \E s \in Sessions : CommitApproval(s)
BY DEF Next, vars, IssueToken, UpdateUserRole, CreateRevealRequest,
       ApproveRevealRequest, RejectRevealRequest, CommitRejection, Audit, Fail,
       GetRevealRequestStatus

-----------------------------------------------------------------------------
\* The inductive invariant: what handlers hold, and what the tables say.
TableOK ==
    /\ NoSelfApproval
    /\ ApprovedIsOnRecord
    /\ DisclosedIsOnRecord
    /\ RecordedIsDecided

IInv == TypeOK /\ HandlerOK /\ TableOK /\ AuditedHappened

\* A custody record is never taken away.
LEMMA RecordsStay ==
    ASSUME TypeOK, [Next]_vars, NEW q \in ReqIds
    PROVE  RevealsOf(q) \subseteq RevealsOf(q)'
<1>1. CASE custody_log' = custody_log
  BY <1>1 DEF RevealsOf
<1>2. CASE custody_log' # custody_log
  <2>1. PICK s \in Sessions : CommitApproval(s)
    BY <1>2, LogWriters
  <2> QED
    BY <1>2, <2>1, ApprovalWrites, AppendedRecord
<1> QED
  BY <1>1, <1>2

\* A record that a step adds to request q comes from a handler that approves q
\* and holds both approvals, and the step resolves the request.
LEMMA NewRecord ==
    ASSUME TypeOK, [Next]_vars, NEW q \in ReqIds, NEW i \in RevealsOf(q)'
    PROVE  \/ i \in RevealsOf(q) /\ custody_log'[i] = custody_log[i]
           \/ \E s \in Sessions :
                /\ CommitApproval(s)
                /\ session[s].req = q
                /\ BothApproved(session[s].row)
                /\ custody_log'[i] = Disclosure(session[s])
<1>1. CASE custody_log' = custody_log
  BY <1>1 DEF RevealsOf
<1>2. CASE custody_log' # custody_log
  <2>1. PICK s \in Sessions : CommitApproval(s)
    BY <1>2, LogWriters
  <2>2. /\ Disclosure(session[s]) \in Disclosures
        /\ BothApproved(session[s].row)
        /\ custody_log' = Append(custody_log, Disclosure(session[s]))
    BY <1>2, <2>1, ApprovalWrites
  <2>3. Disclosure(session[s]).req = session[s].req
    BY DEF Disclosure
  <2> QED
    BY <2>1, <2>2, <2>3, AppendedRecord
<1> QED
  BY <1>1, <1>2

\* A handler that resolves a request finds, or leaves, both approvals.
LEMMA ResolvedIsApproved ==
    ASSUME TypeOK, HandlerOK, NEW s \in Sessions, CommitApproval(s),
           BothApproved(session[s].row)
    PROVE  BothApproved(WithStatus(Approved(reveal_requests[session[s].req],
                                            session[s].by), "APPROVED"))
<1> DEFINE k == session[s]
           row == reveal_requests[k.req]
<1>1. k.req \in ReqIds /\ k.by \in Claims /\ row \in Rows
  BY ApprovalWrites DEF TypeOK
<1>2. ApprovalOK(k)
  BY DEF HandlerOK, Handler, CommitApproval
<1>3. k.by[1] # Nobody
  BY <1>1, RevealConstants DEF Claims
<1>4. CASE k.by[2] = "ADMINISTRATOR"
  <2>1. row.investigator_approved_by # Nobody
    BY <1>2, <1>4 DEF ApprovalOK, BothApproved
  <2> QED
    BY <1>3, <1>4, <2>1 DEF BothApproved, Approved, WithStatus, Row
<1>5. CASE k.by[2] # "ADMINISTRATOR"
  <2>1. row.admin_approved_by # Nobody
    BY <1>2, <1>5 DEF ApprovalOK, BothApproved
  <2> QED
    BY <1>3, <1>5, <2>1 DEF BothApproved, Approved, WithStatus, Row
<1> QED
  BY <1>4, <1>5

\* The requester stays out of the row and out of the custody records.
LEMMA SelfApprovalStep ==
    TypeOK /\ HandlerOK /\ TableOK /\ [Next]_vars => NoSelfApproval'
<1> SUFFICES ASSUME TypeOK, HandlerOK, TableOK, [Next]_vars, NEW q \in ReqIds,
                    reveal_requests'[q].status # "none"
             PROVE  LET row == reveal_requests'[q] IN
                    /\ row.requested_by # row.admin_approved_by
                    /\ row.requested_by # row.investigator_approved_by
                    /\ \A i \in RevealsOf(q)' :
                         row.requested_by \notin
                            {custody_log'[i].admin_approver,
                             custody_log'[i].investigator_approver}
  BY DEF NoSelfApproval
<1> DEFINE old == reveal_requests[q]
           new == reveal_requests'[q]
<1>1. Kept(old, new) /\ old \in Rows
  BY KeptStep DEF TypeOK
<1>2. ASSUME NEW s \in Sessions, CommitApproval(s), session[s].req = q
      PROVE  /\ old.status # "none"
             /\ ApprovalOK(session[s])
             /\ new.requested_by # new.admin_approved_by
             /\ new.requested_by # new.investigator_approved_by
  <2>1. ApprovalOK(session[s])
    BY <1>2 DEF HandlerOK, Handler, CommitApproval
  <2>2. new \in {Approved(old, session[s].by),
                 WithStatus(Approved(old, session[s].by), "APPROVED")}
    BY <1>2, ApprovalWrites
  <2>3. /\ old.requested_by # old.admin_approved_by
        /\ old.requested_by # old.investigator_approved_by
    BY <1>2, <2>1 DEF TableOK, NoSelfApproval, ApprovalOK
  <2> QED
    BY <1>2, <2>1, <2>2, <2>3 DEF ApprovalOK, Approved, WithStatus, Row
<1>3. /\ new.requested_by # new.admin_approved_by
      /\ new.requested_by # new.investigator_approved_by
  <2>1. ASSUME NEW t \in Callers, new = Row(t[1], Nobody, Nobody, "PENDING")
        PROVE  /\ new.requested_by # new.admin_approved_by
               /\ new.requested_by # new.investigator_approved_by
    BY <2>1, CallersAreClaims, RevealConstants DEF Row, Claims
  <2>2. ASSUME NEW s \in Sessions, CommitRejection(s), session[s].req = q,
               new = WithStatus(old, "REJECTED")
        PROVE  /\ new.requested_by # new.admin_approved_by
               /\ new.requested_by # new.investigator_approved_by
    <3>1. old.status # "none"
      BY <2>2 DEF HandlerOK, Handler, CommitRejection
    <3> QED
      BY <2>2, <3>1 DEF TableOK, NoSelfApproval, WithStatus, Row
  <2>3. CASE new = old
    BY <2>3 DEF TableOK, NoSelfApproval
  <2> QED
    BY <1>2, <2>1, <2>2, <2>3, RowWriters
<1>4. ASSUME NEW i \in RevealsOf(q)'
      PROVE  new.requested_by \notin {custody_log'[i].admin_approver,
                                     custody_log'[i].investigator_approver}
  <2>1. CASE i \in RevealsOf(q) /\ custody_log'[i] = custody_log[i]
    <3>1. old.status # "none"
      BY <2>1 DEF TableOK, RecordedIsDecided
    <3>2. new.requested_by = old.requested_by
      BY <1>1, <3>1 DEF Kept
    <3> QED
      BY <2>1, <3>1, <3>2 DEF TableOK, NoSelfApproval
  <2>2. ASSUME NEW s \in Sessions, CommitApproval(s), session[s].req = q,
               custody_log'[i] = Disclosure(session[s])
        PROVE  new.requested_by \notin {custody_log'[i].admin_approver,
                                       custody_log'[i].investigator_approver}
    <3>1. old.status # "none" /\ ApprovalOK(session[s])
      BY <1>2, <2>2
    <3>2. new.requested_by = old.requested_by
      BY <1>1, <3>1 DEF Kept
    <3> QED
      BY <2>2, <3>1, <3>2 DEF ApprovalOK, Disclosure
  <2> QED
    BY <2>1, <2>2, NewRecord
<1> QED
  BY <1>3, <1>4

\* A request that reads APPROVED was resolved by the step that recorded it.
LEMMA ApprovedStep ==
    TypeOK /\ HandlerOK /\ TableOK /\ [Next]_vars => ApprovedIsOnRecord'
<1> SUFFICES ASSUME TypeOK, HandlerOK, TableOK, [Next]_vars, NEW q \in ReqIds,
                    reveal_requests'[q].status = "APPROVED"
             PROVE  BothApproved(reveal_requests'[q]) /\ RevealsOf(q)' # {}
  BY DEF ApprovedIsOnRecord, BothApproved
<1> DEFINE old == reveal_requests[q]
           new == reveal_requests'[q]
<1>1. CASE old.status = "APPROVED"
  <2>1. BothApproved(old) /\ RevealsOf(q) # {}
    BY <1>1 DEF TableOK, ApprovedIsOnRecord
  <2> QED
    BY <2>1, KeptStep, RecordsStay DEF Kept, BothApproved
<1>2. CASE old.status # "APPROVED"
  <2>1. PICK s \in Sessions : CommitApproval(s) /\ session[s].req = q
    <3>1. ASSUME NEW t, new = Row(t, Nobody, Nobody, "PENDING") PROVE FALSE
      BY <3>1 DEF Row
    <3>2. ASSUME new = WithStatus(old, "REJECTED") PROVE FALSE
      BY <3>2 DEF Row, WithStatus
    <3> QED
      BY <1>2, <3>1, <3>2, RowWriters
  <2>2. old \in Rows /\ session[s].by \in Claims
    BY <2>1, ApprovalWrites DEF TypeOK
  <2>3. Approved(old, session[s].by).status # "APPROVED"
    BY <1>2, <2>2, ApprovalFields
  <2>4. /\ BothApproved(session[s].row)
        /\ Disclosure(session[s]) \in Disclosures
        /\ new = WithStatus(Approved(old, session[s].by), "APPROVED")
        /\ custody_log' = Append(custody_log, Disclosure(session[s]))
    BY <2>1, <2>3, ApprovalWrites
  <2>5. BothApproved(new)
    BY <2>1, <2>4, ResolvedIsApproved
  <2>6. RevealsOf(q)' # {}
    BY <2>1, <2>4, AppendedRecord DEF Disclosure
  <2> QED
    BY <2>5, <2>6
<1> QED
  BY <1>1, <1>2

\* A name is only shown of a request that reads APPROVED, hence is on record.
LEMMA DisclosedStep ==
    TypeOK /\ TableOK /\ [Next]_vars => DisclosedIsOnRecord'
<1> SUFFICES ASSUME TypeOK, TableOK, [Next]_vars, NEW q \in disclosed'
             PROVE  RevealsOf(q)' # {}
  BY DEF DisclosedIsOnRecord
<1>1. ASSUME q \notin disclosed
      PROVE  q \in ReqIds /\ reveal_requests[q].status = "APPROVED"
  BY <1>1 DEF Next, vars, IssueToken, UpdateUserRole, CreateRevealRequest,
       ApproveRevealRequest, RejectRevealRequest, CommitApproval,
       CommitRejection, Audit, Fail, GetRevealRequestStatus
<1>2. q \in ReqIds /\ RevealsOf(q) # {}
  BY <1>1 DEF TableOK, DisclosedIsOnRecord, ApprovedIsOnRecord, TypeOK
<1> QED
  BY <1>2, RecordsStay

\* What is on record stays approved by both roles and resolved.
LEMMA RecordedStep ==
    TypeOK /\ HandlerOK /\ TableOK /\ [Next]_vars => RecordedIsDecided'
<1> SUFFICES ASSUME TypeOK, HandlerOK, TableOK, [Next]_vars, NEW q \in ReqIds,
                    NEW i \in RevealsOf(q)'
             PROVE  /\ BothApproved(reveal_requests'[q])
                    /\ reveal_requests'[q].status \in Decided
  BY DEF RecordedIsDecided, BothApproved, Decided
<1>1. CASE i \in RevealsOf(q)
  <2>1. /\ BothApproved(reveal_requests[q])
        /\ reveal_requests[q].status \in Decided
    BY <1>1 DEF TableOK, RecordedIsDecided, Decided
  <2> QED
    BY <2>1, KeptStep DEF Kept, BothApproved
<1>2. ASSUME NEW s \in Sessions, CommitApproval(s), session[s].req = q,
             BothApproved(session[s].row)
      PROVE  /\ BothApproved(reveal_requests'[q])
             /\ reveal_requests'[q].status \in Decided
  <2>1. reveal_requests'[q] =
          WithStatus(Approved(reveal_requests[q], session[s].by), "APPROVED")
    BY <1>2, ApprovalWrites
  <2>2. BothApproved(reveal_requests'[q])
    BY <1>2, <2>1, ResolvedIsApproved
  <2> QED
    BY <2>1, <2>2 DEF WithStatus, Row, Decided
<1> QED
  BY <1>1, <1>2, NewRecord

\* An audit event is written by the handler that committed what it reports.
LEMMA AuditStep ==
    TypeOK /\ HandlerOK /\ AuditedHappened /\ [Next]_vars => AuditedHappened'
<1> SUFFICES ASSUME TypeOK, HandlerOK, AuditedHappened, [Next]_vars,
                    NEW e \in audit_log'
             PROVE  Happened(e)'
  BY DEF AuditedHappened
<1>1. TypeOK' /\ \A q \in ReqIds : Kept(reveal_requests[q], reveal_requests'[q])
  BY TypeStep, KeptStep
<1>2. ASSUME e \notin audit_log
      PROVE  \E s \in Sessions : session[s].pc = "audit" /\ e = session[s].event
  BY <1>2 DEF Next, vars, IssueToken, UpdateUserRole, CreateRevealRequest,
       ApproveRevealRequest, RejectRevealRequest, CommitApproval,
       CommitRejection, Audit, Fail, GetRevealRequestStatus
<1>3. e \in Events
  BY <1>1 DEF TypeOK
<1>4. Happened(e)
  BY <1>2 DEF AuditedHappened, HandlerOK, Handler
<1> QED
  BY <1>1, <1>3, <1>4, HappenedStays

\* The inductive invariant holds.
LEMMA Invariance == Spec => []IInv
<1>1. Init => IInv
  <2> SUFFICES ASSUME Init PROVE IInv
    OBVIOUS
  <2>1. TypeOK
    BY RevealConstants
    DEF Init, TypeOK, NoRow, Row, Rows, Statuses, SessionStates
  <2>2. HandlerOK
    BY DEF Init, HandlerOK, Handler, Idle
  <2>3. \A q \in ReqIds : RevealsOf(q) = {} /\ reveal_requests[q].status = "none"
    <3>1. DOMAIN custody_log = {}
      BY EmptySeq DEF Init
    <3>2. \A q \in ReqIds : reveal_requests[q].status = "none"
      BY DEF Init, NoRow, Row
    <3> QED
      BY <3>1, <3>2 DEF RevealsOf
  <2>4. TableOK
    BY <2>3 DEF Init, TableOK, NoSelfApproval, ApprovedIsOnRecord,
                DisclosedIsOnRecord, RecordedIsDecided
  <2>5. AuditedHappened
    BY DEF Init, AuditedHappened
  <2> QED
    BY <2>1, <2>2, <2>4, <2>5 DEF IInv
<1>2. IInv /\ [Next]_vars => IInv'
  BY TypeStep, HandlerStep, SelfApprovalStep, ApprovedStep, DisclosedStep,
     RecordedStep, AuditStep
  DEF IInv, TableOK
<1> QED
  BY <1>1, <1>2, PTL DEF Spec

\* However the handlers interleave, no requester approves their own request.
THEOREM NeverSelfApproved == Spec => []NoSelfApproval
<1>1. IInv => NoSelfApproval
  BY DEF IInv, TableOK
<1> QED
  BY <1>1, Invariance, PTL

\* An approved request, and any request whose name was ever shown, has its
\* custody record, and what has a record has both approvals and a decision.
THEOREM RevealsAreRecorded ==
    Spec => [](ApprovedIsOnRecord /\ DisclosedIsOnRecord /\ RecordedIsDecided)
<1>1. IInv => ApprovedIsOnRecord /\ DisclosedIsOnRecord /\ RecordedIsDecided
  BY DEF IInv, TableOK
<1> QED
  BY <1>1, Invariance, PTL

\* Of finitely many handlers finitely many are about to record a reveal, and the
\* records of a request are finitely many.
LEMMA RevealsFinite ==
    ASSUME TypeOK, NEW q \in ReqIds
    PROVE  /\ IsFiniteSet(RevealsOf(q)) /\ IsFiniteSet(Completing(q))
           /\ Cardinality(RevealsOf(q)) \in Nat /\ Cardinality(Completing(q)) \in Nat
           /\ Cardinality(Completing(q)) <= Cardinality(Sessions)
           /\ Cardinality(Sessions) \in Nat
<1>1. DOMAIN custody_log = 1 .. Len(custody_log) /\ Len(custody_log) \in Nat
  BY LenProperties DEF TypeOK
<1>2. IsFiniteSet(1 .. Len(custody_log))
  BY <1>1, FS_Interval
<1>3. RevealsOf(q) \subseteq 1 .. Len(custody_log)
  BY <1>1 DEF RevealsOf
<1>4. Completing(q) \subseteq Sessions /\ IsFiniteSet(Sessions)
  BY RevealConstants DEF Completing
<1> QED
  BY <1>2, <1>3, <1>4, FS_Subset, FS_CardinalityType

\* The handlers about to record a reveal of request q after a step: a new one is
\* there only while the request is pending, and the one that commits is not.
LEMMA CompletingStep ==
    ASSUME TypeOK, [Next]_vars, NEW q \in ReqIds
    PROVE  /\ reveal_requests[q].status # "PENDING" => Completing(q)' \subseteq Completing(q)
           /\ \A s \in Sessions : CommitApproval(s) => s \notin Completing(q)'
<1>1. ASSUME NEW s \in Sessions, NEW p \in ReqIds, NEW t \in Callers,
             \/ CreateRevealRequest(s, p, t) \/ RejectRevealRequest(s, p, t)
      PROVE  Completing(q)' \subseteq Completing(q)
  <2>1. session'[s].pc # "approve" /\ \A r \in Sessions \ {s} : session'[r] = session[r]
    BY <1>1 DEF CreateRevealRequest, RejectRevealRequest, TypeOK
  <2> QED
    BY <2>1 DEF Completing
<1>2. ASSUME NEW s \in Sessions, NEW p \in ReqIds, NEW t \in Callers,
             ApproveRevealRequest(s, p, t), reveal_requests[q].status # "PENDING"
      PROVE  Completing(q)' \subseteq Completing(q)
  BY <1>2 DEF ApproveRevealRequest, MayApprove, Completing, TypeOK
<1>3. ASSUME NEW s \in Sessions,
             \/ CommitApproval(s) \/ CommitRejection(s) \/ Audit(s) \/ Fail(s)
      PROVE  Completing(q)' \subseteq Completing(q) /\ s \notin Completing(q)'
  BY <1>3 DEF CommitApproval, CommitRejection, Audit, Fail, Idle, Completing, TypeOK
<1>4. ASSUME session' = session PROVE Completing(q)' = Completing(q)
  BY <1>4 DEF Completing
<1> QED
  BY <1>1, <1>2, <1>3, <1>4
  DEF Next, vars, IssueToken, UpdateUserRole, GetRevealRequestStatus

\* A record that is added takes the place of the handler that added it.
LEMMA BoundStep ==
    TypeOK /\ TypeOK' /\ RecordedIsDecided /\ RecordedIsDecided' /\ RevealsBounded /\ [Next]_vars
        => RevealsBounded'
<1> SUFFICES ASSUME TypeOK, TypeOK', RecordedIsDecided, RecordedIsDecided', RevealsBounded,
                    [Next]_vars, NEW q \in ReqIds
             PROVE  Cardinality(RevealsOf(q)') + Cardinality(Completing(q)')
                       <= Cardinality(Sessions)
  BY DEF RevealsBounded
<1> DEFINE R == RevealsOf(q)
           C == Completing(q)
<1>1. /\ IsFiniteSet(R) /\ IsFiniteSet(C)
      /\ Cardinality(R) \in Nat /\ Cardinality(C) \in Nat
      /\ Cardinality(R) + Cardinality(C) <= Cardinality(Sessions)
      /\ Cardinality(Sessions) \in Nat
  BY RevealsFinite DEF RevealsBounded
<1>2. /\ IsFiniteSet(R') /\ IsFiniteSet(C')
      /\ Cardinality(R') \in Nat /\ Cardinality(C') \in Nat
      /\ Cardinality(C') <= Cardinality(Sessions)
  <2>1. \A p \in ReqIds :
          /\ IsFiniteSet(RevealsOf(p)) /\ IsFiniteSet(Completing(p))
          /\ Cardinality(RevealsOf(p)) \in Nat /\ Cardinality(Completing(p)) \in Nat
          /\ Cardinality(Completing(p)) <= Cardinality(Sessions)
    BY RevealsFinite
  <2>2. IsFiniteSet(Sessions) /\ C' \subseteq Sessions
    BY RevealConstants DEF Completing
  <2>3. DOMAIN custody_log' = 1 .. Len(custody_log') /\ Len(custody_log') \in Nat
    BY LenProperties DEF TypeOK
  <2>4. IsFiniteSet(1 .. Len(custody_log')) /\ R' \subseteq 1 .. Len(custody_log')
    BY <2>3, FS_Interval DEF RevealsOf
  <2> QED
    BY <2>2, <2>4, FS_Subset, FS_CardinalityType
<1>3. CASE R' = {}
  BY <1>2, <1>3, FS_EmptySet
<1>4. CASE R' # {} /\ R = {}
  <2>1. PICK i \in R' : TRUE
    BY <1>4
  <2>2. PICK s \in Sessions : /\ CommitApproval(s) /\ session[s].req = q
                              /\ BothApproved(session[s].row)
    BY <1>4, <2>1, NewRecord
  <2>3. custody_log' = Append(custody_log, Disclosure(session[s]))
    BY <2>2, ApprovalWrites
  <2>4. R' \subseteq {Len(custody_log) + 1}
    BY <1>4, <2>3, AppendProperties, LenProperties DEF RevealsOf, TypeOK
  <2>5. Cardinality(R') <= 1
    <3>1. PICK n : n = Len(custody_log) + 1
      OBVIOUS
    <3>2. IsFiniteSet({n}) /\ Cardinality({n}) = 1 /\ R' \subseteq {n}
      BY <2>4, <3>1, FS_Singleton
    <3> HIDE DEF R
    <3> QED
      BY <3>2, FS_Subset
  <2>6. s \notin C' /\ C' \subseteq Sessions \ {s}
    BY <2>2, CompletingStep DEF Completing
  <2>7. /\ IsFiniteSet(Sessions \ {s})
        /\ Cardinality(Sessions \ {s}) = Cardinality(Sessions) - 1
    BY RevealConstants, FS_RemoveElement
  <2>8. Cardinality(C') <= Cardinality(Sessions) - 1
    BY <2>6, <2>7, FS_Subset
  <2> QED
    BY <1>1, <1>2, <2>5, <2>8
<1>5. CASE R # {}
  <2>1. reveal_requests[q].status # "PENDING"
    BY <1>5 DEF RecordedIsDecided
  <2>2. C' \subseteq C
    BY <2>1, CompletingStep
  <2>3. Cardinality(C') <= Cardinality(C)
    BY <1>1, <2>2, FS_Subset
  <2>4. CASE R' \subseteq R
    <3>1. Cardinality(R') <= Cardinality(R)
      BY <1>1, <2>4, FS_Subset
    <3> QED
      BY <1>1, <1>2, <2>3, <3>1
  <2>5. CASE ~(R' \subseteq R)
    <3>1. PICK i \in R' : i \notin R
      BY <2>5
    <3>2. PICK s \in Sessions : /\ CommitApproval(s) /\ session[s].req = q
                                /\ BothApproved(session[s].row)
      BY <3>1, NewRecord
    <3>3. custody_log' = Append(custody_log, Disclosure(session[s]))
      BY <3>2, ApprovalWrites
    <3>4. R' \subseteq R \cup {Len(custody_log) + 1}
      BY <3>3, AppendProperties, LenProperties DEF RevealsOf, TypeOK
    <3>5. /\ IsFiniteSet(R \cup {Len(custody_log) + 1})
          /\ Cardinality(R \cup {Len(custody_log) + 1}) <= Cardinality(R) + 1
      <4>1. PICK n : n = Len(custody_log) + 1
        OBVIOUS
      <4> HIDE DEF R
      <4>2. /\ IsFiniteSet(R \cup {n})
            /\ Cardinality(R \cup {n}) \in {Cardinality(R), Cardinality(R) + 1}
        BY <1>1, FS_AddElement
      <4> QED
        BY <1>1, <4>1, <4>2
    <3>6. Cardinality(R') <= Cardinality(R) + 1
      <4>1. Cardinality(R') <= Cardinality(R \cup {Len(custody_log) + 1})
        BY <3>4, <3>5, FS_Subset
      <4>2. Cardinality(R \cup {Len(custody_log) + 1}) \in Nat
        BY <3>5, FS_CardinalityType
      <4> QED
        BY <1>1, <1>2, <3>5, <4>1, <4>2
    <3>7. s \in C /\ s \notin C'
      BY <3>2, CompletingStep DEF Completing, CommitApproval
    <3>8. C' \subseteq C \ {s}
      BY <2>2, <3>7
    <3>9. IsFiniteSet(C \ {s}) /\ Cardinality(C \ {s}) = Cardinality(C) - 1
      BY <1>1, <3>7, FS_RemoveElement
    <3>10. Cardinality(C') <= Cardinality(C) - 1
      BY <3>8, <3>9, FS_Subset
    <3> QED
      BY <1>1, <1>2, <3>6, <3>10
  <2> QED
    BY <2>4, <2>5
<1> QED
  BY <1>3, <1>4, <1>5

\* However many approvals overlap, a request is recorded as revealed at most once
\* for each handler: an approval that starts after the first record finds the
\* request decided.
THEOREM RevealsStayBounded == Spec => []RevealsBounded
<1>1. Init => RevealsBounded
  <2> SUFFICES ASSUME Init, NEW q \in ReqIds
               PROVE  Cardinality(RevealsOf(q)) + Cardinality(Completing(q))
                         <= Cardinality(Sessions)
    BY DEF RevealsBounded
  <2>1. DOMAIN custody_log = {}
    BY EmptySeq DEF Init
  <2>2. RevealsOf(q) = {} /\ Completing(q) = {}
    BY <2>1 DEF RevealsOf, Completing, Init, Idle
  <2>3. Cardinality(Sessions) \in Nat
    BY RevealConstants, FS_CardinalityType
  <2> QED
    BY <2>2, <2>3, FS_EmptySet
<1>2. IInv => TypeOK /\ RecordedIsDecided
  BY DEF IInv, TableOK
<1>3. TypeOK /\ RecordedIsDecided /\ TypeOK' /\ RecordedIsDecided' /\ RevealsBounded /\ [Next]_vars
        => RevealsBounded'
  BY BoundStep
<1> QED
  BY <1>1, <1>2, <1>3, Invariance, PTL DEF Spec

\* The audit log reports only what is in the table.
THEOREM AuditIsTruthful == Spec => []AuditedHappened
<1>1. IInv => AuditedHappened
  BY DEF IInv
<1> QED
  BY <1>1, Invariance, PTL

\* A late commit may replace a decision or an approver, but never returns a
\* request to PENDING or a role to not having approved.
THEOREM NothingIsUndone == Spec => NothingUndone
<1>1. TypeOK /\ [Next]_vars =>
        [\A q \in ReqIds :
           LET old == reveal_requests[q]
               new == reveal_requests'[q]
           IN  /\ old.status \in {"APPROVED", "REJECTED"}
                    => new.status \in {"APPROVED", "REJECTED"}
               /\ old.admin_approved_by # Nobody
                    => new.admin_approved_by # Nobody
               /\ old.investigator_approved_by # Nobody
                    => new.investigator_approved_by # Nobody]_vars
  BY KeptStep DEF Kept, Decided
<1> QED
  BY <1>1, TypeCorrect, PTL DEF Spec, NothingUndone

-----------------------------------------------------------------------------
\* When handlers run one at a time, the row that a handler decided on is still
\* the row of the table when it commits.
Fresh(s) ==
    LET k == session[s] IN
    /\ k.pc \in {"approve", "reject"} =>
         reveal_requests[k.req].status = "PENDING"
    /\ k.pc = "approve" =>
         /\ k.by[2] \in {"ADMINISTRATOR", "INVESTIGATOR"}
         /\ k.by[1] # reveal_requests[k.req].requested_by
         /\ Recorded(reveal_requests[k.req], k.by) = Nobody
         /\ k.row = Approved(reveal_requests[k.req], k.by)

SerialInv == \A s \in Sessions : Fresh(s)

\* No step makes the row of the only handler stale.
LEMMA SerialStep ==
    ASSUME OneHandler
    PROVE  TypeOK /\ SerialInv /\ [Next]_vars => SerialInv'
<1> SUFFICES ASSUME TypeOK, SerialInv, [Next]_vars, NEW s \in Sessions
             PROVE  Fresh(s)'
  BY DEF SerialInv
<1>1. ASSUME session'[s].pc \notin {"approve", "reject"} PROVE Fresh(s)'
  BY <1>1 DEF Fresh
<1>2. ASSUME session' = session, reveal_requests' = reveal_requests
      PROVE  Fresh(s)'
  BY <1>2 DEF Fresh, SerialInv
<1>3. ASSUME NEW q \in ReqIds, NEW t \in Callers, ApproveRevealRequest(s, q, t)
      PROVE  Fresh(s)'
  <2>1. /\ session'[s] = [pc |-> "approve", req |-> q, by |-> t,
                          row |-> Approved(reveal_requests[q], t)]
        /\ reveal_requests' = reveal_requests
    BY <1>3 DEF ApproveRevealRequest, MayApprove, TypeOK
  <2>2. /\ reveal_requests[q].status = "PENDING"
        /\ t[2] \in {"ADMINISTRATOR", "INVESTIGATOR"}
        /\ t[1] # reveal_requests[q].requested_by
        /\ Recorded(reveal_requests[q], t) = Nobody
    BY <1>3 DEF ApproveRevealRequest, MayApprove, Authorised
  <2> QED
    BY <2>1, <2>2 DEF Fresh
<1>4. ASSUME NEW q \in ReqIds, NEW t \in Callers, RejectRevealRequest(s, q, t)
      PROVE  Fresh(s)'
  BY <1>4 DEF RejectRevealRequest, TypeOK, Fresh
<1>5. ASSUME \/ \E q \in ReqIds, t \in Callers : CreateRevealRequest(s, q, t)
             \/ CommitApproval(s) \/ CommitRejection(s) \/ Audit(s) \/ Fail(s)
      PROVE  session'[s].pc \notin {"approve", "reject"}
  BY <1>5 DEF CreateRevealRequest, CommitApproval, CommitRejection, Audit, Fail,
              TypeOK, Idle
<1>6. \A r \in Sessions : r = s
  BY DEF OneHandler
<1> QED
  BY <1>1, <1>2, <1>3, <1>4, <1>5, <1>6
  DEF Next, vars, IssueToken, UpdateUserRole, GetRevealRequestStatus

\* Who approved, or is about to approve or reject, carries the claim of the role
\* he acts in: claims are handed out and never taken back.
Entitled ==
    /\ \A s \in Sessions : session[s].pc \in {"approve", "reject"} => session[s].by \in Authorised
    /\ \A q \in ReqIds :
         LET row == reveal_requests[q] IN
         /\ row.admin_approved_by # Nobody =>
              <<row.admin_approved_by, "ADMINISTRATOR">> \in Callers
         /\ row.investigator_approved_by # Nobody =>
              <<row.investigator_approved_by, "INVESTIGATOR">> \in Callers

LEMMA EntitledStep == TypeOK /\ Entitled /\ [Next]_vars => Entitled'
<1> SUFFICES ASSUME TypeOK, Entitled, [Next]_vars PROVE Entitled'
  OBVIOUS
<1>1. tokens \subseteq tokens'
  BY DEF Next, vars, IssueToken, UpdateUserRole, CreateRevealRequest,
       ApproveRevealRequest, RejectRevealRequest, CommitApproval,
       CommitRejection, Audit, Fail, GetRevealRequestStatus
<1>2. Callers \subseteq Callers' /\ Authorised \subseteq Authorised'
  BY <1>1 DEF Callers, Authorised
<1>3. ASSUME NEW s \in Sessions, session'[s].pc \in {"approve", "reject"}
      PROVE  session'[s].by \in Authorised
  <2>1. ASSUME session'[s] = session[s] PROVE session'[s].by \in Authorised
    BY <1>3, <2>1 DEF Entitled
  <2>2. ASSUME NEW r \in Sessions, NEW q \in ReqIds, NEW t \in Callers,
               \/ ApproveRevealRequest(r, q, t) \/ RejectRevealRequest(r, q, t)
               \/ CreateRevealRequest(r, q, t)
        PROVE  session'[s].by \in Authorised
    BY <1>3, <2>1, <2>2
    DEF ApproveRevealRequest, RejectRevealRequest, CreateRevealRequest, TypeOK
  <2>3. ASSUME NEW r \in Sessions,
               CommitApproval(r) \/ CommitRejection(r) \/ Audit(r) \/ Fail(r)
        PROVE  session'[s].by \in Authorised
    BY <1>3, <2>1, <2>3 DEF CommitApproval, CommitRejection, Audit, Fail, Idle, TypeOK
  <2> QED
    BY <2>1, <2>2, <2>3
    DEF Next, vars, IssueToken, UpdateUserRole, GetRevealRequestStatus
<1>4. ASSUME NEW q \in ReqIds
      PROVE  LET row == reveal_requests'[q] IN
             /\ row.admin_approved_by # Nobody =>
                  <<row.admin_approved_by, "ADMINISTRATOR">> \in Callers
             /\ row.investigator_approved_by # Nobody =>
                  <<row.investigator_approved_by, "INVESTIGATOR">> \in Callers
  <2> DEFINE old == reveal_requests[q]
             new == reveal_requests'[q]
  <2>1. CASE /\ new.admin_approved_by = old.admin_approved_by
             /\ new.investigator_approved_by = old.investigator_approved_by
    BY <2>1 DEF Entitled
  <2>2. ASSUME NEW t \in Callers, new = Row(t[1], Nobody, Nobody, "PENDING")
        PROVE  new.admin_approved_by = Nobody /\ new.investigator_approved_by = Nobody
    BY <2>2 DEF Row
  <2>3. ASSUME new = WithStatus(old, "REJECTED")
        PROVE  /\ new.admin_approved_by = old.admin_approved_by
               /\ new.investigator_approved_by = old.investigator_approved_by
    BY <2>3 DEF WithStatus, Row
  <2>4. ASSUME NEW s \in Sessions, CommitApproval(s), session[s].req = q
        PROVE  \/ /\ session[s].by[2] = "ADMINISTRATOR"
                  /\ new.admin_approved_by = session[s].by[1]
                  /\ new.investigator_approved_by = old.investigator_approved_by
               \/ /\ session[s].by[2] = "INVESTIGATOR"
                  /\ new.investigator_approved_by = session[s].by[1]
                  /\ new.admin_approved_by = old.admin_approved_by
    <3>1. session[s].by \in Authorised
      BY <2>4 DEF Entitled, CommitApproval
    <3>2. new \in {Approved(old, session[s].by), WithStatus(Approved(old, session[s].by), "APPROVED")}
      BY <2>4, ApprovalWrites
    <3> QED
      BY <3>1, <3>2 DEF Authorised, Approved, WithStatus, Row
  <2>5. ASSUME NEW s \in Sessions, CommitApproval(s), session[s].req = q
        PROVE  session[s].by \in Callers /\ session[s].by = <<session[s].by[1], session[s].by[2]>>
    <3>1. session[s].by \in Callers
      BY <2>5 DEF Entitled, CommitApproval, Authorised
    <3> QED
      BY <3>1, CallersAreClaims DEF Claims
  <2>6. ASSUME NEW s \in Sessions, CommitApproval(s), session[s].req = q
        PROVE  /\ new.admin_approved_by # Nobody =>
                    <<new.admin_approved_by, "ADMINISTRATOR">> \in Callers
               /\ new.investigator_approved_by # Nobody =>
                    <<new.investigator_approved_by, "INVESTIGATOR">> \in Callers
    BY <2>4, <2>5, <2>6 DEF Entitled
  <2> QED
    BY <2>1, <2>2, <2>3, <2>6, RowWriters
<1> QED
  BY <1>2, <1>3, <1>4 DEF Entitled

LEMMA ClaimsAreKept == Spec => []Entitled
<1>1. Init => Entitled
  BY DEF Init, Entitled, Idle, NoRow, Row
<1> QED
  BY <1>1, EntitledStep, TypeCorrect, PTL DEF Spec

\* The approvals of a row, one by one.
LEMMA InApprovals ==
    ASSUME NEW row, NEW a
    PROVE  a \in Approvals(row) <=>
             \/ /\ row.admin_approved_by # Nobody
                /\ a = <<"ADMINISTRATOR", row.admin_approved_by>>
             \/ /\ row.investigator_approved_by # Nobody
                /\ a = <<"INVESTIGATOR", row.investigator_approved_by>>
BY DEF Approvals

\* Both columns are set when both roles are among the approvals.
LEMMA CompleteIsBoth ==
    ASSUME NEW row
    PROVE  BothApproved(row) <=>
             \A r \in Dual!Approvers : \E a \in Approvals(row) : a[1] = r
<1>1. (\E a \in Approvals(row) : a[1] = "ADMINISTRATOR")
        <=> row.admin_approved_by # Nobody
  <2>1. row.admin_approved_by # Nobody =>
          <<"ADMINISTRATOR", row.admin_approved_by>> \in Approvals(row)
    BY InApprovals
  <2>2. ASSUME NEW a \in Approvals(row), a[1] = "ADMINISTRATOR"
        PROVE  row.admin_approved_by # Nobody
    BY <2>2, InApprovals
  <2>3. <<"ADMINISTRATOR", row.admin_approved_by>>[1] = "ADMINISTRATOR"
    OBVIOUS
  <2> QED
    BY <2>1, <2>2, <2>3
<1>2. (\E a \in Approvals(row) : a[1] = "INVESTIGATOR")
        <=> row.investigator_approved_by # Nobody
  <2>1. row.investigator_approved_by # Nobody =>
          <<"INVESTIGATOR", row.investigator_approved_by>> \in Approvals(row)
    BY InApprovals
  <2>2. ASSUME NEW a \in Approvals(row), a[1] = "INVESTIGATOR"
        PROVE  row.investigator_approved_by # Nobody
    BY <2>2, InApprovals
  <2>3. <<"INVESTIGATOR", row.investigator_approved_by>>[1] = "INVESTIGATOR"
    OBVIOUS
  <2> QED
    BY <2>1, <2>2, <2>3
<1> QED
  BY <1>1, <1>2 DEF BothApproved, Dual!Approvers

\* An approval of the row is an approval of the abstract request.
LEMMA ApprovalsGrow ==
    ASSUME NEW row \in Rows, NEW t \in Claims, Recorded(row, t) = Nobody,
           t[2] \in {"ADMINISTRATOR", "INVESTIGATOR"}
    PROVE  /\ Approvals(Approved(row, t)) = Approvals(row) \cup {<<t[2], t[1]>>}
           /\ \A a \in Approvals(row) : a[1] # t[2]
<1>1. t[1] # Nobody
  BY RevealConstants DEF Claims
<1>2. \A a \in Approvals(row) : a[1] # t[2]
  BY InApprovals DEF Recorded
<1>3. ASSUME NEW a
      PROVE  a \in Approvals(Approved(row, t)) <=>
               a \in Approvals(row) \cup {<<t[2], t[1]>>}
  <2>1. CASE t[2] = "ADMINISTRATOR"
    <3>1. /\ Approved(row, t).admin_approved_by = t[1]
          /\ Approved(row, t).investigator_approved_by
               = row.investigator_approved_by
          /\ row.admin_approved_by = Nobody
      BY <2>1 DEF Approved, Recorded, Row
    <3> QED
      BY <1>1, <2>1, <3>1, InApprovals
  <2>2. CASE t[2] = "INVESTIGATOR"
    <3>1. /\ Approved(row, t).investigator_approved_by = t[1]
          /\ Approved(row, t).admin_approved_by = row.admin_approved_by
          /\ row.investigator_approved_by = Nobody
      BY <2>2 DEF Approved, Recorded, Row
    <3> QED
      BY <1>1, <2>2, <3>1, InApprovals
  <2> QED
    BY <2>1, <2>2
<1> QED
  BY <1>2, <1>3

\* Run one at a time, the handlers implement the abstract dual authorization:
\* the commits, the sign-ins and the role changes are its steps, everything else
\* stutters.  One person who approves in both roles carries the claims of both.
THEOREM SerialIsDual ==
    ASSUME OneHandler
    PROVE  Spec => DualAuthorized
<1> DEFINE View(row) == [by |-> row.requested_by, approvals |-> Approvals(row),
                         status |-> row.status]
           request == [q \in ReqIds |-> View(reveal_requests[q])]
<1>1. Init => Dual!Init
  <2> SUFFICES ASSUME Init PROVE Dual!Init
    OBVIOUS
  <2>1. NoRow.admin_approved_by = Nobody /\ NoRow.investigator_approved_by = Nobody
    BY DEF NoRow, Row
  <2>2. Approvals(NoRow) = {}
    BY <2>1, InApprovals
  <2> QED
    BY <2>2 DEF Init, Dual!Init, Dual!NotSubmitted, NoRow, Row, Callers
<1>2. TypeOK /\ SerialInv /\ Entitled /\ [Next]_vars => [Dual!Next]_<<request, user_role, Callers>>
  <2> SUFFICES ASSUME TypeOK, SerialInv, Entitled, [Next]_vars
               PROVE  [Dual!Next]_<<request, user_role, Callers>>
    OBVIOUS
  <2>0. Callers \subseteq Claims
    BY CallersAreClaims
  <2>1. ASSUME reveal_requests' = reveal_requests PROVE request' = request
    BY <2>1
  <2>a. ASSUME NEW u \in Users, IssueToken(u) PROVE Dual!Next
    <3>1. reveal_requests' = reveal_requests /\ user_role' = user_role
      BY <2>a DEF IssueToken
    <3>2. Callers' = Callers \cup {<<u, user_role[u]>>}
      BY <2>a DEF IssueToken, Callers
    <3> HIDE DEF request
    <3>3. Dual!SignIn(u)
      BY <2>1, <3>1, <3>2 DEF Dual!SignIn, request
    <3> QED
      BY <3>3 DEF Dual!Next
  <2>b. ASSUME NEW u \in Users, NEW r \in Roles, UpdateUserRole(u, r) PROVE Dual!Next
    <3>1. /\ reveal_requests' = reveal_requests
          /\ user_role' = [user_role EXCEPT ![u] = r]
          /\ Callers' = Callers
      BY <2>b DEF UpdateUserRole, Callers
    <3>2. PICK t \in Callers : t[2] = "ADMINISTRATOR"
      BY <2>b DEF UpdateUserRole
    <3>3. t[1] \in Users /\ <<t[1], "ADMINISTRATOR">> \in Callers
      BY <2>0, <3>2 DEF Claims
    <3>4. \E v \in Users : "ADMINISTRATOR" \in Dual!RolesOf(v)
      BY <3>3 DEF Dual!RolesOf, Roles
    <3> HIDE DEF request
    <3>5. Dual!Move(u, r)
      BY <2>1, <3>1, <3>4 DEF Dual!Move, request
    <3> QED
      BY <3>5 DEF Dual!Next
  \* An authorised claim makes its user one of those who may act.
  <2>c. ASSUME NEW t \in Authorised
        PROVE  /\ t[1] \in Users
               /\ t[2] \in Dual!RolesOf(t[1])
               /\ Dual!RolesOf(t[1]) \cap Dual!Approvers # {}
    <3>1. t \in Callers /\ t[2] \in {"ADMINISTRATOR", "INVESTIGATOR"}
      BY DEF Authorised
    <3>2. t[1] \in Users /\ t[2] \in Roles /\ <<t[1], t[2]>> \in Callers
      BY <2>0, <3>1 DEF Claims
    <3> QED
      BY <3>1, <3>2 DEF Dual!RolesOf, Dual!Approvers
  <2>2. ASSUME NEW s \in Sessions, NEW q \in ReqIds, NEW t \in Callers,
               CreateRevealRequest(s, q, t)
        PROVE  Dual!Next
    <3>1. t[1] \in Users /\ Dual!RolesOf(t[1]) \cap Dual!Approvers # {}
      BY <2>2, <2>c DEF CreateRevealRequest
    <3>0. UNCHANGED <<user_role, Callers>>
      BY <2>2 DEF CreateRevealRequest, Callers
    <3> DEFINE row == Row(t[1], Nobody, Nobody, "PENDING")
    <3>2. reveal_requests' = [reveal_requests EXCEPT ![q] = row]
      BY <2>2 DEF CreateRevealRequest
    <3>3. Approvals(row) = {} /\ Approvals(NoRow) = {}
      <4>1. /\ row.admin_approved_by = Nobody
            /\ row.investigator_approved_by = Nobody
            /\ NoRow.admin_approved_by = Nobody
            /\ NoRow.investigator_approved_by = Nobody
        BY DEF NoRow, Row
      <4> QED
        BY <4>1, InApprovals
    <3>4. View(row) = [by |-> t[1], approvals |-> {}, status |-> "PENDING"]
      BY <3>3 DEF Row
    <3>5. View(NoRow) = Dual!NotSubmitted
      BY <3>3 DEF NoRow, Row, Dual!NotSubmitted
    <3>6. request' = [request EXCEPT ![q] = View(row)]
      BY <3>2 DEF TypeOK
    <3>7. request[q] = Dual!NotSubmitted
      BY <2>2, <3>5 DEF CreateRevealRequest
    <3> HIDE DEF request, View, row
    <3>8. PICK u \in Users : u = t[1]
      BY <3>1
    <3>9. Dual!Submit(q, u)
      BY <3>0, <3>1, <3>4, <3>6, <3>7, <3>8 DEF Dual!Submit, request, View
    <3> QED
      BY <3>8, <3>9 DEF Dual!Next
  <2>3. ASSUME NEW s \in Sessions, CommitApproval(s) PROVE Dual!Next
    <3>1. PICK q \in ReqIds, t \in Claims, row \in Rows :
            /\ q = session[s].req
            /\ t = session[s].by
            /\ row = reveal_requests[q]
      BY <2>3, ApprovalWrites DEF TypeOK
    <3> DEFINE own == Approved(row, t)
               new == IF BothApproved(own) THEN WithStatus(own, "APPROVED") ELSE own
    <3>2. /\ row.status = "PENDING"
          /\ t[2] \in {"ADMINISTRATOR", "INVESTIGATOR"}
          /\ t[1] # row.requested_by
          /\ Recorded(row, t) = Nobody
          /\ session[s].row = own
      BY <2>3, <3>1 DEF SerialInv, Fresh, CommitApproval
    <3>3. reveal_requests' = [reveal_requests EXCEPT ![q] = new]
      BY <2>3, <3>1, <3>2 DEF CommitApproval, Resolved, Recording
    <3>4. request' = [request EXCEPT ![q] = View(new)]
      BY <3>3 DEF TypeOK
    <3>5. Approvals(own) = Approvals(row) \cup {<<t[2], t[1]>>}
      BY <3>2, ApprovalsGrow
    <3>6. own.requested_by = row.requested_by /\ own.status = "PENDING"
      BY <3>2, ApprovalFields
    <3>7. /\ new.requested_by = row.requested_by
          /\ new.status = IF BothApproved(own) THEN "APPROVED" ELSE "PENDING"
          /\ new.admin_approved_by = own.admin_approved_by
          /\ new.investigator_approved_by = own.investigator_approved_by
      BY <3>6 DEF WithStatus, Row
    <3>8. Approvals(new) = Approvals(own)
      BY <3>7, InApprovals
    <3>0. UNCHANGED <<user_role, Callers>>
      BY <2>3 DEF CommitApproval, Callers
    <3>9. PICK u \in Users, role \in Dual!Approvers : u = t[1] /\ role = t[2]
      BY <3>2 DEF Claims, Dual!Approvers
    <3>a. role \in Dual!RolesOf(u)
      BY <2>3, <2>c, <3>1, <3>9 DEF Entitled, CommitApproval
    <3>b. ASSUME NEW a \in Approvals(row), a[2] = u
          PROVE  Dual!Approvers \subseteq Dual!RolesOf(u)
      <4>1. a[1] \in Dual!Approvers /\ <<a[2], a[1]>> \in Callers /\ a[1] # role
        <5>1. a[1] # role
          BY <3>2, <3>9, ApprovalsGrow
        <5>2. \/ /\ row.admin_approved_by # Nobody
                 /\ a = <<"ADMINISTRATOR", row.admin_approved_by>>
              \/ /\ row.investigator_approved_by # Nobody
                 /\ a = <<"INVESTIGATOR", row.investigator_approved_by>>
          BY InApprovals
        <5>3. /\ row.admin_approved_by # Nobody =>
                    <<row.admin_approved_by, "ADMINISTRATOR">> \in Callers
              /\ row.investigator_approved_by # Nobody =>
                    <<row.investigator_approved_by, "INVESTIGATOR">> \in Callers
          BY <3>1 DEF Entitled
        <5> QED
          BY <5>1, <5>2, <5>3 DEF Dual!Approvers
      <4>2. a[1] \in Dual!RolesOf(u)
        BY <3>b, <4>1 DEF Dual!RolesOf, Dual!Approvers, Roles
      <4> QED
        BY <3>a, <4>1, <4>2 DEF Dual!Approvers
    <3>10. \A a \in Approvals(row) : a[1] # role
      BY <3>2, <3>9, ApprovalsGrow
    <3>11. request[q] = View(row)
      BY <3>1
    <3>12. View(new) =
             [by |-> row.requested_by,
              approvals |-> Approvals(row) \cup {<<role, u>>},
              status |->
                IF \A r \in Dual!Approvers :
                     \E a \in Approvals(row) \cup {<<role, u>>} : a[1] = r
                THEN "APPROVED" ELSE "PENDING"]
      BY <3>5, <3>7, <3>8, <3>9, CompleteIsBoth
    <3>13. Dual!Approve(q, u, role)
      <4>1. /\ request[q].by = row.requested_by
            /\ request[q].approvals = Approvals(row)
            /\ request[q].status = row.status
        BY <3>11
      <4> HIDE DEF request, new, View
      <4>2. request' = [request EXCEPT ![q] =
              [by |-> request[q].by,
               approvals |-> request[q].approvals \cup {<<role, u>>},
               status |->
                 IF \A r \in Dual!Approvers :
                      \E a \in request[q].approvals \cup {<<role, u>>} : a[1] = r
                 THEN "APPROVED" ELSE "PENDING"]]
        BY <3>4, <3>12, <4>1
      <4>3. /\ request[q].status = "PENDING"
            /\ request[q].by # u
            /\ \A a \in request[q].approvals : a[1] # role
            /\ \A a \in request[q].approvals :
                  a[2] = u => Dual!Approvers \subseteq Dual!RolesOf(u)
        BY <3>2, <3>9, <3>10, <3>b, <4>1
      <4> USE DEF request, View
      <4> QED
        BY <3>0, <3>a, <4>2, <4>3, Zenon DEF Dual!Approve
    <3> QED
      BY <3>13 DEF Dual!Next
  <2>4. ASSUME NEW s \in Sessions, CommitRejection(s) PROVE Dual!Next
    <3>1. PICK q \in ReqIds, row \in Rows :
            q = session[s].req /\ row = reveal_requests[q]
      BY <2>4, SessionFields DEF CommitRejection, Rejected, TypeOK
    <3>2. row.status = "PENDING"
      BY <2>4, <3>1 DEF SerialInv, Fresh, CommitRejection
    <3> DEFINE new == WithStatus(row, "REJECTED")
    <3>3. reveal_requests' = [reveal_requests EXCEPT ![q] = new]
      BY <2>4, <3>1 DEF CommitRejection, Rejected
    <3>4. request' = [request EXCEPT ![q] = View(new)]
      BY <3>3 DEF TypeOK
    <3>5. /\ new.requested_by = row.requested_by
          /\ new.status = "REJECTED"
          /\ new.admin_approved_by = row.admin_approved_by
          /\ new.investigator_approved_by = row.investigator_approved_by
      BY DEF WithStatus, Row
    <3>6. Approvals(new) = Approvals(row)
      BY <3>5, InApprovals
    <3>7. request[q] = View(row)
      BY <3>1
    <3>0. UNCHANGED <<user_role, Callers>>
      BY <2>4 DEF CommitRejection, Callers
    <3>8. PICK u \in Users : Dual!RolesOf(u) \cap Dual!Approvers # {}
      BY <2>4, <2>c DEF Entitled, CommitRejection
    <3>9. Dual!Reject(q, u)
      <4> HIDE DEF request, new
      <4> QED
        BY <3>0, <3>2, <3>4, <3>5, <3>6, <3>7, <3>8 DEF Dual!Reject, request
    <3> QED
      BY <3>9 DEF Dual!Next
  <2>5. \/ UNCHANGED <<reveal_requests, user_role, Callers>>
        \/ \E u \in Users : IssueToken(u) \/ \E r \in Roles : UpdateUserRole(u, r)
        \/ \E s \in Sessions : \/ CommitApproval(s) \/ CommitRejection(s)
             \/ \E q \in ReqIds, t \in Callers : CreateRevealRequest(s, q, t)
    BY DEF Next, vars, ApproveRevealRequest, RejectRevealRequest, Audit, Fail,
           GetRevealRequestStatus, Callers
  <2> HIDE DEF request
  <2> QED
    BY <2>1, <2>a, <2>b, <2>2, <2>3, <2>4, <2>5
<1>3. Init => SerialInv
  BY DEF Init, SerialInv, Fresh, Idle
<1>4. TypeOK /\ SerialInv /\ [Next]_vars => SerialInv'
  BY SerialStep
<1> QED
  BY <1>1, <1>2, <1>3, <1>4, TypeCorrect, ClaimsAreKept, PTL
  DEF Spec, DualAuthorized, Dual!Spec, Dual!vars


\* A commit of the only handler, seen from the row.
LEMMA SerialCommit ==
    ASSUME TypeOK, SerialInv, NEW s \in Sessions, CommitApproval(s)
    PROVE  LET k == session[s]
               row == reveal_requests[k.req]
               own == Approved(row, k.by)
           IN  /\ k.req \in ReqIds
               /\ row \in Rows /\ row.status = "PENDING"
               /\ k.by \in Claims
               /\ Recorded(row, k.by) = Nobody
               /\ reveal_requests' = [reveal_requests EXCEPT ![k.req] =
                    IF BothApproved(own) THEN WithStatus(own, "APPROVED")
                                         ELSE own]
<1>1. session[s].req \in ReqIds /\ session[s].by \in Claims
  BY ApprovalWrites
<1>2. reveal_requests[session[s].req] \in Rows
  BY <1>1 DEF TypeOK
<1>3. Fresh(s)
  BY DEF SerialInv
<1> QED
  BY <1>1, <1>2, <1>3 DEF Fresh, CommitApproval, Resolved

\* One after the other, the approval that completes the pair decides the
\* request: none that both roles have approved is left pending.
THEOREM SerialApprovalsDecide ==
    ASSUME OneHandler
    PROVE  Spec => []BothApprovalsDecide
<1>1. Init => SerialInv /\ BothApprovalsDecide
  BY DEF Init, SerialInv, Fresh, Idle, BothApprovalsDecide, BothApproved,
         NoRow, Row
<1>2. TypeOK /\ SerialInv /\ BothApprovalsDecide /\ [Next]_vars
        => BothApprovalsDecide'
  <2> SUFFICES ASSUME TypeOK, SerialInv, BothApprovalsDecide, [Next]_vars,
                      NEW q \in ReqIds, BothApproved(reveal_requests'[q]),
                      reveal_requests'[q].status = "PENDING"
               PROVE  FALSE
    BY DEF BothApprovalsDecide, BothApproved
  <2>1. reveal_requests'[q] # reveal_requests[q]
    BY DEF BothApprovalsDecide
  <2>2. ASSUME NEW t, reveal_requests'[q] = Row(t, Nobody, Nobody, "PENDING")
        PROVE  FALSE
    BY <2>2 DEF BothApproved, Row
  <2>3. reveal_requests'[q] # WithStatus(reveal_requests[q], "REJECTED")
    BY DEF WithStatus, Row
  <2>4. PICK s \in Sessions : CommitApproval(s) /\ session[s].req = q
    BY <2>1, <2>2, <2>3, RowWriters
  <2> DEFINE own == Approved(reveal_requests[q], session[s].by)
  <2>5. reveal_requests'[q] =
          IF BothApproved(own) THEN WithStatus(own, "APPROVED") ELSE own
    BY <2>4, SerialCommit DEF TypeOK
  <2>6. CASE BothApproved(own)
    BY <2>5, <2>6 DEF WithStatus, Row
  <2>7. CASE ~BothApproved(own)
    BY <2>5, <2>7
  <2> QED
    BY <2>6, <2>7
<1>3. TypeOK /\ SerialInv /\ [Next]_vars => SerialInv'
  BY SerialStep
<1> QED
  BY <1>1, <1>2, <1>3, TypeCorrect, PTL DEF Spec

\* What the messages of the routes say, which overlapping handlers refute: run
\* one at a time, a decision is final and an approval keeps its approver.
THEOREM SerialDecisionsStay ==
    ASSUME OneHandler
    PROVE  Spec => DecisionIsFinal /\ ApprovalIsKept
<1>1. Init => SerialInv
  BY DEF Init, SerialInv, Fresh, Idle
<1>2. TypeOK /\ SerialInv /\ [Next]_vars => SerialInv'
  BY SerialStep
<1>3. ASSUME TypeOK, SerialInv, [Next]_vars, NEW q \in ReqIds
      PROVE  LET old == reveal_requests[q]
                 new == reveal_requests'[q]
             IN  /\ old.status \in {"APPROVED", "REJECTED"}
                      => new.status = old.status
                 /\ old.admin_approved_by # Nobody
                      => new.admin_approved_by = old.admin_approved_by
                 /\ old.investigator_approved_by # Nobody
                      => new.investigator_approved_by
                           = old.investigator_approved_by
  <2> DEFINE old == reveal_requests[q]
             new == reveal_requests'[q]
  <2>1. ASSUME NEW s \in Sessions, CommitApproval(s), session[s].req = q
        PROVE  /\ old.status = "PENDING"
               /\ old.admin_approved_by # Nobody
                    => new.admin_approved_by = old.admin_approved_by
               /\ old.investigator_approved_by # Nobody
                    => new.investigator_approved_by
                         = old.investigator_approved_by
    <3> DEFINE own == Approved(old, session[s].by)
    <3>1. /\ old.status = "PENDING"
          /\ Recorded(old, session[s].by) = Nobody
          /\ reveal_requests' = [reveal_requests EXCEPT ![q] =
               IF BothApproved(own) THEN WithStatus(own, "APPROVED") ELSE own]
      BY <1>3, <2>1, SerialCommit
    <3> HIDE DEF own
    <3>3. new = IF BothApproved(own) THEN WithStatus(own, "APPROVED") ELSE own
      BY <1>3, <3>1 DEF TypeOK
    <3>2. /\ new.admin_approved_by = own.admin_approved_by
          /\ new.investigator_approved_by = own.investigator_approved_by
      BY <3>3 DEF WithStatus, Row
    <3> QED
      BY <3>1, <3>2 DEF Approved, Recorded, Row, own
  <2>2. ASSUME NEW s \in Sessions, CommitRejection(s), session[s].req = q
        PROVE  /\ old.status = "PENDING"
               /\ new = WithStatus(old, "REJECTED")
    <3>1. session[s].pc = "reject" /\ Fresh(s)
      BY <1>3, <2>2 DEF SerialInv, CommitRejection
    <3>2. new = WithStatus(old, "REJECTED")
      BY <1>3, <2>2 DEF CommitRejection, Rejected, TypeOK
    <3> QED
      BY <2>2, <3>1, <3>2 DEF Fresh
  <2>3. ASSUME old = NoRow
        PROVE  /\ old.status \notin {"APPROVED", "REJECTED"}
               /\ old.admin_approved_by = Nobody
               /\ old.investigator_approved_by = Nobody
    BY <2>3 DEF NoRow, Row
  <2>4. \/ new = old \/ old = NoRow
        \/ \E s \in Sessions : CommitApproval(s) /\ session[s].req = q
        \/ \E s \in Sessions : CommitRejection(s) /\ session[s].req = q
    <3>1. ASSUME NEW s \in Sessions, NEW t \in Callers,
                 CreateRevealRequest(s, q, t)
          PROVE  old = NoRow
      BY <3>1 DEF CreateRevealRequest
    <3>2. ASSUME NEW s \in Sessions, NEW t \in Callers, NEW p \in ReqIds,
                 p # q, CreateRevealRequest(s, p, t)
          PROVE  new = old
      BY <1>3, <3>2 DEF CreateRevealRequest, TypeOK
    <3>3. ASSUME NEW s \in Sessions,
                 \/ CommitApproval(s) /\ session[s].req # q
                 \/ CommitRejection(s) /\ session[s].req # q
          PROVE  new = old
      BY <1>3, <3>3 DEF CommitApproval, CommitRejection, TypeOK
    <3> QED
      BY <1>3, <3>1, <3>2, <3>3
      DEF Next, vars, IssueToken, UpdateUserRole, ApproveRevealRequest,
          RejectRevealRequest, Audit, Fail, GetRevealRequestStatus
  <2>5. WithStatus(old, "REJECTED").admin_approved_by = old.admin_approved_by
    BY DEF WithStatus, Row
  <2>6. WithStatus(old, "REJECTED").investigator_approved_by
          = old.investigator_approved_by
    BY DEF WithStatus, Row
  <2> QED
    BY <2>1, <2>2, <2>3, <2>4, <2>5, <2>6
<1>4. TypeOK /\ SerialInv /\ [Next]_vars =>
        /\ [\A q \in ReqIds :
              reveal_requests[q].status \in {"APPROVED", "REJECTED"}
                => reveal_requests'[q].status = reveal_requests[q].status]_vars
        /\ [\A q \in ReqIds :
              LET old == reveal_requests[q]
                  new == reveal_requests'[q]
              IN  /\ old.admin_approved_by # Nobody
                       => new.admin_approved_by = old.admin_approved_by
                  /\ old.investigator_approved_by # Nobody
                       => new.investigator_approved_by
                            = old.investigator_approved_by]_vars
  BY <1>3
<1> QED
  BY <1>1, <1>2, <1>4, TypeCorrect, PTL
  DEF Spec, DecisionIsFinal, ApprovalIsKept
=============================================================================
