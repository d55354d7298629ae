---------------------------- MODULE RevealRequest ----------------------------
(***************************************************************************)
(* The dual-authorization identity reveal: api/secure_routes.py over the   *)
(* table reveal_requests, with the custody record and the audit events     *)
(* that its handlers write, the JSON web tokens that carry the caller's    *)
(* role, and the role changes of api/auth_routes.py.                       *)
(*                                                                         *)
(* A handler runs in a session of its own.  It loads the row, decides on   *)
(* what it loaded (Approve..., Reject...), and commits an UPDATE of the    *)
(* columns it changed (Commit...); other sessions may commit in between.   *)
(* The audit event is a second transaction (Audit).  A handler may fail,   *)
(* or the server stop, before each of the two (Fail).                      *)
(***************************************************************************)
EXTENDS Naturals, Sequences, FiniteSets

CONSTANTS
    ReqIds,         \* ids of reveal requests
    Users,          \* e-mail addresses
    Sessions,       \* concurrent handler invocations
    InitialRole,    \* the role of each user when the system starts
    RoleChanges,    \* the <<email, role>> changes that administrators make
    HeaderClaims,   \* the <<email, role>> claims that need no token
    Nobody          \* the value of an approver column that is NULL

Roles == {"ADMINISTRATOR", "INVESTIGATOR", "VIEWER"}

ASSUME RevealConstants ==
    /\ InitialRole \in [Users -> Roles]
    /\ RoleChanges \subseteq Users \X Roles
    /\ HeaderClaims \subseteq Users \X Roles
    /\ Nobody \notin Users
    /\ IsFiniteSet(Sessions)

VARIABLES
    reveal_requests,    \* the table; status "none" where no row exists
    custody_log,        \* the SENSITIVE_INFORMATION_REVEALED records
    audit_log,          \* the audit events about reveal requests
    user_role,          \* users.role
    tokens,             \* <<email, role>> claims of the tokens handed out
    session,            \* session[s] = what handler s has loaded and decided
    disclosed           \* requests whose real_name has been returned

vars == <<reveal_requests, custody_log, audit_log, user_role, tokens,
          session, disclosed>>

-----------------------------------------------------------------------------
Row(requester, admin, investigator, st) ==
    [requested_by |-> requester, admin_approved_by |-> admin,
     investigator_approved_by |-> investigator, status |-> st]

NoRow == Row(Nobody, Nobody, Nobody, "none")

WithStatus(row, st) ==
    Row(row.requested_by, row.admin_approved_by, row.investigator_approved_by,
        st)

\* Both approval columns are set (the Boolean and its approver change together).
BothApproved(row) ==
    row.admin_approved_by # Nobody /\ row.investigator_approved_by # Nobody

Idle == [pc |-> "idle"]

\* get_current_user: the claims of a token, or those of the development headers
\* and of the default identity.  users.role is not consulted.
Callers == tokens \cup HeaderClaims

\* require_role([ADMINISTRATOR, INVESTIGATOR]).
Authorised == {t \in Callers : t[2] \in {"ADMINISTRATOR", "INVESTIGATOR"}}

Init ==
    /\ reveal_requests = [q \in ReqIds |-> NoRow]
    /\ custody_log = <<>>
    /\ audit_log = {}
    /\ user_role = InitialRole
    /\ tokens = {}
    /\ session = [s \in Sessions |-> Idle]
    /\ disclosed = {}

-----------------------------------------------------------------------------
\* Sign-in: the token carries the role that the user has now.
IssueToken(u) ==
    /\ tokens' = tokens \cup {<<u, user_role[u]>>}
    /\ UNCHANGED <<reveal_requests, custody_log, audit_log, user_role,
                   session, disclosed>>

\* update_user_role, or provision_user for a user who exists: the tokens handed
\* out stay as they are.
UpdateUserRole(u, role) ==
    /\ \E t \in Callers : t[2] = "ADMINISTRATOR"
    /\ <<u, role>> \in RoleChanges
    /\ user_role' = [user_role EXCEPT ![u] = role]
    /\ UNCHANGED <<reveal_requests, custody_log, audit_log, tokens,
                   session, disclosed>>

\* create_reveal_request: the INSERT is committed before the audit event.
CreateRevealRequest(s, q, t) ==
    /\ session[s] = Idle
    /\ t \in Authorised
    /\ reveal_requests[q] = NoRow
    /\ reveal_requests' = [reveal_requests EXCEPT ![q] =
            Row(t[1], Nobody, Nobody, "PENDING")]
    /\ session' = [session EXCEPT ![s] =
            [pc |-> "audit", event |-> <<"SUBMIT", q, t[1], t[2]>>]]
    /\ UNCHANGED <<custody_log, audit_log, user_role, tokens, disclosed>>

\* Mutant of Approved: an approval fills the first column that is empty.
ApprovedFirstFree(row, t) ==
    IF row.admin_approved_by = Nobody
    THEN Row(row.requested_by, t[1], row.investigator_approved_by, row.status)
    ELSE Row(row.requested_by, row.admin_approved_by, t[1], row.status)

\* The row as the approving handler holds it in memory after lines 98-110.
Approved(row, t) ==
    IF t[2] = "ADMINISTRATOR"
    THEN Row(row.requested_by, t[1], row.investigator_approved_by, row.status)
    ELSE Row(row.requested_by, row.admin_approved_by, t[1], row.status)

\* The approval of this role that the loaded row already has.
Recorded(row, t) ==
    IF t[2] = "ADMINISTRATOR" THEN row.admin_approved_by
                              ELSE row.investigator_approved_by

\* Mutant of MayApprove: without lines 90-94.
MayApproveOwn(row, t) == row.status = "PENDING" /\ Recorded(row, t) = Nobody

\* The checks of approve_reveal_request, all of them on the loaded row.
MayApprove(row, t) ==
    /\ row.status = "PENDING"
    /\ t[1] # row.requested_by
    /\ Recorded(row, t) = Nobody

\* approve_reveal_request up to its commit.
ApproveRevealRequest(s, q, t) ==
    LET row == reveal_requests[q] IN
    /\ session[s] = Idle
    /\ t \in Authorised
    /\ MayApprove(row, t)
    /\ session' = [session EXCEPT ![s] =
            [pc |-> "approve", req |-> q, by |-> t, row |-> Approved(row, t)]]
    /\ UNCHANGED <<reveal_requests, custody_log, audit_log, user_role, tokens,
                   disclosed>>

\* The row after the UPDATE of the approver's own columns and, if the row in
\* memory has both approvals, of the status.
Resolved(k) ==
    LET own == Approved(reveal_requests[k.req], k.by) IN
    IF BothApproved(k.row) THEN WithStatus(own, "APPROVED") ELSE own

\* Mutant of Recording: log_custody_action is called for every approval.
RecordingEach(k) ==
    Append(custody_log,
       [req |-> k.req,
        admin_approver |-> k.row.admin_approved_by,
        investigator_approver |-> k.row.investigator_approved_by])

\* The custody log after the disclosure, if there is one, is recorded.
Recording(k) ==
    IF BothApproved(k.row)
    THEN Append(custody_log,
           [req |-> k.req,
            admin_approver |-> k.row.admin_approved_by,
            investigator_approver |-> k.row.investigator_approved_by])
    ELSE custody_log

\* The row and the custody record are in one commit: the one inside
\* log_custody_action (line 117), or the one of line 133.
CommitApproval(s) ==
    LET k == session[s] IN
    /\ k.pc = "approve"
    /\ reveal_requests' = [reveal_requests EXCEPT ![k.req] = Resolved(k)]
    /\ custody_log' = Recording(k)
    /\ session' = [session EXCEPT ![s] =
            [pc |-> "audit", event |-> <<"APPROVE", k.req, k.by[1], k.by[2]>>]]
    /\ UNCHANGED <<audit_log, user_role, tokens, disclosed>>

\* reject_reveal_request up to its commit.  The requester may reject.
RejectRevealRequest(s, q, t) ==
    /\ session[s] = Idle
    /\ t \in Authorised
    /\ reveal_requests[q].status = "PENDING"
    /\ session' = [session EXCEPT ![s] = [pc |-> "reject", req |-> q, by |-> t]]
    /\ UNCHANGED <<reveal_requests, custody_log, audit_log, user_role, tokens,
                   disclosed>>

\* The UPDATE of the status; the approval columns stay.
Rejected(row) == WithStatus(row, "REJECTED")

CommitRejection(s) ==
    LET k == session[s] IN
    /\ k.pc = "reject"
    /\ reveal_requests' = [reveal_requests EXCEPT ![k.req] =
                            Rejected(reveal_requests[k.req])]
    /\ session' = [session EXCEPT ![s] =
            [pc |-> "audit", event |-> <<"REJECT", k.req, k.by[1], k.by[2]>>]]
    /\ UNCHANGED <<custody_log, audit_log, user_role, tokens, disclosed>>

\* log_audit_event: its own transaction, after the one of the handler.
Audit(s) ==
    /\ session[s].pc = "audit"
    /\ audit_log' = audit_log \cup {session[s].event}
    /\ session' = [session EXCEPT ![s] = Idle]
    /\ UNCHANGED <<reveal_requests, custody_log, user_role, tokens, disclosed>>

\* Mutant of GetRevealRequestStatus: the name is shown unless REJECTED.
GetUnlessRejected(q, t) ==
    /\ t \in Authorised
    /\ reveal_requests[q].status \in {"PENDING", "APPROVED"}
    /\ disclosed' = disclosed \cup {q}
    /\ UNCHANGED <<reveal_requests, custody_log, audit_log, user_role, tokens,
                   session>>

\* get_reveal_request_status: real_name is in the response iff APPROVED.
GetRevealRequestStatus(q, t) ==
    /\ t \in Authorised
    /\ reveal_requests[q].status = "APPROVED"
    /\ disclosed' = disclosed \cup {q}
    /\ UNCHANGED <<reveal_requests, custody_log, audit_log, user_role, tokens,
                   session>>

\* Mutant of Fail: the audit event is written in a finally block.
FailAudited(s) ==
    /\ session[s] # Idle
    /\ session' = [session EXCEPT ![s] = Idle]
    /\ audit_log' = IF session[s].pc = "approve"
                    THEN audit_log \cup {<<"APPROVE", session[s].req,
                                     session[s].by[1], session[s].by[2]>>}
                    ELSE audit_log
    /\ UNCHANGED <<reveal_requests, custody_log, user_role, tokens, disclosed>>

\* The handler fails (a failed commit is rolled back) or the server stops.
Fail(s) ==
    /\ session[s] # Idle
    /\ session' = [session EXCEPT ![s] = Idle]
    /\ UNCHANGED <<reveal_requests, custody_log, audit_log, user_role, tokens,
                   disclosed>>

Next ==
    \/ \E u \in Users : IssueToken(u)
    \/ \E u \in Users, role \in Roles : UpdateUserRole(u, role)
    \/ \E s \in Sessions, q \in ReqIds, t \in Callers :
         \/ CreateRevealRequest(s, q, t)
         \/ ApproveRevealRequest(s, q, t)
         \/ RejectRevealRequest(s, q, t)
    \/ \E s \in Sessions :
         CommitApproval(s) \/ CommitRejection(s) \/ Audit(s) \/ Fail(s)
    \/ \E q \in ReqIds, t \in Callers : GetRevealRequestStatus(q, t)

Spec == Init /\ [][Next]_vars

-----------------------------------------------------------------------------
Statuses == {"none", "PENDING", "APPROVED", "REJECTED"}

Rows == [requested_by : Users \cup {Nobody},
         admin_approved_by : Users \cup {Nobody},
         investigator_approved_by : Users \cup {Nobody},
         status : Statuses]

Claims == Users \X Roles

Events == {"SUBMIT", "APPROVE", "REJECT"} \X ReqIds \X Users \X Roles

SessionStates ==
    {Idle}
    \cup [pc : {"approve"}, req : ReqIds, by : Claims, row : Rows]
    \cup [pc : {"reject"}, req : ReqIds, by : Claims]
    \cup [pc : {"audit"}, event : Events]

Disclosures == [req : ReqIds, admin_approver : Users,
                investigator_approver : Users]

\* Type invariant of the tables, the tokens and the handlers.
TypeOK ==
    /\ reveal_requests \in [ReqIds -> Rows]
    /\ custody_log \in Seq(Disclosures)
    /\ audit_log \subseteq Events
    /\ user_role \in [Users -> Roles]
    /\ tokens \subseteq Claims
    /\ session \in [Sessions -> SessionStates]
    /\ disclosed \subseteq ReqIds

\* The custody records of request q.
RevealsOf(q) == {i \in DOMAIN custody_log : custody_log[i].req = q}

\* Whoever interleaves with whom, the requester is never one of the approvers:
\* neither of the row nor of a custody record (the check of line 90 is on a
\* column that nothing overwrites).
NoSelfApproval ==
    \A q \in ReqIds :
        LET row == reveal_requests[q] IN
        row.status # "none" =>
            /\ row.requested_by # row.admin_approved_by
            /\ row.requested_by # row.investigator_approved_by
            /\ \A i \in RevealsOf(q) :
                 row.requested_by \notin {custody_log[i].admin_approver,
                                          custody_log[i].investigator_approver}

\* A request that reads APPROVED has both approvals in its row and a custody
\* record of the reveal, even if handlers fail half-way: the status and the
\* custody record are in one commit.
ApprovedIsOnRecord ==
    \A q \in ReqIds :
        reveal_requests[q].status = "APPROVED" =>
            BothApproved(reveal_requests[q]) /\ RevealsOf(q) # {}

\* No identity was ever shown without a custody record of the reveal.
DisclosedIsOnRecord == \A q \in disclosed : RevealsOf(q) # {}

\* The handlers about to record the reveal of request q: their row in memory
\* has both approvals.
Completing(q) ==
    {s \in Sessions : /\ session[s].pc = "approve"
                      /\ session[s].req = q
                      /\ BothApproved(session[s].row)}

\* Overlapping approvals may each find the pair complete (line 113) and record
\* the reveal once more, but only those that were on their way together: a
\* request is never recorded, or about to be, more often than there are
\* handlers, however often it is approved, rejected and approved again.
RevealsBounded ==
    \A q \in ReqIds :
        Cardinality(RevealsOf(q)) + Cardinality(Completing(q)) <= Cardinality(Sessions)

\* A custody record of a reveal is there only for a request that both roles
\* have approved, and it is never the trace of a request still pending.
RecordedIsDecided ==
    \A q \in ReqIds :
        RevealsOf(q) # {} =>
            /\ BothApproved(reveal_requests[q])
            /\ reveal_requests[q].status \in {"APPROVED", "REJECTED"}

\* What an audit event reports is in the table.
Happened(e) ==
    LET row == reveal_requests[e[2]] IN
    /\ e[1] = "SUBMIT" => row.status # "none" /\ row.requested_by = e[3]
    /\ e[1] = "APPROVE" => Recorded(row, <<e[3], e[4]>>) # Nobody
    /\ e[1] = "REJECT" => row.status \in {"APPROVED", "REJECTED"}

\* The audit log never reports what did not happen: an event about a request
\* stands for a change that is in the table, although handlers fail between
\* their two transactions and others overwrite the row (the events come after
\* the commit: lines 52, 136 and 180).
AuditedHappened == \A e \in audit_log : Happened(e)

\* A decided request is never pending again, an approval never withdrawn:
\* a late commit replaces a decision, but cannot undo one.
NothingUndone ==
    [][\A q \in ReqIds :
         LET old == reveal_requests[q]
             new == reveal_requests'[q]
         IN  /\ old.status \in {"APPROVED", "REJECTED"}
                  => new.status \in {"APPROVED", "REJECTED"}
             /\ old.admin_approved_by # Nobody
                  => new.admin_approved_by # Nobody
             /\ old.investigator_approved_by # Nobody
                  => new.investigator_approved_by # Nobody]_vars

-----------------------------------------------------------------------------
\* Statements of the messages to the callers, which overlapping handlers, or
\* the last one a role change, refute.

\* "Request is already resolved with status" (lines 84 and 165): a decision
\* is final.
DecisionIsFinal ==
    [][\A q \in ReqIds :
         reveal_requests[q].status \in {"APPROVED", "REJECTED"}
           => reveal_requests'[q].status = reveal_requests[q].status]_vars

\* "Awaiting independent approvals from both an ADMINISTRATOR and an
\* INVESTIGATOR" (line 70): a request that has both awaits nothing.
BothApprovalsDecide ==
    \A q \in ReqIds :
        BothApproved(reveal_requests[q])
            => reveal_requests[q].status # "PENDING"

\* "Administrator approval has already been recorded for this request" (lines
\* 101 and 107): an approval that is recorded keeps its approver.
ApprovalIsKept ==
    [][\A q \in ReqIds :
         LET old == reveal_requests[q]
             new == reveal_requests'[q]
         IN  /\ old.admin_approved_by # Nobody
                  => new.admin_approved_by = old.admin_approved_by
             /\ old.investigator_approved_by # Nobody
                  => new.investigator_approved_by
                       = old.investigator_approved_by]_vars

\* "Requires approvals from both an ADMINISTRATOR and a distinct INVESTIGATOR"
\* (models.py line 245): two different people approve.
DistinctApprovers ==
    \A q \in ReqIds :
        BothApproved(reveal_requests[q]) =>
            reveal_requests[q].admin_approved_by
                # reveal_requests[q].investigator_approved_by

=============================================================================
