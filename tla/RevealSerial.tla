---------------------------- MODULE RevealSerial ----------------------------
(***************************************************************************)
(* The reveal workflow when the handlers run one after the other: the      *)
(* situation that tests/test_api_endpoints.py exercises.  Handlers still   *)
(* fail between their steps, and roles change under the tokens.            *)
(***************************************************************************)
EXTENDS RevealRequest

\* No two handlers run at once.
OneHandler == \A r, s \in Sessions : r = s

\* What a row says, as a requester, a set of approvals and a decision.
Approvals(row) ==
    {<<"ADMINISTRATOR", u>> : u \in {row.admin_approved_by} \ {Nobody}}
    \cup
    {<<"INVESTIGATOR", u>> : u \in {row.investigator_approved_by} \ {Nobody}}

Dual ==
    INSTANCE DualAuthorization
        WITH request <- [q \in ReqIds |->
                           [by |-> reveal_requests[q].requested_by,
                            approvals |-> Approvals(reveal_requests[q]),
                            status |-> reveal_requests[q].status]],
             role <- user_role,
             entrusted <- Callers,
             InitialClaims <- HeaderClaims

\* Under OneHandler the routes implement the dual authorization that their
\* messages describe: one approval per role, resolved in the very step that
\* completes the pair, and final once resolved.  "Distinct" (models.py line
\* 245, secure_routes.py line 73) are the approvers unless one person carries
\* tokens of both roles, which takes a role change between two sign-ins.
DualAuthorized == Dual!Spec

=============================================================================
