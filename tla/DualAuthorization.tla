-------------------------- MODULE DualAuthorization --------------------------
(***************************************************************************)
(* What the dual-authorization reveal promises, without sessions, rows and *)
(* commits: a request is pending until one administrator and one           *)
(* investigator other than the requester have approved it, or somebody     *)
(* rejects it; an approval is given once per role; a decision is final.    *)
(*                                                                         *)
(* Who acts in a role has signed in while he held it.  The two approvers   *)
(* are distinct people, unless one has signed in under both roles: that is *)
(* what is left of "distinct" when roles change under the tokens.          *)
(***************************************************************************)
CONSTANTS
    ReqIds,         \* ids of reveal requests
    Users,          \* e-mail addresses
    Roles,          \* the roles of users
    InitialRole,    \* the role of each user at first
    InitialClaims,  \* the <<user, role>> claims that need no sign-in
    Nobody          \* the requester of a request that was never submitted

Approvers == {"ADMINISTRATOR", "INVESTIGATOR"}

VARIABLES
    request,        \* request[q] = requester, approvals given, and decision
    role,           \* the role of each user
    entrusted       \* the <<user, role>> claims that were ever handed out

vars == <<request, role, entrusted>>

NotSubmitted == [by |-> Nobody, approvals |-> {}, status |-> "none"]

Init ==
    /\ request = [q \in ReqIds |-> NotSubmitted]
    /\ role = InitialRole
    /\ entrusted = InitialClaims

RolesOf(u) == {r \in Roles : <<u, r>> \in entrusted}

SignIn(u) ==
    /\ entrusted' = entrusted \cup {<<u, role[u]>>}
    /\ UNCHANGED <<request, role>>

Move(u, r) ==
    /\ \E v \in Users : "ADMINISTRATOR" \in RolesOf(v)
    /\ role' = [role EXCEPT ![u] = r]
    /\ UNCHANGED <<request, entrusted>>

Submit(q, u) ==
    /\ RolesOf(u) \cap Approvers # {}
    /\ request[q] = NotSubmitted
    /\ request' = [request EXCEPT ![q] =
                     [by |-> u, approvals |-> {}, status |-> "PENDING"]]
    /\ UNCHANGED <<role, entrusted>>

\* The approval that completes the pair resolves the request in the same step.
Approve(q, u, r) ==
    LET given == request[q].approvals \cup {<<r, u>>}
        complete == \A x \in Approvers : \E a \in given : a[1] = x
    IN  /\ r \in RolesOf(u)
        /\ \A a \in request[q].approvals : a[2] = u => Approvers \subseteq RolesOf(u)
        /\ request[q].status = "PENDING"
        /\ request[q].by # u
        /\ \A a \in request[q].approvals : a[1] # r
        /\ request' = [request EXCEPT ![q] =
                         [by |-> request[q].by, approvals |-> given,
                          status |-> IF complete THEN "APPROVED" ELSE "PENDING"]]
        /\ UNCHANGED <<role, entrusted>>

Reject(q, u) ==
    /\ RolesOf(u) \cap Approvers # {}
    /\ request[q].status = "PENDING"
    /\ request' = [request EXCEPT ![q] =
                     [by |-> request[q].by, approvals |-> request[q].approvals,
                      status |-> "REJECTED"]]
    /\ UNCHANGED <<role, entrusted>>

Next ==
    \/ \E u \in Users : SignIn(u)
    \/ \E u \in Users, r \in Roles : Move(u, r)
    \/ \E q \in ReqIds, u \in Users :
         Submit(q, u) \/ Reject(q, u) \/ \E r \in Approvers : Approve(q, u, r)

Spec == Init /\ [][Next]_vars

=============================================================================
