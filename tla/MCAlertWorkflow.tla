--------------------------- MODULE MCAlertWorkflow ---------------------------
(***************************************************************************)
(* Instances of AlertWorkflow for TLC: two reviewers, two handlers.  Each  *)
(* handler may serve any number of requests, so that while one is stale    *)
(* the other disposes of the alert again and again.                        *)
(***************************************************************************)
EXTENDS AlertWorkflow, TLC

CONSTANTS s1, s2, ann, bob

\* The reviewers are interchangeable, and so are the handlers.
Symmetries == Permutations({ann, bob}) \cup Permutations({s1, s2})

=============================================================================
