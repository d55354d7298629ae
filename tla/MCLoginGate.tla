----------------------------- MODULE MCLoginGate -----------------------------
(***************************************************************************)
(* Instances of the route /login for TLC.                                  *)
(***************************************************************************)
EXTENDS LoginGate, TLC

Symmetry == Permutations(Requests) \cup Permutations(Ips)

=============================================================================
