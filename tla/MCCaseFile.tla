------------------------------ MODULE MCCaseFile ------------------------------
(***************************************************************************)
(* The instance of CaseFile for TLC: two handlers, one case, one file.     *)
(***************************************************************************)
EXTENDS CaseFile, TLC

CONSTANTS h1, h2

Symmetries == Permutations({h1, h2})

=============================================================================
