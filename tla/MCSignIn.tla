------------------------------- MODULE MCSignIn -------------------------------
(***************************************************************************)
(* The instance of SignIn for TLC: two handlers, a lock after two wrong    *)
(* passwords, one code, so that two issues of it differ in the time left   *)
(* only, and one that is never issued and always accepted.                 *)
(***************************************************************************)
EXTENDS SignIn

=============================================================================
