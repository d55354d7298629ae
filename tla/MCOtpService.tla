---------------------------- MODULE MCOtpService ----------------------------
(***************************************************************************)
(* Instances of the one-time codes for TLC.                                *)
(***************************************************************************)
EXTENDS OtpSerial, TLC

Handlers == Permutations(Requests)

=============================================================================
