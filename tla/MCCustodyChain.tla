--------------------------- MODULE MCCustodyChain ---------------------------
(***************************************************************************)
(* Instances of CustodyChain for TLC: three requests of which two share a  *)
(* case while the third also has one of its own.                           *)
(***************************************************************************)
EXTENDS CustodySerial, TLC

CONSTANTS c1, c2, r1, r2, r3

\* r1 and r2 append to c1, r3 to either case: c2 has one writer.
SharedCases == (r1 :> {c1}) @@ (r2 :> {c1}) @@ (r3 :> {c1, c2})

\* Two requests of the same case.
TwoOnOneCase == (r1 :> {c1}) @@ (r2 :> {c1})

=============================================================================
