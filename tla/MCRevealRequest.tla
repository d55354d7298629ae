--------------------------- MODULE MCRevealRequest ---------------------------
(***************************************************************************)
(* Instances of RevealRequest for TLC: an investigator who requests, and   *)
(* further staff who approve, reject and read.                             *)
(***************************************************************************)
EXTENDS RevealSerial, TLC

CONSTANTS ann, bob, eve, gus, s1, s2

\* ann and bob investigate, eve and gus administer.
Staff == (ann :> "INVESTIGATOR") @@ (bob :> "INVESTIGATOR")
         @@ (eve :> "ADMINISTRATOR") @@ (gus :> "ADMINISTRATOR")

\* ann and bob investigate, eve administers.
Trio == (ann :> "INVESTIGATOR") @@ (bob :> "INVESTIGATOR")
        @@ (eve :> "ADMINISTRATOR")

\* eve is made an investigator.
EveMoves == {<<eve, "INVESTIGATOR">>}

\* The default identity of a request without credentials is ann's.
AnnIsDefault == {<<ann, "INVESTIGATOR">>}

NoClaims == {}

\* The handlers are interchangeable.
Handlers == Permutations({s1, s2})

=============================================================================
