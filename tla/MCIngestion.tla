------------------------------ MODULE MCIngestion ------------------------------
(***************************************************************************)
(* The instance of Ingestion for TLC: two handlers, one case, two names.   *)
(***************************************************************************)
EXTENDS Ingestion, TLC

CONSTANTS h1, h2, n1, n2

\* Two names, or at most one and an alert of each sort; n1 is the first, by symmetry.
SmallContents ==
    {content \in Content(2, 1) :
        /\ content.people = <<>> \/ content.people[1] = n1
        /\ Len(content.people) = 2 => content.near + content.flagged = 0}

Symmetries == Permutations({h1, h2})

=============================================================================
