----------------------------- MODULE MCDualGraph -----------------------------
(***************************************************************************)
(* The instance of DualGraph for TLC: two threads that share two people;   *)
(* a batch that relates them twice, one that names the case, a case with   *)
(* one entity, a call, a file that went to nobody and a visited page, and  *)
(* one whose second artifact is broken.                                    *)
(***************************************************************************)
EXTENDS DualGraph, TLC

CONSTANTS g1, g2, ann, bob

R(s, t, rel) == [source |-> s, target |-> t, relation |-> rel]
A(k, s, t) == [kind |-> k, source |-> s, target |-> t]

MCBatches == {<<R(ann, bob, "CALLED"), R(ann, bob, "MET")>>,
              <<R(ann, CaseNode, "MENTIONED_IN"), R(ann, bob, "CALLED")>>}

MCPayloads == {[entities |-> <<ann>>,
                artifacts |-> <<A("call", ann, bob), A("file", ann, "UNKNOWN"),
                                A("browser_history", bob, CaseNode)>>],
               [entities |-> <<>>,
                artifacts |-> <<A("call", bob, ann), A("broken", ann, ann)>>]}

Symmetries == Permutations({g1, g2})

=============================================================================
