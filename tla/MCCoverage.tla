----------------------------- MODULE MCCoverage -----------------------------
(***************************************************************************)
(* Four branches of two functions whose ids make a cut line read back as   *)
(* an id that is no branch (1, from 12 or 13) or as another branch (3,     *)
(* from 30).                                                               *)
(***************************************************************************)
EXTENDS Coverage

MCBranches == {3, 12, 13, 30}
MCMaxBranch == 30
MCFunction == [b \in 1..30 |-> CASE b \in {3, 12} -> 1
                                 [] b \in {13, 30} -> 2
                                 [] OTHER -> 0]

=============================================================================
