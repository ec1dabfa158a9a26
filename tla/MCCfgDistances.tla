---------------------------- MODULE MCCfgDistances ----------------------------
(***************************************************************************)
(* Statement 0 is a conditional with branches 1 and 2; branch 3 is the     *)
(* taken one of another, whose test is statement 4 or the callee it        *)
(* enters.  A branch leads to at most one of 0, 3 and 4, and 4 to any two  *)
(* nodes: joins, cycles of statements, loops over a branch and branches    *)
(* without a way out all occur.                                            *)
(***************************************************************************)
EXTENDS CfgDistances

SmallCfgs ==
    {[n \in Nodes |-> CASE n = 0 -> {1, 2} [] n = 4 -> S [] OTHER -> f[n]] :
        f \in [Branches -> {{}, {0}, {3}, {4}}],
        S \in {S \in SUBSET Nodes : Cardinality(S) <= 2}}

NoEdges == {{}}

=============================================================================
