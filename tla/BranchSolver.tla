----------------------------- MODULE BranchSolver -----------------------------
(***************************************************************************)
(* What solving an execution at a branch promises: an input for which the  *)
(* path is the same up to the branch and takes its other direction, and    *)
(* which keeps every MPI constraint the execution itself kept; or the      *)
(* answer that no input at all does this.  The execution is not changed.   *)
(***************************************************************************)
EXTENDS Constraints

CONSTANT Executions

VARIABLES
    ex,         \* the execution solved
    branch_idx, \* the constraint asked for last
    asked,      \* a call is under way
    success, input

vars == <<ex, branch_idx, asked, success, input>>

Forces(a, k) ==
    /\ \A i \in 1..(k - 1) : Satisfies(a, ex.constraints[i])
    /\ ~Satisfies(a, ex.constraints[k])

Kept == {c \in GenerateConstraintsMPI(ex) : Satisfies(ex.inputs, c)}

Init ==
    /\ ex \in Executions /\ asked = FALSE
    /\ branch_idx = 0 /\ success = FALSE /\ input = ex.inputs

Ask ==
    /\ ~asked /\ asked' = TRUE
    /\ branch_idx' \in DOMAIN ex.constraints
    /\ UNCHANGED <<ex, success, input>>

Found ==
    /\ asked /\ asked' = FALSE /\ success' = TRUE
    /\ input' \in [Vars -> Values]
    /\ Forces(input', branch_idx)
    /\ \A c \in Kept : Satisfies(input', c)
    /\ UNCHANGED <<ex, branch_idx>>

\* The input of the last success stays.
None ==
    /\ asked /\ asked' = FALSE /\ success' = FALSE
    /\ \A a \in [Vars -> Values] :
          Forces(a, branch_idx) =>
             \E c \in GenerateConstraintsMPI(ex) : ~Satisfies(a, c)
    /\ UNCHANGED <<ex, branch_idx, input>>

Next == Ask \/ Found \/ None

Spec == Init /\ [][Next]_vars

=============================================================================
