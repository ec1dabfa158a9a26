-------------------------------- MODULE Solver --------------------------------
(***************************************************************************)
(* Search::SolveAtBranch with YicesSolver: a constraint of a retained      *)
(* execution is negated in place, the MPI constraints are added, and only  *)
(* the slice of constraints connected to the negated one by shared         *)
(* variables is solved; all other variables keep their values.  Yices      *)
(* itself is taken to be sound and complete for its linear constraints.    *)
(* The redirect of the focus that may follow is in module Launch.          *)
(***************************************************************************)
EXTENDS Constraints

CONSTANTS
    Executions,     \* executions considered
    Earlier,        \* executions solved earlier, whose constraints are cached
    MaxCalls        \* bound: calls of SolveAtBranch

ASSUME SolverAssumption ==
    /\ \A e \in Executions \cup Earlier : Execution(e)
    /\ MaxCalls \in Nat

VARIABLES
    pc,
    ex, branch_idx, success, input,
    execution_tag_,     \* 1 for ex, 0 for the execution before it
    constraintsMPI,
    constraints,        \* the argument of IncrementalSolve, as a set
    depends,            \* variables that share a constraint
    dependent_vars,
    Q,                  \* those of them not yet visited, in any order
    calls

vars == <<pc, ex, branch_idx, success, input, execution_tag_, constraintsMPI,
          constraints, depends, dependent_vars, Q, calls>>

Target == ex.constraints[branch_idx]

\* Negate on the execution's own constraint, which its path points to.
Negated(e, k) ==
    [e EXCEPT !.constraints = [e.constraints EXCEPT ![k] = Negation(e.constraints[k])]]

Init ==
    /\ pc = "idle" /\ calls = 0
    /\ ex \in Executions /\ branch_idx = 0
    /\ success = FALSE /\ input = ex.inputs
    /\ execution_tag_ = 0
    /\ \E e \in Earlier : constraintsMPI = GenerateConstraintsMPI(e)
    /\ constraints = {} /\ depends = [v \in Vars |-> {}]
    /\ dependent_vars = {} /\ Q = {}

\* SymbolicPred::Equal with an earlier constraint of the path.
Repeats(k) == \E i \in 1..(k - 1) : ex.constraints[k] = ex.constraints[i]

SolveAtBranch(k) ==
    /\ pc = "idle" /\ calls < MaxCalls
    /\ calls' = calls + 1
    /\ branch_idx' = k
    /\ pc' = IF Repeats(k) THEN "unsat" ELSE "generate"
    /\ UNCHANGED <<ex, success, input, execution_tag_, constraintsMPI,
                   constraints, depends, dependent_vars, Q>>

\* The early return of SolveAtBranch.
ReturnRepeated ==
    /\ pc = "unsat" /\ pc' = "idle" /\ success' = FALSE
    /\ UNCHANGED <<ex, branch_idx, input, execution_tag_, constraintsMPI,
                   constraints, depends, dependent_vars, Q, calls>>

\* The MPI constraints are those of another execution unless its tag is the
\* cached one.
GenerateConstraints ==
    /\ pc = "generate" /\ pc' = "graph"
    /\ ex' = Negated(ex, branch_idx)
    /\ execution_tag_' = 1
    /\ constraintsMPI' = IF execution_tag_ = 1 THEN constraintsMPI
                         ELSE GenerateConstraintsMPI(ex)
    /\ UNCHANGED <<branch_idx, success, input, constraints, depends,
                   dependent_vars, Q, calls>>

Sharing(v, C) == UNION {c.vars : c \in {c \in C : v \in c.vars}}
Prefix == {ex.constraints[i] : i \in 1..branch_idx}

\* Mutated form: the graph is built before the MPI constraints are added.
BuildGraphOfPath ==
    /\ pc = "graph" /\ pc' = "visit"
    /\ constraints' = Prefix \cup constraintsMPI
    /\ depends' = [v \in Vars |-> Sharing(v, Prefix)]
    /\ dependent_vars' = Target.vars /\ Q' = Target.vars
    /\ UNCHANGED <<ex, branch_idx, success, input, execution_tag_,
                   constraintsMPI, calls>>

BuildGraph ==
    /\ pc = "graph" /\ pc' = "visit"
    /\ constraints' = Prefix \cup constraintsMPI
    /\ depends' = [v \in Vars |-> Sharing(v, constraints')]
    /\ dependent_vars' = Target.vars /\ Q' = Target.vars
    /\ UNCHANGED <<ex, branch_idx, success, input, execution_tag_,
                   constraintsMPI, calls>>

\* Mutated form: a variable seen before is queued again.
VisitAgain(i) ==
    /\ pc = "visit" /\ i \in Q
    /\ Q' = (Q \ {i}) \cup depends[i]
    /\ dependent_vars' = dependent_vars \cup depends[i]
    /\ UNCHANGED <<pc, ex, branch_idx, success, input, execution_tag_,
                   constraintsMPI, constraints, depends, calls>>

Visit(i) ==
    /\ pc = "visit" /\ i \in Q
    /\ Q' = (Q \ {i}) \cup (depends[i] \ dependent_vars)
    /\ dependent_vars' = dependent_vars \cup depends[i]
    /\ UNCHANGED <<pc, ex, branch_idx, success, input, execution_tag_,
                   constraintsMPI, constraints, depends, calls>>

\* The dependent constraints, and what Yices may answer for them.
Slice == {c \in constraints : DependsOn(c, dependent_vars)}
Solutions ==
    {soln \in [dependent_vars -> Values] : \A c \in Slice : Satisfies(soln, c)}

\* Mutated form: the variables outside the slice start from zero.
MergedFresh(soln) == [v \in Vars |-> IF v \in dependent_vars THEN soln[v] ELSE 0]

\* The solution merged with the execution's inputs.
Merged(soln) ==
    [v \in Vars |-> IF v \in dependent_vars THEN soln[v] ELSE ex.inputs[v]]

\* IncrementalSolve succeeds; the constraint is negated back.
Solved ==
    /\ pc = "visit" /\ Q = {} /\ pc' = "idle"
    /\ \E soln \in Solutions : input' = Merged(soln)
    /\ success' = TRUE
    /\ ex' = Negated(ex, branch_idx)
    /\ UNCHANGED <<branch_idx, execution_tag_, constraintsMPI, constraints,
                   depends, dependent_vars, Q, calls>>

\* Mutated form: an unsolvable constraint stays negated.
UnsolvedNegated ==
    /\ pc = "visit" /\ Q = {} /\ pc' = "idle"
    /\ Solutions = {} /\ success' = FALSE
    /\ UNCHANGED <<ex, branch_idx, input, execution_tag_, constraintsMPI,
                   constraints, depends, dependent_vars, Q, calls>>

Unsolved ==
    /\ pc = "visit" /\ Q = {} /\ pc' = "idle"
    /\ Solutions = {} /\ success' = FALSE
    /\ ex' = Negated(ex, branch_idx)
    /\ UNCHANGED <<branch_idx, input, execution_tag_, constraintsMPI,
                   constraints, depends, dependent_vars, Q, calls>>

Step ==
    \/ ReturnRepeated \/ GenerateConstraints \/ BuildGraph
    \/ \E i \in Q : Visit(i)
    \/ Solved \/ Unsolved

Next == Step \/ \E k \in DOMAIN ex.constraints : SolveAtBranch(k)

\* A call runs on once made.
Spec == Init /\ [][Next]_vars /\ WF_vars(Step)

-----------------------------------------------------------------------------
(* Properties.                                                             *)

\* When the search of the graph is over, no constraint lies across the slice:
\* Yices knows every variable of the constraints it is given, and the others
\* do not see the variables it changes.
SliceClosed ==
    pc = "visit" /\ Q = {} =>
        \A c \in constraints :
            c.vars \subseteq dependent_vars \/ c.vars \cap dependent_vars = {}

\* Sets of variables that no constraint of the last call links to others.
Separate(S) ==
    \A c \in constraints : c.vars \subseteq S \/ c.vars \cap S = {}

\* A variable that no chain of constraints connects to the branch keeps its
\* value: the search changes the part of the input it has to and no more.
UnconnectedKept ==
    pc = "idle" /\ success =>
        \A S \in SUBSET Vars :
            Target.vars \subseteq S /\ Separate(S) =>
                \A v \in Vars \ S : input[v] = ex.inputs[v]

\* The execution as it was before the negation.
Restored == IF pc \in {"graph", "visit"} THEN Negated(ex, branch_idx) ELSE ex

Abstract == INSTANCE BranchSolver WITH ex <- Restored, asked <- pc # "idle"

\* Solving the slice answers for the whole path: a success keeps the prefix,
\* turns the branch and keeps the MPI constraints the execution kept; a
\* failure means that no input does; the execution is left as it was.
AnswersForPath == Abstract!Spec

\* Every call returns, though the graph on the variables has cycles.
Returns == pc # "idle" ~> pc = "idle"

=============================================================================
