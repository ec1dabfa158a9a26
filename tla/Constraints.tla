----------------------------- MODULE Constraints -----------------------------
(***************************************************************************)
(* Path constraints and MPI constraints over the marked variables.  A      *)
(* constraint (SymbolicPred) is its set of variables with the values of    *)
(* these that satisfy it.                                                  *)
(***************************************************************************)
EXTENDS Integers

CONSTANTS
    Vars,       \* marked variables, by position in the input
    Values      \* values within the type limits of a variable

ASSUME ConstraintAssumption == Vars \subseteq Nat /\ Values \subseteq Int

Constraint(c) ==
    /\ c = [vars |-> c.vars, sat |-> c.sat]
    /\ c.vars \subseteq Vars /\ c.sat \subseteq [c.vars -> Values]

Satisfies(a, c) == [v \in c.vars |-> a[v]] \in c.sat

\* SymbolicPred::Negate
Negation(c) == [vars |-> c.vars, sat |-> [c.vars -> Values] \ c.sat]

\* SymbolicPred::DependsOn
DependsOn(c, V) == c.vars \cap V # {}

Same(i, j) ==
    [vars |-> {i, j}, sat |-> {f \in [{i, j} -> Values] : f[i] = f[j]}]
Below(i, j) ==
    [vars |-> {i, j}, sat |-> {f \in [{i, j} -> Values] : f[i] < f[j]}]
AtMost(i, limit) ==
    [vars |-> {i}, sat |-> {f \in [{i} -> Values] : f[i] <= limit}]

Firsts(I) == {i \in I : \A j \in I : i <= j}

\* Every other variable of I equals the first.
AllSame(I) == {Same(j, i) : j \in I \ Firsts(I), i \in Firsts(I)}

\* What is asked of the variables of an execution whatever its path: all
\* world sizes equal, all world ranks equal and below, marked limits kept.
GenerateConstraintsMPI(ex) ==
    AllSame(ex.sizes) \cup AllSame(ex.ranks)
    \cup {Below(r, s) : r \in Firsts(ex.ranks), s \in Firsts(ex.sizes)}
    \cup {AtMost(i, ex.limits[i]) : i \in DOMAIN ex.limits}

\* An execution as SolveAtBranch sees it; limits is a function from some of
\* the variables.  Its inputs took its path (ConstraintsHold of module
\* Interpreter).
Execution(ex) ==
    /\ ex = [constraints |-> ex.constraints, inputs |-> ex.inputs,
             ranks |-> ex.ranks, sizes |-> ex.sizes, limits |-> ex.limits]
    /\ ex.constraints = [k \in DOMAIN ex.constraints |-> ex.constraints[k]]
    /\ ex.inputs \in [Vars -> Values]
    /\ ex.ranks \subseteq Vars /\ ex.sizes \subseteq Vars
    /\ DOMAIN ex.limits \subseteq Vars
    /\ \A k \in DOMAIN ex.constraints :
          /\ k \in Nat \ {0} /\ 1..k \subseteq DOMAIN ex.constraints
          /\ Constraint(ex.constraints[k]) /\ ex.constraints[k].vars # {}
          /\ Satisfies(ex.inputs, ex.constraints[k])

=============================================================================
