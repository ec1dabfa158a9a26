----------------------------- MODULE Executions -----------------------------
(***************************************************************************)
(* Programs under test as the search strategies see them, and the three    *)
(* operations every strategy is built from: reading an execution, solving  *)
(* it at a branch (Search::SolveAtBranch) and comparing the new execution  *)
(* with the prediction (Search::CheckPrediction).                          *)
(*                                                                         *)
(* A program maps each input to the conditionals a run on it evaluates, in *)
(* order.  A predicate is the set of inputs it holds for.                  *)
(***************************************************************************)
EXTENDS Integers, SequencesExt

CONSTANTS
    Inputs,     \* values of the marked variables together
    Programs    \* programs under test considered

Steps(p, x) == DOMAIN p[x]
Taken(p, x, k) == x \in p[x][k].holds

\* Runs that took the same directions evaluate the same conditional next.
Deterministic(p) ==
    \A x, y \in Inputs : \A k \in Steps(p, x) :
        (\A j \in 1..(k - 1) : j \in Steps(p, y) /\ Taken(p, x, j) = Taken(p, y, j))
            => k \in Steps(p, y) /\ p[x][k] = p[y][k]

ASSUME ProgramsAssumption == \A p \in Programs :
    /\ DOMAIN p = Inputs
    /\ \A x \in Inputs : p[x] \in Seq(Range(p[x]))
    /\ \A x \in Inputs : \A k \in Steps(p, x) :
        /\ p[x][k].holds \subseteq Inputs
        /\ p[x][k].symbolic \in BOOLEAN
    /\ Deterministic(p)

\* A branch is one direction of a conditional; paired_branch_ is the other.
Paired(bid) == <<bid[1], ~bid[2]>>

Conds(p) == UNION {{p[x][k].cond : k \in Steps(p, x)} : x \in Inputs}
Branches(p) == Conds(p) \X BOOLEAN

NoExecution == [branches |-> <<>>, constraints_idx |-> <<>>, constraints |-> <<>>]

\* The branch of a run's k-th conditional, and the predicate that holds there.
BranchOf(p, x, k) == <<p[x][k].cond, Taken(p, x, k)>>
PredicateOf(p, x, k) == IF Taken(p, x, k) THEN p[x][k].holds ELSE Inputs \ p[x][k].holds

\* The places that leave a constraint: the first of each direction of a
\* conditional that has a predicate.
Kept(p, x) ==
    {k \in Steps(p, x) : p[x][k].symbolic
        /\ \A j \in 1..(k - 1) : p[x][j].symbolic => BranchOf(p, x, j) # BranchOf(p, x, k)}

\* The members of a finite set of numbers in increasing order.
Ordered(S) ==
    [n \in 1..Cardinality(S) |-> CHOOSE k \in S : Cardinality({j \in S : j <= k}) = n]

\* SymbolicPath::Push over a whole run, which records every branch.
Execution(p, x) ==
    [branches |-> [k \in Steps(p, x) |-> BranchOf(p, x, k)],
     constraints_idx |-> Ordered(Kept(p, x)),
     constraints |-> [n \in 1..Cardinality(Kept(p, x)) |->
                        PredicateOf(p, x, Ordered(Kept(p, x))[n])]]

Constraints(e) == DOMAIN e.constraints
BranchAt(e, i) == e.branches[e.constraints_idx[i]]

\* Mutated form: the constraint is solved without those before it.
SolutionsOfLast(e, i) == Inputs \ e.constraints[i]

\* The inputs SolveAtBranch may return, none if it returns false: they keep
\* the constraints before i and break the i-th.  A constraint equal to an
\* earlier one, which the code gives up at once, has none.
Solutions(e, i) ==
    {x \in Inputs \ e.constraints[i] : \A j \in 1..(i - 1) : x \in e.constraints[j]}

CanSolve(e) == \E i \in Constraints(e) : Solutions(e, i) # {}

\* The new run took the old one's branches up to k and the paired one at k.
CheckPrediction(old_ex, new_ex, k) ==
    /\ k <= Len(old_ex.branches) /\ k <= Len(new_ex.branches)
    /\ \A j \in 1..(k - 1) : new_ex.branches[j] = old_ex.branches[j]
    /\ new_ex.branches[k] = Paired(old_ex.branches[k])

-----------------------------------------------------------------------------
(* Program classes the properties tell apart *)

\* No conditional is evaluated twice in a run.
NonRepeating(p) ==
    \A x \in Inputs : \A j, k \in Steps(p, x) : p[x][j].cond = p[x][k].cond => j = k

\* Every conditional's predicate is recorded.
Symbolic(p) == \A x \in Inputs : \A k \in Steps(p, x) : p[x][k].symbolic

\* The branches some run takes.
Feasible(p) == UNION {ToSet(Execution(p, x).branches) : x \in Inputs}

-----------------------------------------------------------------------------
(* Branch distances (module BranchDistances shows how they are computed) *)

\* The thinned control-flow graph: from each branch to both directions of
\* a conditional that some run evaluates next.
Cfg(p) ==
    UNION {{<<BranchOf(p, x, k), <<p[x][k + 1].cond, d>>>> :
                k \in 1..(Len(p[x]) - 1), d \in BOOLEAN} : x \in Inputs}

\* The least number of edges to a branch outside covered, at most infinity:
\* as many as there are n such that no such branch is within n edges.
DistancesFrom(p, covered, infinity) ==
    LET edges == Cfg(p)
        Before(S) == S \cup {e[1] : e \in {g \in edges : g[2] \in S}}
        within[n \in 0..(infinity - 1)] ==
            IF n = 0 THEN Branches(p) \ covered ELSE Before(within[n - 1])
    IN [b \in Branches(p) |->
            Cardinality({n \in 0..(infinity - 1) : b \notin within[n]})]
=============================================================================
