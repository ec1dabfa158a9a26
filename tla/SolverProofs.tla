----------------------------- MODULE SolverProofs -----------------------------
(***************************************************************************)
(* Solving a slice answers for the whole path, for all variables, values,  *)
(* executions and MPI constraints.  The invariant says which constraints   *)
(* and which graph the search works on, and that what it has collected is  *)
(* closed but for the variables still to be visited, and no larger than    *)
(* any separate set that contains the branch's variables.                  *)
(***************************************************************************)
EXTENDS Solver, TLAPS

(***************************************************************************)
(* Constraints                                                             *)
(***************************************************************************)

MPIVars(e) == e.ranks \cup e.sizes

\* The MPI constraints are constraints on marked variables.
LEMMA MPIConstraintsTyped ==
    ASSUME NEW e, Execution(e), NEW c \in GenerateConstraintsMPI(e)
    PROVE  Constraint(c)
<1>1. /\ \A i, j \in Vars : Constraint(Same(i, j)) /\ Constraint(Below(i, j))
      /\ \A limit : \A i \in Vars : Constraint(AtMost(i, limit))
  BY DEF Constraint, Same, Below, AtMost
<1>2. \/ \E i, j \in MPIVars(e) : c = Same(j, i) \/ c = Below(j, i)
      \/ \E i \in DOMAIN e.limits : c = AtMost(i, e.limits[i])
  BY DEF GenerateConstraintsMPI, AllSame, Firsts, MPIVars
<1>3. MPIVars(e) \subseteq Vars /\ DOMAIN e.limits \subseteq Vars
  BY DEF Execution, MPIVars
<1>4. QED
  BY <1>1, <1>2, <1>3

\* Negating keeps the variables, and twice is not at all.
LEMMA NegationOfConstraint ==
    ASSUME NEW c, Constraint(c)
    PROVE  /\ Constraint(Negation(c))
           /\ Negation(c).vars = c.vars
           /\ Negation(Negation(c)) = c
<1>1. Negation(c).vars = c.vars /\ Constraint(Negation(c))
  BY DEF Negation, Constraint
<1>2. Negation(Negation(c)).sat = c.sat
  BY DEF Negation, Constraint
<1>3. QED
  BY <1>1, <1>2 DEF Negation, Constraint

\* An input satisfies the negation exactly if it does not satisfy the
\* constraint.
LEMMA NegationOpposite ==
    ASSUME NEW c, Constraint(c), NEW a \in [Vars -> Values]
    PROVE  Satisfies(a, Negation(c)) <=> ~Satisfies(a, c)
<1>1. [v \in c.vars |-> a[v]] \in [c.vars -> Values]
  BY DEF Constraint
<1>2. QED
  BY <1>1 DEF Satisfies, Negation

\* Only the values of its variables matter to a constraint.
LEMMA SatisfiesLocal ==
    ASSUME NEW c, NEW a, NEW b, \A v \in c.vars : a[v] = b[v]
    PROVE  Satisfies(a, c) <=> Satisfies(b, c)
<1>1. [v \in c.vars |-> a[v]] = [v \in c.vars |-> b[v]]
  OBVIOUS
<1>2. QED
  BY <1>1 DEF Satisfies

\* What the negation of its k-th constraint does to an execution, and that a
\* second negation undoes it.
LEMMA NegatedExecution ==
    ASSUME NEW e, Execution(e), NEW k \in DOMAIN e.constraints
    PROVE  /\ Negated(e, k).inputs = e.inputs
           /\ DOMAIN Negated(e, k).constraints = DOMAIN e.constraints
           /\ \A i \in DOMAIN e.constraints :
                 Negated(e, k).constraints[i] =
                    IF i = k THEN Negation(e.constraints[k])
                    ELSE e.constraints[i]
           /\ Negated(Negated(e, k), k) = e
<1>1. Constraint(e.constraints[k])
  BY DEF Execution
<1>2. Negation(Negation(e.constraints[k])) = e.constraints[k]
  BY <1>1, NegationOfConstraint
<1>3. /\ Negated(e, k).inputs = e.inputs
      /\ Negated(e, k).constraints =
            [e.constraints EXCEPT ![k] = Negation(e.constraints[k])]
  BY DEF Negated, Execution
<1>4. [Negated(e, k).constraints EXCEPT
          ![k] = Negation(Negated(e, k).constraints[k])] = e.constraints
  BY <1>2, <1>3 DEF Execution
<1>5. Negated(Negated(e, k), k) = [e EXCEPT !.constraints = e.constraints]
  BY <1>4 DEF Negated, Execution
<1>6. QED
  BY <1>3, <1>5 DEF Execution

(***************************************************************************)
(* The invariant                                                           *)
(***************************************************************************)

\* The execution under the call, before and while its constraint is negated.
Given(e) ==
    /\ ex = IF pc \in {"graph", "visit"} THEN Negated(e, branch_idx) ELSE e
    /\ pc # "idle" => branch_idx \in DOMAIN e.constraints
    /\ execution_tag_ = 1 => constraintsMPI = GenerateConstraintsMPI(e)
    /\ pc \in {"graph", "visit"} => execution_tag_ = 1

\* The constraints of the slice are those of the prefix, the negation and
\* the MPI constraints; the graph links the variables they share.
GraphOf(e) ==
    pc = "visit" =>
        /\ constraints =
              {e.constraints[i] : i \in 1..(branch_idx - 1)}
              \cup {Negation(e.constraints[branch_idx])}
              \cup GenerateConstraintsMPI(e)
        /\ depends = [v \in Vars |-> Sharing(v, constraints)]

\* What is collected is closed up to the variables not yet visited.
Collected ==
    pc = "visit" =>
        /\ Target.vars \subseteq dependent_vars
        /\ dependent_vars \subseteq Vars /\ Q \subseteq dependent_vars
        /\ \A v \in dependent_vars \ Q : depends[v] \subseteq dependent_vars

\* Nothing is collected that is not connected to the branch.
Connected ==
    pc = "visit" =>
        \A S \in SUBSET Vars :
            Target.vars \subseteq S /\ Separate(S) => dependent_vars \subseteq S

IInv ==
    /\ pc \in {"idle", "unsat", "generate", "graph", "visit"}
    /\ input \in [Vars -> Values]
    /\ pc = "unsat" => Repeats(branch_idx)
    /\ \E e \in Executions : Given(e) /\ GraphOf(e)
    /\ Collected /\ Connected /\ UnconnectedKept

\* Initially no call is under way and the input is the execution's.
LEMMA InitIInv == Init => IInv
<1> SUFFICES ASSUME Init PROVE IInv
  OBVIOUS
<1>1. Given(ex) /\ GraphOf(ex)
  BY DEF Init, Given, GraphOf
<1>2. input \in [Vars -> Values]
  BY SolverAssumption DEF Init, Execution
<1>3. QED
  BY <1>1, <1>2 DEF Init, IInv, Collected, Connected, UnconnectedKept

\* A call, the early return included, changes neither execution nor input.
LEMMA CallIInv ==
    ASSUME IInv, NEW k \in DOMAIN ex.constraints, SolveAtBranch(k)
    PROVE  IInv'
<1> PICK e \in Executions : Given(e)
  BY DEF IInv
<1> USE DEF SolveAtBranch
<1>1. Given(e)' /\ GraphOf(e)'
  BY DEF Given, GraphOf
<1>2. (pc = "unsat" => Repeats(branch_idx))'
  BY DEF Repeats
<1>3. QED
  BY <1>1, <1>2 DEF IInv, Collected, Connected, UnconnectedKept

LEMMA RepeatedIInv ==
    ASSUME IInv, ReturnRepeated PROVE IInv'
<1> PICK e \in Executions : Given(e)
  BY DEF IInv
<1> USE DEF ReturnRepeated
<1>1. Given(e)' /\ GraphOf(e)'
  BY DEF Given, GraphOf
<1>2. QED
  BY <1>1 DEF IInv, Collected, Connected, UnconnectedKept

\* The negation is made and the MPI constraints are those of the execution.
LEMMA GenerateIInv ==
    ASSUME IInv, GenerateConstraints PROVE IInv'
<1> PICK e \in Executions : Given(e)
  BY DEF IInv
<1> USE DEF GenerateConstraints
<1>1. ex = e
  BY DEF Given
<1>2. Given(e)' /\ GraphOf(e)'
  BY <1>1 DEF Given, GraphOf, IInv
<1>3. QED
  BY <1>2 DEF IInv, Collected, Connected, UnconnectedKept

\* While the call works, every constraint of the slice is one on marked
\* variables, and the target is the negation.
LEMMA SliceTyped ==
    ASSUME NEW e \in Executions, Given(e), pc \in {"graph", "visit"}
    PROVE  /\ Execution(e) /\ branch_idx \in DOMAIN e.constraints
           /\ branch_idx \in Nat
           /\ Constraint(e.constraints[branch_idx])
           /\ Target = Negation(e.constraints[branch_idx])
           /\ Target.vars \subseteq Vars
           /\ ex.inputs = e.inputs
           /\ Prefix = {e.constraints[i] : i \in 1..(branch_idx - 1)}
                       \cup {Negation(e.constraints[branch_idx])}
           /\ \A c \in Prefix \cup GenerateConstraintsMPI(e) : Constraint(c)
<1>1. Execution(e) /\ branch_idx \in DOMAIN e.constraints
  BY SolverAssumption DEF Given
<1>2. /\ branch_idx \in Nat /\ 1..branch_idx \subseteq DOMAIN e.constraints
      /\ \A i \in DOMAIN e.constraints : Constraint(e.constraints[i])
      /\ \A i \in DOMAIN e.constraints : i \in Nat
  BY <1>1 DEF Execution
<1>3. ex = Negated(e, branch_idx)
  BY DEF Given
<1>4. /\ ex.inputs = e.inputs
      /\ \A i \in DOMAIN e.constraints :
            ex.constraints[i] = IF i = branch_idx
                                THEN Negation(e.constraints[branch_idx])
                                ELSE e.constraints[i]
  BY <1>1, <1>3, NegatedExecution
<1>5. /\ Constraint(Negation(e.constraints[branch_idx]))
      /\ Target = Negation(e.constraints[branch_idx])
  BY <1>1, <1>2, <1>4, NegationOfConstraint DEF Target
<1>6. Target.vars \subseteq Vars
  BY <1>5 DEF Constraint
<1>7. Prefix = {e.constraints[i] : i \in 1..(branch_idx - 1)}
               \cup {Negation(e.constraints[branch_idx])}
  <2>1. \A i \in 1..(branch_idx - 1) :
           i \in 1..branch_idx /\ ex.constraints[i] = e.constraints[i]
    BY <1>2, <1>4
  <2>2. \A i \in 1..branch_idx : i = branch_idx \/ i \in 1..(branch_idx - 1)
    BY <1>2
  <2>3. branch_idx \in 1..branch_idx
    <3>1. branch_idx \in Nat \ {0}
      BY <1>1 DEF Execution
    <3>2. QED
      BY <3>1
  <2>4. ex.constraints[branch_idx] = Negation(e.constraints[branch_idx])
    BY <1>1, <1>4
  <2>5. ASSUME NEW c \in Prefix
        PROVE  c \in {e.constraints[i] : i \in 1..(branch_idx - 1)}
                     \cup {Negation(e.constraints[branch_idx])}
    BY <2>1, <2>2, <2>4 DEF Prefix
  <2>6. ASSUME NEW c \in {e.constraints[i] : i \in 1..(branch_idx - 1)}
                     \cup {Negation(e.constraints[branch_idx])}
        PROVE  c \in Prefix
    BY <2>1, <2>3, <2>4 DEF Prefix
  <2>7. QED
    BY <2>5, <2>6
<1>8. \A c \in Prefix \cup GenerateConstraintsMPI(e) : Constraint(c)
  BY <1>1, <1>2, <1>5, <1>7, MPIConstraintsTyped
<1>9. QED
  BY <1>1, <1>2, <1>4, <1>5, <1>6, <1>7, <1>8

\* The search starts from the branch's variables with the graph of all
\* constraints, the MPI constraints among them.
LEMMA BuildIInv ==
    ASSUME IInv, BuildGraph PROVE IInv'
<1> PICK e \in Executions : Given(e)
  BY DEF IInv
<1>1. /\ pc = "graph" /\ pc' = "visit" /\ Target' = Target
      /\ UNCHANGED <<ex, branch_idx, success, input, execution_tag_,
                     constraintsMPI>>
      /\ constraints' = Prefix \cup constraintsMPI
      /\ depends' = [v \in Vars |-> Sharing(v, constraints')]
      /\ dependent_vars' = Target.vars /\ Q' = Target.vars
  BY DEF BuildGraph, Target
<1>2. constraintsMPI = GenerateConstraintsMPI(e)
  BY <1>1 DEF Given
<1>3. Given(e)'
  BY <1>1 DEF Given
<1>4. GraphOf(e)'
  BY <1>1, <1>2, SliceTyped DEF GraphOf
<1>5. Collected'
  BY <1>1, SliceTyped DEF Collected
<1>6. Connected'
  BY <1>1 DEF Connected
<1>7. QED
  BY <1>1, <1>3, <1>4, <1>5, <1>6 DEF IInv, UnconnectedKept

\* Visiting a variable collects the variables it shares a constraint with.
LEMMA VisitIInv ==
    ASSUME IInv, NEW i \in Q, Visit(i) PROVE IInv'
<1> PICK e \in Executions : Given(e) /\ GraphOf(e)
  BY DEF IInv
<1>1. /\ pc = "visit" /\ pc' = pc /\ Target' = Target
      /\ UNCHANGED <<ex, branch_idx, success, input, execution_tag_,
                     constraintsMPI, constraints, depends>>
      /\ Q' = (Q \ {i}) \cup (depends[i] \ dependent_vars)
      /\ dependent_vars' = dependent_vars \cup depends[i]
  BY DEF Visit, Target
<1>2. Given(e)' /\ GraphOf(e)'
  BY <1>1 DEF Given, GraphOf, Sharing
<1>3. \A c \in constraints : c.vars \subseteq Vars
  BY <1>1, SliceTyped DEF GraphOf, Constraint
<1>4. i \in Vars /\ depends[i] = Sharing(i, constraints)
  BY <1>1 DEF IInv, Collected, GraphOf
<1>5. depends[i] \subseteq Vars
  BY <1>3, <1>4 DEF Sharing
<1>6. Collected'
  BY <1>1, <1>5 DEF IInv, Collected
<1>7. Connected'
  <2> SUFFICES ASSUME NEW S \in SUBSET Vars, Target.vars \subseteq S, Separate(S)
               PROVE  depends[i] \subseteq S
    BY <1>1 DEF IInv, Connected, Separate
  <2>1. i \in S
    BY <1>1 DEF IInv, Connected, Collected
  <2>2. QED
    BY <2>1, <1>4 DEF Separate, Sharing
<1>8. QED
  BY <1>1, <1>2, <1>6, <1>7 DEF IInv, UnconnectedKept

\* With nothing left to visit no constraint lies across the slice.
LEMMA ClosedWhenVisited ==
    ASSUME IInv PROVE SliceClosed
<1> SUFFICES ASSUME pc = "visit", Q = {}, NEW c \in constraints,
                    NEW v \in c.vars, v \in dependent_vars
             PROVE  c.vars \subseteq dependent_vars
  BY DEF SliceClosed
<1> PICK e \in Executions : GraphOf(e)
  BY DEF IInv
<1>1. v \in Vars /\ depends[v] \subseteq dependent_vars
  BY DEF IInv, Collected
<1>2. depends[v] = Sharing(v, constraints)
  BY <1>1 DEF GraphOf
<1>3. QED
  BY <1>1, <1>2 DEF Sharing

\* Solved and Unsolved end the call; the second negation undoes the first.
LEMMA ReturnGiven ==
    ASSUME NEW e \in Executions, Given(e), pc = "visit", pc' = "idle",
           ex' = Negated(ex, branch_idx),
           UNCHANGED <<branch_idx, execution_tag_, constraintsMPI>>
    PROVE  Given(e)' /\ ex' = e
<1>1. ex = Negated(e, branch_idx) /\ branch_idx \in DOMAIN e.constraints
  BY DEF Given
<1>2. ex' = e
  BY <1>1, NegatedExecution, SolverAssumption
<1>3. QED
  BY <1>1, <1>2 DEF Given

LEMMA SolvedIInv ==
    ASSUME IInv, Solved PROVE IInv'
<1> PICK e \in Executions : Given(e) /\ GraphOf(e)
  BY DEF IInv
<1>1. /\ pc = "visit" /\ Q = {} /\ pc' = "idle" /\ ex' = Negated(ex, branch_idx)
      /\ UNCHANGED <<branch_idx, execution_tag_, constraintsMPI, constraints>>
  BY DEF Solved
<1>2. PICK soln \in Solutions : input' = Merged(soln)
  BY DEF Solved
<1>3. Given(e)' /\ ex' = e /\ GraphOf(e)'
  BY <1>1, ReturnGiven DEF GraphOf
<1>4. /\ dependent_vars \subseteq Vars /\ ex.inputs = e.inputs
      /\ e.inputs \in [Vars -> Values]
  BY <1>1, SliceTyped DEF IInv, Collected, Execution
<1>5. input' \in [Vars -> Values]
  BY <1>2, <1>4 DEF Merged, Solutions
<1>6. Target'.vars = Target.vars
  BY <1>1, <1>3, SliceTyped, NegationOfConstraint DEF Target
<1>7. UnconnectedKept'
  <2> SUFFICES ASSUME NEW S \in SUBSET Vars, Target'.vars \subseteq S,
                      Separate(S)', NEW v \in Vars \ S
               PROVE  input'[v] = ex'.inputs[v]
    BY DEF UnconnectedKept
  <2>1. dependent_vars \subseteq S
    BY <1>1, <1>6 DEF IInv, Connected, Separate
  <2>2. QED
    BY <2>1, <1>2, <1>3, <1>4 DEF Merged
<1>8. QED
  BY <1>1, <1>3, <1>5, <1>7 DEF IInv, Collected, Connected

LEMMA UnsolvedIInv ==
    ASSUME IInv, Unsolved PROVE IInv'
<1> PICK e \in Executions : Given(e) /\ GraphOf(e)
  BY DEF IInv
<1>1. /\ pc = "visit" /\ pc' = "idle" /\ ex' = Negated(ex, branch_idx)
      /\ UNCHANGED <<branch_idx, execution_tag_, constraintsMPI, input>>
      /\ success' = FALSE
  BY DEF Unsolved
<1>2. Given(e)' /\ GraphOf(e)'
  BY <1>1, ReturnGiven DEF GraphOf
<1>3. QED
  BY <1>1, <1>2 DEF IInv, Collected, Connected, UnconnectedKept

LEMMA NextIInv == IInv /\ [Next]_vars => IInv'
<1> SUFFICES ASSUME IInv, [Next]_vars PROVE IInv'
  OBVIOUS
<1>1. CASE UNCHANGED vars
  BY <1>1 DEF vars, IInv, Given, GraphOf, Collected, Connected,
     UnconnectedKept, Target, Separate, Sharing, Repeats
<1>2. QED
  BY <1>1, CallIInv, RepeatedIInv, GenerateIInv, BuildIInv, VisitIInv,
     SolvedIInv, UnsolvedIInv DEF Next, Step

LEMMA SolverInvariant == Spec => []IInv
BY InitIInv, NextIInv, PTL DEF Spec

\* Yices is given closed slices: no constraint lies across one.
THEOREM SlicesAreClosed == Spec => []SliceClosed
BY SolverInvariant, ClosedWhenVisited, PTL

\* Variables not connected to the branch keep their values.
THEOREM KeepsUnconnected == Spec => []UnconnectedKept
<1>1. IInv => UnconnectedKept
  BY DEF IInv
<1>2. QED
  BY <1>1, SolverInvariant, PTL

(***************************************************************************)
(* The answer                                                              *)
(***************************************************************************)

\* A merged solution satisfies each constraint that the slice contains or
\* that the execution's inputs satisfied.
LEMMA MergedSatisfies ==
    ASSUME IInv, NEW e \in Executions, Given(e), GraphOf(e),
           pc = "visit", Q = {}, NEW soln \in Solutions, NEW c \in constraints,
           c \in Slice \/ Satisfies(e.inputs, c)
    PROVE  Satisfies(Merged(soln), c)
<1>1. /\ \A d \in constraints : d.vars \subseteq Vars
      /\ ex.inputs = e.inputs
  BY SliceTyped DEF GraphOf, Constraint
<1>2. CASE c \in Slice
  <2>1. c.vars \subseteq dependent_vars
    BY <1>2, ClosedWhenVisited DEF Slice, DependsOn, SliceClosed
  <2>2. \A v \in c.vars : Merged(soln)[v] = soln[v]
    BY <2>1, <1>1 DEF Merged
  <2>3. Satisfies(soln, c)
    BY <1>2 DEF Solutions
  <2>4. QED
    BY <2>2, <2>3, SatisfiesLocal
<1>3. CASE c \notin Slice
  <2>1. \A v \in c.vars : v \notin dependent_vars
    BY <1>3 DEF Slice, DependsOn
  <2>2. \A v \in c.vars : Merged(soln)[v] = e.inputs[v]
    BY <2>1, <1>1 DEF Merged
  <2>3. Satisfies(e.inputs, c)
    BY <1>3
  <2>4. QED
    BY <2>2, <2>3, SatisfiesLocal
<1>4. QED
  BY <1>2, <1>3

\* An input for the whole set of constraints holds one for the slice.
LEMMA SliceOfInput ==
    ASSUME IInv, NEW a \in [Vars -> Values], pc = "visit", Q = {},
           \A c \in constraints : Satisfies(a, c)
    PROVE  Solutions # {}
<1> DEFINE soln == [v \in dependent_vars |-> a[v]]
<1>1. soln \in [dependent_vars -> Values]
  BY DEF IInv, Collected
<1>2. ASSUME NEW c \in Slice PROVE Satisfies(soln, c)
  <2>1. c \in constraints /\ c.vars \subseteq dependent_vars
    BY ClosedWhenVisited DEF Slice, DependsOn, SliceClosed
  <2>2. \A v \in c.vars : soln[v] = a[v]
    BY <2>1
  <2>3. QED
    BY <2>1, <2>2, SatisfiesLocal
<1>3. QED
  BY <1>1, <1>2 DEF Solutions

\* What the abstract call is made of, for the execution under the call.
LEMMA RestoredIsGiven ==
    ASSUME NEW e \in Executions, Given(e) PROVE Restored = e
<1>1. e.constraints = [k \in DOMAIN e.constraints |-> e.constraints[k]]
  BY SolverAssumption DEF Execution
<1>2. CASE pc \in {"graph", "visit"}
  BY <1>2, SolverAssumption, NegatedExecution DEF Given, Restored
<1>3. CASE pc \notin {"graph", "visit"}
  BY <1>3 DEF Given, Restored
<1>4. QED
  BY <1>2, <1>3

\* A success answers for the path of the execution.
LEMMA SolvedIsFound ==
    ASSUME IInv, NEW e \in Executions, Given(e), GraphOf(e),
           pc = "visit", Q = {}, NEW soln \in Solutions
    PROVE  /\ Merged(soln) \in [Vars -> Values]
           /\ \A i \in 1..(branch_idx - 1) :
                 Satisfies(Merged(soln), e.constraints[i])
           /\ ~Satisfies(Merged(soln), e.constraints[branch_idx])
           /\ \A c \in GenerateConstraintsMPI(e) :
                 Satisfies(e.inputs, c) => Satisfies(Merged(soln), c)
<1>1. /\ Execution(e) /\ branch_idx \in DOMAIN e.constraints
      /\ branch_idx \in Nat
      /\ Target = Negation(e.constraints[branch_idx])
      /\ Constraint(e.constraints[branch_idx])
      /\ ex.inputs = e.inputs
  BY SliceTyped
<1>2. /\ 1..branch_idx \subseteq DOMAIN e.constraints
      /\ \A i \in DOMAIN e.constraints : Satisfies(e.inputs, e.constraints[i])
      /\ e.inputs \in [Vars -> Values]
  BY <1>1 DEF Execution
<1>3. Merged(soln) \in [Vars -> Values]
  BY <1>1, <1>2 DEF IInv, Collected, Merged, Solutions
<1>4. /\ \A i \in 1..(branch_idx - 1) : e.constraints[i] \in constraints
      /\ Target \in constraints
      /\ GenerateConstraintsMPI(e) \subseteq constraints
  BY <1>1 DEF GraphOf
<1>5. ASSUME NEW i \in 1..(branch_idx - 1)
      PROVE  Satisfies(Merged(soln), e.constraints[i])
  <2>1. i \in 1..branch_idx
    BY <1>1
  <2>2. QED
    BY <2>1, <1>2, <1>4, MergedSatisfies
<1>6. Satisfies(Merged(soln), Target)
  <2>1. Target.vars # {}
    BY <1>1, NegationOfConstraint DEF Execution
  <2>2. Target \in Slice
    BY <2>1, <1>4 DEF IInv, Collected, Slice, DependsOn
  <2>3. QED
    BY <2>2, <1>4, MergedSatisfies
<1>7. QED
  BY <1>1, <1>2, <1>3, <1>4, <1>5, <1>6, MergedSatisfies, NegationOpposite

\* A failure means that no input answers.
LEMMA UnsolvedIsNone ==
    ASSUME IInv, NEW e \in Executions, Given(e), GraphOf(e),
           pc = "visit", Q = {}, Solutions = {}, NEW a \in [Vars -> Values],
           \A i \in 1..(branch_idx - 1) : Satisfies(a, e.constraints[i]),
           ~Satisfies(a, e.constraints[branch_idx])
    PROVE  \E c \in GenerateConstraintsMPI(e) : ~Satisfies(a, c)
<1>1. Satisfies(a, Negation(e.constraints[branch_idx]))
  BY SliceTyped, NegationOpposite
<1>2. PICK c \in constraints : ~Satisfies(a, c)
  BY SliceOfInput
<1>3. QED
  BY <1>1, <1>2 DEF GraphOf

\* A branch that repeats an earlier constraint cannot take its other
\* direction on the same path.
LEMMA RepeatIsNone ==
    ASSUME NEW e \in Executions, ex = e, branch_idx \in DOMAIN e.constraints,
           Repeats(branch_idx), NEW a,
           \A i \in 1..(branch_idx - 1) : Satisfies(a, e.constraints[i])
    PROVE  Satisfies(a, e.constraints[branch_idx])
BY DEF Repeats

\* The abstract call means the same by its constraints.
LEMMA AbstractConstraints ==
    /\ \A a, c : Abstract!Satisfies(a, c) <=> Satisfies(a, c)
    /\ \A e : Abstract!GenerateConstraintsMPI(e) = GenerateConstraintsMPI(e)
<1>1. \A a, c : Abstract!Satisfies(a, c) <=> Satisfies(a, c)
  BY DEF Abstract!Satisfies, Satisfies
<1>2. /\ \A i, j : Abstract!Same(i, j) = Same(i, j)
      /\ \A i, j : Abstract!Below(i, j) = Below(i, j)
      /\ \A i, limit : Abstract!AtMost(i, limit) = AtMost(i, limit)
      /\ \A I : Abstract!Firsts(I) = Firsts(I)
  BY DEF Abstract!Same, Same, Abstract!Below, Below, Abstract!AtMost, AtMost,
     Abstract!Firsts, Firsts
<1>3. \A I : Abstract!AllSame(I) = AllSame(I)
  BY <1>2 DEF Abstract!AllSame, AllSame
<1>4. \A e : Abstract!GenerateConstraintsMPI(e) = GenerateConstraintsMPI(e)
  BY <1>2, <1>3 DEF Abstract!GenerateConstraintsMPI, GenerateConstraintsMPI
<1>5. QED
  BY <1>1, <1>4

\* Every step of the solver is a step of the abstract one, or none of it.
LEMMA StepAnswers ==
    ASSUME IInv, IInv', [Next]_vars PROVE [Abstract!Next]_(Abstract!vars)
<1> PICK e \in Executions : Given(e) /\ GraphOf(e)
  BY DEF IInv
<1> USE DEF Abstract!vars, Abstract!Next
<1>1. Restored = e /\ Execution(e)
  BY RestoredIsGiven, SolverAssumption
<1>2. CASE UNCHANGED vars
  BY <1>2 DEF vars, Restored
<1>3. ASSUME NEW k \in DOMAIN ex.constraints, SolveAtBranch(k)
      PROVE  Abstract!Ask
  BY <1>1, <1>3 DEF SolveAtBranch, Abstract!Ask, Given, Restored
<1>4. ASSUME ReturnRepeated PROVE Abstract!None
  <2>1. ex = e /\ Repeats(branch_idx) /\ branch_idx \in DOMAIN e.constraints
    BY <1>4 DEF ReturnRepeated, Given, IInv
  <2>2. Restored' = e
    BY <1>4, <2>1 DEF ReturnRepeated, Restored
  <2>3. \A a : ~Abstract!Forces(a, branch_idx)
    BY <1>1, <2>1, RepeatIsNone, AbstractConstraints DEF Abstract!Forces
  <2>4. QED
    BY <1>1, <1>4, <2>2, <2>3 DEF ReturnRepeated, Abstract!None
<1>5. ASSUME GenerateConstraints PROVE UNCHANGED Abstract!vars
  <2>1. ex = e /\ branch_idx \in DOMAIN e.constraints
    BY <1>5 DEF GenerateConstraints, Given
  <2>2. Restored' = Negated(Negated(e, branch_idx), branch_idx)
    BY <1>5, <2>1 DEF GenerateConstraints, Restored
  <2>3. QED
    BY <1>1, <1>5, <2>1, <2>2, NegatedExecution DEF GenerateConstraints
<1>6. ASSUME BuildGraph \/ \E i \in Q : Visit(i)
      PROVE  UNCHANGED Abstract!vars
  BY <1>6 DEF BuildGraph, Visit, Restored, Negated
<1>7. ASSUME Solved PROVE Abstract!Found
  <2>1. PICK soln \in Solutions : input' = Merged(soln)
    BY <1>7 DEF Solved
  <2>2. Restored' = e
    BY <1>7, ReturnGiven DEF Solved, Restored
  <2>3. /\ input' \in [Vars -> Values]
        /\ Abstract!Forces(input', branch_idx)
        /\ \A c \in Abstract!Kept : Satisfies(input', c)
    BY <1>1, <1>7, <2>1, SolvedIsFound, AbstractConstraints
    DEF Solved, Abstract!Forces, Abstract!Kept
  <2>4. QED
    BY <1>1, <1>7, <2>2, <2>3, AbstractConstraints DEF Solved, Abstract!Found
<1>8. ASSUME Unsolved PROVE Abstract!None
  <2>1. Restored' = e
    BY <1>8, ReturnGiven DEF Unsolved, Restored
  <2>2. QED
    BY <1>1, <1>8, <2>1, UnsolvedIsNone, AbstractConstraints
    DEF Unsolved, Abstract!Forces, Abstract!None
<1>9. QED
  BY <1>2, <1>3, <1>4, <1>5, <1>6, <1>7, <1>8 DEF Next, Step

\* Solving the slice of a branch answers for the whole path.
THEOREM SolverAnswers == Spec => AnswersForPath
<1>1. Init => Abstract!Init
  BY DEF Init, Abstract!Init, Restored
<1>2. QED
  BY <1>1, SolverInvariant, StepAnswers, PTL DEF Spec, AnswersForPath, Abstract!Spec

=============================================================================
