---------------------------- MODULE LaunchProofs ----------------------------
(***************************************************************************)
(* Proofs about module Launch: type correctness; the focus is a process of *)
(* its job; the tags and the solver's cached MPI state; and, for a program *)
(* that marks its rank before its size, the size of every job.             *)
(***************************************************************************)
EXTENDS Launch, TLAPS, SequenceTheorems, WellFoundedInduction

-----------------------------------------------------------------------------
(* Lemmas about the operators.                                             *)

\* First picks the least element of a nonempty set of indices.
LEMMA FirstIsElement ==
    ASSUME NEW I \in SUBSET Nat, I # {}
    PROVE  First(I) \in I /\ \A j \in I : First(I) <= j
<1>1. PICK x \in I : \A y \in I : <<y, x>> \notin OpToRel(<, Nat)
  BY NatLessThanWellFounded, WFMin
<1>2. \A y \in I : x <= y
  <2>1. SUFFICES ASSUME NEW y \in I PROVE x <= y
    OBVIOUS
  <2>2. ~(y < x)
    BY <1>1 DEF OpToRel
  <2> QED BY <2>2
<1> QED
  BY <1>1, <1>2 DEF First

\* A function on 1..n with integer values is a sequence of integers.
LEMMA IntSeq ==
    ASSUME NEW s \in Seq(Kinds), NEW f \in [DOMAIN s -> Int]
    PROVE  f \in Seq(Int)
<1>1. DOMAIN s = 1..Len(s) /\ Len(s) \in Nat
  OBVIOUS
<1> QED
  BY <1>1

\* The mpirun command starts the focus when it starts anything, and just the
\* processes asked for when the focus is one of them.
LEMMA RequestedHoldsFocus ==
    ASSUME NEW target \in Nat, NEW size \in Int
    PROVE  /\ Requested(target, size) > 0 =>
                 target \in 0..(Requested(target, size) - 1)
           /\ target < size => Requested(target, size) = size
<1>1. CASE target # 0 /\ target + 1 >= size
  <2>1. Requested(target, size) = target + 1
    BY <1>1 DEF Requested
  <2> QED BY <1>1, <2>1
<1>2. CASE ~(target # 0 /\ target + 1 >= size)
  <2>1. Requested(target, size) = size
    BY <1>2 DEF Requested
  <2> QED BY <1>2, <2>1
<1> QED BY <1>1, <1>2

\* The program gives a variable one role or none.
LEMMA PathKinds ==
    ASSUME NEW p \in Paths
    PROVE  p \in Seq(Kinds)
<1>1. p \in Seq({{k} : k \in Roles} \cup {Data})
  BY LaunchAssumption
<1>2. DOMAIN p = 1..Len(p) /\ Len(p) \in Nat
  BY <1>1
<1>3. \A i \in DOMAIN p : p[i] \in Kinds
  BY <1>1 DEF Kinds, Data
<1> QED BY <1>1, <1>2, <1>3

\* At(kinds, k) is a set of positions.
LEMMA AtIsPositions ==
    ASSUME NEW kinds \in Seq(Kinds), NEW k
    PROVE  At(kinds, k) \subseteq DOMAIN kinds /\ At(kinds, k) \subseteq Nat
<1>1. DOMAIN kinds = 1..Len(kinds) /\ Len(kinds) \in Nat
  OBVIOUS
<1> QED BY <1>1 DEF At

\* The local rank of the focus in one of its communicators.
LEMMA LocalRankTyped ==
    ASSUME NEW m \in Communicators, np \in Int
    PROVE  m \in Seq(Int) /\ LocalRank(m) \in Int
<1>1. PICK k \in 1..np : m \in [1..k -> 0..(np - 1)]
  BY DEF Communicators
<1>2. m \in Seq(Int) /\ DOMAIN m = 1..k
  BY <1>1
<1>3. {i \in DOMAIN m : m[i] = target_rank_} # {}
  BY DEF Communicators
<1>4. {i \in DOMAIN m : m[i] = target_rank_} \in SUBSET Nat
  BY <1>2
<1>5. First({i \in DOMAIN m : m[i] = target_rank_}) \in Nat
  BY <1>3, <1>4, FirstIsElement
<1> QED BY <1>2, <1>5 DEF LocalRank

\* What the focus records: an integer per variable of the path; the rank it
\* has, and for a size the input's value, or else the job's real size.
LEMMA MarkedValues ==
    ASSUME TypeOK, NEW p \in Paths, NEW local \in Int,
           NEW fresh \in [DOMAIN p -> DataValues]
    PROVE  /\ Marked(p, local, fresh) \in [DOMAIN p -> Int]
           /\ \A i \in At(p, "rank") :
                 Marked(p, local, fresh)[i] = target_rank_
           /\ \A i \in At(p, "size") :
                 Marked(p, local, fresh)[i] =
                    IF i \in DOMAIN input_file THEN input_file[i] ELSE np
<1>1. /\ p \in Seq({{k} : k \in Roles} \cup {Data}) /\ input_file \in Seq(Int)
      /\ DataValues \subseteq Int /\ target_rank_ \in Int /\ np \in Int
  BY LaunchAssumption DEF TypeOK
<1>0. /\ {"rank"} # {"comm"} /\ {"rank"} # {"size"} /\ {"comm"} # {"size"}
      /\ {"rank"} # Data /\ {"comm"} # Data /\ {"size"} # Data
  BY DEF Data
<1> DEFINE val(i) == CASE p[i] = {"rank"} -> target_rank_
                       [] p[i] = {"comm"} -> local
                       [] p[i] = {"size"} ->
                             IF i \in DOMAIN input_file
                             THEN input_file[i] ELSE np
                       [] p[i] = Data ->
                             IF i \in DOMAIN input_file
                             THEN input_file[i] ELSE fresh[i]
<1>2. Marked(p, local, fresh) = [i \in DOMAIN p |-> val(i)]
  BY DEF Marked
<1>3. \A i \in DOMAIN p : val(i) \in Int
  <2> SUFFICES ASSUME NEW i \in DOMAIN p PROVE val(i) \in Int
    OBVIOUS
  <2>1. p[i] \in {{"rank"}, {"comm"}, {"size"}, Data}
    BY <1>1 DEF Roles
  <2>2. i \in DOMAIN input_file => input_file[i] \in Int
    BY <1>1
  <2>3. fresh[i] \in Int
    BY <1>1
  <2>4. CASE p[i] = {"rank"}
    BY <1>0, <1>1, <2>4
  <2>5. CASE p[i] = {"comm"}
    BY <1>0, <2>5
  <2>6. CASE p[i] = {"size"}
    BY <1>0, <1>1, <2>2, <2>6
  <2>7. CASE p[i] = Data
    BY <1>0, <2>2, <2>3, <2>7
  <2> QED BY <2>1, <2>4, <2>5, <2>6, <2>7
<1>6. \A i \in DOMAIN p, k \in Roles : i \in At(p, k) => p[i] = {k}
  BY <1>1 DEF At, Data
<1>4. \A i \in At(p, "rank") : i \in DOMAIN p /\ val(i) = target_rank_
  <2> SUFFICES ASSUME NEW i \in At(p, "rank")
               PROVE  i \in DOMAIN p /\ val(i) = target_rank_
    OBVIOUS
  <2>1. i \in DOMAIN p /\ p[i] = {"rank"}
    BY <1>6 DEF At, Roles
  <2> QED BY <1>0, <2>1
<1>5. \A i \in At(p, "size") :
         /\ i \in DOMAIN p
         /\ val(i) = IF i \in DOMAIN input_file THEN input_file[i] ELSE np
  <2> SUFFICES ASSUME NEW i \in At(p, "size")
               PROVE  /\ i \in DOMAIN p
                      /\ val(i) = IF i \in DOMAIN input_file
                                  THEN input_file[i] ELSE np
    OBVIOUS
  <2>1. i \in DOMAIN p /\ p[i] = {"size"}
    BY <1>6 DEF At, Roles
  <2> QED BY <1>0, <2>1
<1> HIDE DEF val
<1> QED BY <1>2, <1>3, <1>4, <1>5

\* An execution of the running job: its tag, and what it records of a path.
LEMMA ExecutionValues ==
    ASSUME TypeOK, NEW e \in Executions
    PROVE  /\ Execution(e) /\ e.tag = num_iters_ /\ e.kinds \in Paths
           /\ ~e.garbled
           /\ \A i \in At(e.kinds, "rank") : e.inputs[i] = target_rank_
           /\ \A i \in At(e.kinds, "size") :
                 e.inputs[i] =
                    IF i \in DOMAIN input_file THEN input_file[i] ELSE np
<1>0. PICK p \in Paths :
         e \in {[tag |-> num_iters_, constraints |-> TRUE, garbled |-> FALSE,
                 kinds |-> p, inputs |-> Marked(p, LocalRank(m), fresh),
                 members |-> IF At(p, "comm") = {} THEN <<>> ELSE m] :
                   m \in Communicators, fresh \in [DOMAIN p -> DataValues]}
  BY DEF Executions
<1>1. PICK m \in Communicators, fresh \in [DOMAIN p -> DataValues] :
         e = [tag |-> num_iters_, constraints |-> TRUE, garbled |-> FALSE,
              kinds |-> p, inputs |-> Marked(p, LocalRank(m), fresh),
              members |-> IF At(p, "comm") = {} THEN <<>> ELSE m]
  BY <1>0
<1>2. m \in Seq(Int) /\ LocalRank(m) \in Int
  BY LocalRankTyped DEF TypeOK
<1>3. /\ Marked(p, LocalRank(m), fresh) \in [DOMAIN p -> Int]
      /\ \A i \in At(p, "rank") :
            Marked(p, LocalRank(m), fresh)[i] = target_rank_
      /\ \A i \in At(p, "size") :
            Marked(p, LocalRank(m), fresh)[i] =
               IF i \in DOMAIN input_file THEN input_file[i] ELSE np
  BY <1>2, MarkedValues
<1>4. p \in Seq(Kinds) /\ num_iters_ \in Nat
  BY PathKinds DEF TypeOK
<1>5. Marked(p, LocalRank(m), fresh) \in Seq(Int)
  BY <1>3, <1>4, IntSeq
<1>6. <<>> \in Seq(Int)
  OBVIOUS
<1>7. Execution(e)
  BY <1>1, <1>2, <1>3, <1>4, <1>5, <1>6 DEF Execution
<1> QED BY <1>1, <1>3, <1>7

MPIStates == [kinds : Seq(Kinds), members : Seq(Int), garbled : BOOLEAN]

\* A solution changes only solved variables: the ranks to one rank, the
\* sizes to one size, the rank below the size when the program marked both.
Solves(sol, ex, C, mpi) ==
    /\ sol \in [DOMAIN ex.inputs -> Int]
    /\ \A i \in DOMAIN ex.inputs \ C : sol[i] = ex.inputs[i]
    /\ \E rank \in RankValues, size \in Nat :
          /\ \A i \in C \cap At(mpi.kinds, "rank") : sol[i] = rank
          /\ \A i \in C \cap At(mpi.kinds, "size") : sol[i] = size
          /\ Ordered(mpi.kinds) => rank < size
          /\ ~mpi.garbled => size <= WorldSizeLimit

\* What the constraints of GenerateConstraintsMPI make of a solution.
LEMMA SolutionValues ==
    ASSUME NEW ex, Execution(ex), 
           NEW mpi \in MPIStates,
           NEW C \in SUBSET DOMAIN ex.inputs, NEW sol \in Solutions(ex, C, mpi)
    PROVE  Solves(sol, ex, C, mpi)
<1>1. PICK w \in Assignments(C, mpi) :
         /\ sol = Assign(ex, C, mpi, w) /\ Consistent(w, C, mpi.kinds)
         /\ Ordered(mpi.kinds) => w.rank < w.size
  BY DEF Solutions
<1>2. /\ w.rank \in RankValues /\ w.size \in Nat /\ w.comm \in Nat
      /\ w.data \in [C -> DataValues]
      /\ ~mpi.garbled => w.size <= WorldSizeLimit
  BY LaunchAssumption DEF Assignments
<1>3. RankValues \subseteq Nat /\ DataValues \subseteq Int
      /\ ex.inputs \in Seq(Int)
  BY LaunchAssumption DEF Execution
<1>10. w.rank \in Int
  <2>1. \A r \in RankValues : r \in Int
    BY <1>3
  <2> QED BY <1>2, <2>1
<1> DEFINE K(i) == Kind(mpi.kinds, i)
           val(i) == IF i \notin C THEN ex.inputs[i]
                     ELSE IF K(i) = Data THEN w.data[i]
                     ELSE w[CHOOSE k \in K(i) : TRUE]
<1>4. sol = [i \in DOMAIN ex.inputs |-> val(i)]
  BY <1>1 DEF Assign
<1>11. \A i : K(i) \in SUBSET Roles
  BY DEF Kind, Kinds, Data, MPIStates
<1>5. \A i \in DOMAIN ex.inputs : val(i) \in Int
  <2> SUFFICES ASSUME NEW i \in DOMAIN ex.inputs PROVE val(i) \in Int
    OBVIOUS
  <2>1. CASE i \notin C
    BY <1>3, <2>1
  <2>2. CASE i \in C /\ K(i) = Data
    <3>1. w.data[i] \in Int
      BY <1>2, <1>3, <2>2
    <3> QED BY <2>2, <3>1
  <2>3. CASE i \in C /\ K(i) # Data
    <3> DEFINE k == CHOOSE k \in K(i) : TRUE
    <3>1. k \in Roles
      BY <1>11, <2>3 DEF Data
    <3>2. w[k] \in Int
      <4> HIDE DEF k
      <4> QED BY <1>2, <1>10, <3>1 DEF Roles
    <3> QED BY <2>3, <3>2
  <2> QED BY <2>1, <2>2, <2>3
<1>6. \A i \in DOMAIN ex.inputs \ C : val(i) = ex.inputs[i]
  OBVIOUS
<1>12. ASSUME NEW j, NEW i \in C, j \in K(i)
       PROVE  val(i) = w[j]
  <2>1. K(i) # Data
    BY <1>12 DEF Data
  <2>2. (CHOOSE k \in K(i) : TRUE) \in K(i)
    BY <1>12
  <2>3. w[CHOOSE k \in K(i) : TRUE] = w[j]
    BY <1>1, <1>12, <2>2 DEF Consistent
  <2> QED BY <2>1, <2>3
<1>7. \A i \in C \cap At(mpi.kinds, "rank") : val(i) = w.rank
  <2> SUFFICES ASSUME NEW i \in C \cap At(mpi.kinds, "rank")
               PROVE  val(i) = w.rank
    OBVIOUS
  <2>1. "rank" \in K(i)
    BY DEF At, Kind
  <2> QED BY <1>10, <1>12, <2>1
<1>8. \A i \in C \cap At(mpi.kinds, "size") : val(i) = w.size
  <2> SUFFICES ASSUME NEW i \in C \cap At(mpi.kinds, "size")
               PROVE  val(i) = w.size
    OBVIOUS
  <2>1. "size" \in K(i)
    BY DEF At, Kind
  <2> QED BY <1>10, <1>12, <2>1
<1> HIDE DEF val, K
<1>9. sol \in [DOMAIN ex.inputs -> Int]
  BY <1>4, <1>5
<1> QED BY <1>1, <1>2, <1>4, <1>6, <1>7, <1>8, <1>9 DEF Solves

\* Redirecting the focus leaves a vector of integers.
LEMMA MergedTyped ==
    ASSUME NEW ex, Execution(ex),
           NEW sol \in [DOMAIN ex.inputs -> Int], NEW ranks, NEW comms,
           NEW merge \in Merged(ex, sol, ranks, comms)
    PROVE  merge \in [DOMAIN ex.inputs -> Int]
<1>1. \A y : GlobalRanks(ex, y) \subseteq Int
  <2>1. ex.members \in Seq(Int) /\ WildValues \subseteq Int
    BY LaunchAssumption DEF Execution
  <2>2. \A k \in DOMAIN ex.members : ex.members[k] \in Int
    BY <2>1
  <2> QED BY <2>1, <2>2 DEF GlobalRanks
<1> DEFINE moved == {i \in comms \cap DOMAIN ex.inputs : sol[i] # ex.inputs[i]}
           change == num_iters_ > Warmup /\ moved # {}
<1>2. CASE change
  <2>1. PICK g \in GlobalRanks(ex, sol[First(moved)]) :
           merge = [i \in DOMAIN sol |-> IF i \in ranks THEN g ELSE sol[i]]
    BY <1>2 DEF Merged
  <2> QED BY <1>1, <2>1
<1>3. CASE ~change
  BY <1>3 DEF Merged
<1> QED BY <1>2, <1>3

\* The chosen rank or size is an integer.
LEMMA ChosenTyped ==
    ASSUME NEW inputs \in Seq(Int), NEW indices,
           NEW old \in Int, NEW x \in Chosen(inputs, indices, old)
    PROVE  x \in Int
<1>1. WildValues \subseteq Int
  BY LaunchAssumption
<1>2. \A i \in DOMAIN inputs : inputs[i] \in Int
  OBVIOUS
<1> QED BY <1>1, <1>2 DEF Chosen

LEMMA LaunchProgramTyped ==
    ASSUME TypeOK, LaunchProgram(next_input)
    PROVE  /\ target_rank_' \in Int /\ comm_world_size_' \in Int
           /\ input_file' \in Seq(Int) /\ np' \in Int
<1>1. target_rank_ \in Int /\ comm_world_size_ \in Int
      /\ next_input \in Seq(Int) /\ input_file \in Seq(Int)
  BY DEF TypeOK
<1>2. target_rank_' \in Int /\ comm_world_size_' \in Int
  BY <1>1, ChosenTyped DEF LaunchProgram
<1>3. np' \in Int
  BY <1>2 DEF LaunchProgram, Requested
<1> QED BY <1>1, <1>2, <1>3 DEF LaunchProgram

-----------------------------------------------------------------------------
(* Type correctness.                                                       *)

\* The next input SolveAtBranch leaves is a vector of integers.
LEMMA SolveAtBranchTyped ==
    ASSUME TypeOK, NEW ex \in held, SolveAtBranch(ex)
    PROVE  TypeOK'
<1>1. Execution(ex)
  BY DEF TypeOK
<1>2. /\ ex.tag \in Nat /\ ex.kinds \in Seq(Kinds) /\ ex.inputs \in Seq(Int)
      /\ ex.members \in Seq(Int) /\ DOMAIN ex.inputs = DOMAIN ex.kinds
  BY <1>1 DEF Execution
<1>3. \A k : At(ex.kinds, k) \subseteq Nat
  BY <1>2, AtIsPositions
<1>4. /\ execution_tag_' \in Nat
      /\ rank_indices_' \subseteq Nat /\ world_size_indices_' \subseteq Nat
      /\ comm_indices_' \subseteq Nat
      /\ constraintsMPI' \in MPIStates
  <2>1. CASE execution_tag_ = ex.tag
    BY <2>1 DEF SolveAtBranch, Refresh, TypeOK, solver, MPIStates
  <2>2. CASE execution_tag_ # ex.tag
    <3>1. MPI(ex) \in MPIStates
      BY <1>1, <1>2 DEF Execution, MPI, MPIStates
    <3>2. /\ execution_tag_' = ex.tag
          /\ rank_indices_' = At(ex.kinds, "rank")
          /\ world_size_indices_' = At(ex.kinds, "size")
          /\ comm_indices_' = At(ex.kinds, "comm")
          /\ constraintsMPI' = MPI(ex)
      BY <2>2 DEF SolveAtBranch, Refresh
    <3> QED BY <1>2, <1>3, <3>1, <3>2
  <2> QED BY <2>1, <2>2
<1>5. phase' \in {"search", "ready", "undefined"} /\ next_input' \in Seq(Int)
  <2>1. CASE UNCHANGED next_input /\ phase' \in {phase, "undefined"}
    BY <2>1 DEF SolveAtBranch, TypeOK
  <2>2. CASE ~(UNCHANGED next_input /\ phase' \in {phase, "undefined"})
    <3>1. PICK C \in SUBSET DOMAIN ex.inputs :
             \E sol \in Solutions(ex, C, constraintsMPI') :
                next_input' \in
                   Merged(ex, sol, rank_indices_', comm_indices_')
      BY <2>2 DEF SolveAtBranch
    <3>5. PICK sol \in Solutions(ex, C, constraintsMPI') :
           next_input' \in Merged(ex, sol, rank_indices_', comm_indices_')
      BY <3>1
    <3>2. sol \in [DOMAIN ex.inputs -> Int]
      BY <1>1, <1>4, SolutionValues DEF Solves
    <3>3. next_input' \in [DOMAIN ex.inputs -> Int]
      BY <1>1, <3>5, <3>2, MergedTyped
    <3>4. phase' = "ready"
      BY <2>2 DEF SolveAtBranch
    <3> QED BY <1>2, <3>3, <3>4, IntSeq
  <2> QED BY <2>1, <2>2
<1> QED
  BY <1>4, <1>5 DEF SolveAtBranch, TypeOK, chosen, files, MPIStates

\* Losing index vectors leaves an execution of the same variables.
LEMMA GarbledTyped ==
    ASSUME NEW e, Execution(e), NEW f \in Garbled(e)
    PROVE  Execution(f) /\ f.tag = e.tag
<1>1. PICK lost \in {Roles, {"comm", "size"}, {"size"}} :
         f \in {Losing(e, lost, zeros) :
                   zeros \in IF At(e.kinds, LastRead(lost)) = {} THEN BOOLEAN
                             ELSE {TRUE}}
  BY DEF Garbled
<1>2. PICK zeros : f = Losing(e, lost, zeros)
  BY <1>1
<1> DEFINE K == [i \in DOMAIN e.kinds |->
                   (e.kinds[i] \ lost) \cup (IF zeros /\ i = 1 THEN lost ELSE {})]
<1>3. e.kinds \in Seq(Kinds) /\ lost \in Kinds
  BY DEF Execution, Kinds, Roles
<1>4. \A i \in DOMAIN e.kinds : K[i] \in Kinds
  BY <1>3 DEF Kinds
<1>5. K \in Seq(Kinds) /\ DOMAIN K = DOMAIN e.kinds
  <2>1. DOMAIN e.kinds = 1..Len(e.kinds) /\ Len(e.kinds) \in Nat
    BY <1>3
  <2> HIDE DEF K
  <2>2. DOMAIN K = DOMAIN e.kinds
    BY DEF K
  <2>3. K \in [1..Len(e.kinds) -> Kinds]
    BY <1>4, <2>1 DEF K
  <2> QED BY <2>1, <2>2, <2>3
<1>6. f = [e EXCEPT !.garbled = TRUE, !.kinds = K]
  BY <1>2 DEF Losing
<1> HIDE DEF K
<1>7. /\ f.tag = e.tag /\ f.constraints = e.constraints /\ f.garbled = TRUE
      /\ f.kinds = K /\ f.inputs = e.inputs /\ f.members = e.members
      /\ f \in [tag : Nat, constraints : BOOLEAN, garbled : BOOLEAN,
                kinds : Seq(Kinds), inputs : Seq(Int), members : Seq(Int)]
  BY <1>5, <1>6 DEF Execution
<1> QED BY <1>5, <1>7 DEF Execution

\* The job leaves the old szd_execution, or one with its own tag.
LEMMA WrittenTyped ==
    ASSUME TypeOK, NEW wrote, NEW cut, NEW ok, JobEnds(wrote, cut, ok)
    PROVE  /\ Execution(szd')
           /\ UNCHANGED szd \/ szd'.tag = num_iters_
           /\ cut # "indices" => UNCHANGED szd \/ szd' \in Executions
<1>1. CASE target_rank_ \in wrote
  <2>1. PICK e \in Executions :
           szd' \in IF cut = "indices" THEN Garbled(e) ELSE {e}
    BY <1>1 DEF JobEnds
  <2>2. Execution(e) /\ e.tag = num_iters_
    BY ExecutionValues
  <2> QED BY <2>1, <2>2, GarbledTyped
<1>2. CASE target_rank_ \notin wrote
  BY <1>2 DEF JobEnds, TypeOK
<1> QED BY <1>1, <1>2

\* What a parse leaves has the types of an execution, cut or not.
LEMMA ParsedTyped ==
    ASSUME TypeOK, NEW into \in held \cup {NoExec}, NEW e \in Parsed(into)
    PROVE  Execution(e)
<1>1. Execution(into)
  <2>1. Execution(NoExec)
    <3>1. <<>> \in Seq(Kinds) /\ <<>> \in Seq(Int)
      OBVIOUS
    <3> QED BY <3>1 DEF Execution, NoExec
  <2> QED BY <2>1 DEF TypeOK
<1>2. Execution(szd)
  BY DEF TypeOK
<1>3. CASE szd = NoExec
  BY <1>1, <1>3 DEF Parsed
<1>4. CASE szd # NoExec /\ szd_cut = "inputs"
  <2>1. PICK n \in Nat, k \in Nat :
           k <= Len(szd.inputs) /\ e \in HalfRead(into, n, k)
    <3>1. Len(szd.inputs) \in Nat
      BY <1>2 DEF Execution
    <3>2. \/ \E k \in 0..Len(szd.inputs) : e \in HalfRead(into, Len(szd.inputs), k)
          \/ \E n \in WildValues \cap Nat : e \in HalfRead(into, n, 0)
      BY <1>4 DEF Parsed
    <3> QED BY <3>1, <3>2
  <2> DEFINE K == [i \in 1..n |-> IF i = 1 THEN Roles ELSE Data]
             X == [i \in 1..n |-> IF i <= k THEN szd.inputs[i]
                                  ELSE IF i \in DOMAIN into.inputs
                                       THEN into.inputs[i] ELSE 0]
  <2>2. PICK tag \in Nat :
           e = [into EXCEPT !.tag = tag, !.garbled = TRUE, !.members = <<>>,
                            !.kinds = K, !.inputs = X]
    BY <1>1, <2>1 DEF HalfRead, Execution
  <2>3. /\ szd.inputs \in Seq(Int) /\ into.inputs \in Seq(Int)
        /\ \A i \in DOMAIN szd.inputs : szd.inputs[i] \in Int
        /\ \A i \in DOMAIN into.inputs : into.inputs[i] \in Int
        /\ DOMAIN szd.inputs = 1..Len(szd.inputs) /\ Len(szd.inputs) \in Nat
    BY <1>1, <1>2 DEF Execution
  <2>4. X \in Seq(Int) /\ DOMAIN X = 1..n
    <3>1. \A i \in 1..n : X[i] \in Int
      BY <2>1, <2>3
    <3> QED BY <3>1
  <2>5. K \in Seq(Kinds) /\ DOMAIN K = 1..n
    <3>1. \A i \in 1..n : K[i] \in Kinds
      BY DEF Kinds, Data
    <3> QED BY <3>1
  <2> HIDE DEF K, X
  <2>6. /\ e \in [tag : Nat, constraints : BOOLEAN, garbled : BOOLEAN,
                  kinds : Seq(Kinds), inputs : Seq(Int), members : Seq(Int)]
        /\ e.kinds = K /\ e.inputs = X
    <3>1. <<>> \in Seq(Int)
      OBVIOUS
    <3> QED BY <1>1, <2>2, <2>4, <2>5, <3>1 DEF Execution
  <2> QED BY <2>4, <2>5, <2>6 DEF Execution
<1>5. CASE szd # NoExec /\ szd_cut \in {"indices", "branches"}
  <2>1. e = [szd EXCEPT !.constraints = into.constraints]
    BY <1>5 DEF Parsed
  <2> QED BY <1>1, <1>2, <2>1 DEF Execution
<1>6. CASE szd # NoExec /\ szd_cut = "none"
  BY <1>2, <1>6 DEF Parsed
<1>7. szd_cut \in {"none", "inputs", "indices", "branches"}
  BY LaunchAssumption DEF TypeOK
<1> QED BY <1>3, <1>4, <1>5, <1>6, <1>7

\* Every variable has its type, whatever the paths, limits, leftovers and
\* restarts of the instance.
THEOREM LaunchTypes ==
    Spec => []TypeOK
<1>1. Init => TypeOK
  <2> SUFFICES ASSUME Init PROVE TypeOK
    OBVIOUS
  <2>1. <<>> \in Seq(Kinds) /\ <<>> \in Seq(Int)
    OBVIOUS
  <2>2. Execution(NoExec) /\ MPI(NoExec) \in MPIStates
    BY <2>1 DEF Execution, NoExec, MPI, MPIStates
  <2>3. Execution(szd) /\ input_file \in Seq(Int)
    BY LaunchAssumption DEF Init
  <2> QED BY <2>1, <2>2, <2>3, LaunchAssumption DEF Init, TypeOK, MPIStates
<1>2. TypeOK /\ [Next]_vars => TypeOK'
  <2> SUFFICES ASSUME TypeOK, [Next]_vars PROVE TypeOK'
    OBVIOUS
  <2>1. CASE RunProgram
    <3>1. num_iters_' \in Nat /\ reported' = {} /\ merged' = {}
          /\ phase' \in {"exited", "launched"}
      BY <2>1 DEF RunProgram, TypeOK
    <3>2. /\ target_rank_' \in Int /\ comm_world_size_' \in Int
          /\ input_file' \in Seq(Int) /\ np' \in Int
      BY <2>1, LaunchProgramTyped DEF RunProgram, TypeOK, chosen
    <3> QED BY <2>1, <3>1, <3>2 DEF RunProgram, TypeOK, solver
  <2>2. ASSUME NEW wrote \in SUBSET (0..(np - 1)), NEW cut \in Cuts \cup {"none"},
               NEW ok \in BOOLEAN, JobEnds(wrote, cut, ok)
        PROVE  TypeOK'
    <3>1. Execution(szd')
      BY <2>2, WrittenTyped DEF TypeOK
    <3>2. /\ light' \subseteq Ranks /\ szd_cut' \in Cuts \cup {"none"}
          /\ cuts' \subseteq Cuts
      BY <2>2 DEF JobEnds, TypeOK
    <3>3. reported' \subseteq Int /\ input_file' \in Seq(Int)
      BY <2>2 DEF JobEnds, TypeOK
    <3> QED BY <2>2, <3>1, <3>2, <3>3 DEF JobEnds, TypeOK, chosen, solver
  <2>3. ASSUME NEW into \in held \cup {NoExec}, ReadExecution(into)
        PROVE  TypeOK'
    <3>1. \A ex \in Parsed(into) : Execution(ex)
      BY ParsedTyped
    <3>2. \A e \in held' : Execution(e)
      BY <2>3, <3>1 DEF ReadExecution, TypeOK
    <3> QED BY <2>3, <3>2 DEF ReadExecution, TypeOK, chosen, solver, files
  <2>4. CASE UpdateCoverage
    BY <2>4 DEF UpdateCoverage, TypeOK, chosen, solver, files
  <2>5. ASSUME NEW ex \in held, SolveAtBranch(ex)
        PROVE  TypeOK'
    BY <2>5, SolveAtBranchTyped
  <2>6. CASE Restart
    <3>1. next_input' \in Seq(Int)
      BY <2>6 DEF Restart
    <3>2. /\ rank_indices_' \subseteq Nat /\ world_size_indices_' \subseteq Nat
          /\ comm_indices_' \subseteq Nat
      BY <2>6 DEF Restart, TypeOK
    <3> QED BY <2>6, <3>1, <3>2 DEF Restart, TypeOK, chosen, files
  <2>7. CASE UNCHANGED vars
    BY <2>7 DEF vars, TypeOK, chosen, solver, files
  <2>8. CASE ReadFails
    BY <2>8 DEF ReadFails, TypeOK, chosen, solver, files
  <2> QED BY <2>1, <2>2, <2>3, <2>4, <2>5, <2>6, <2>7, <2>8 DEF Next
<1> QED BY <1>1, <1>2, PTL DEF Spec

-----------------------------------------------------------------------------
(* The focus is a process of the job.                                      *)

\* A refused, redirected or wild rank never leaves the focus outside a job
\* that has processes: the guard of LaunchProgram keeps negative ranks out
\* and the mpirun command makes room for a rank past the size.
THEOREM FocusIsInJob ==
    ASSUME InitTarget \in Nat
    PROVE  Spec => []FocusInJob
<1> DEFINE Inv == target_rank_ \in Nat /\ FocusInJob
<1>1. Init => Inv
  BY DEF Init, FocusInJob
<1>2. TypeOK /\ Inv /\ [Next]_vars => Inv'
  <2> SUFFICES ASSUME TypeOK, Inv, [Next]_vars PROVE Inv'
    OBVIOUS
  <2>1. CASE RunProgram
    <3>1. CASE num_iters_ + 1 > MaxIters
      BY <2>1, <3>1 DEF RunProgram, FocusInJob, chosen
    <3>2. CASE ~(num_iters_ + 1 > MaxIters)
      <4>1. LaunchProgram(next_input)
        BY <2>1, <3>2 DEF RunProgram
      <4>2. next_input \in Seq(Int) /\ comm_world_size_' \in Int
        BY <4>1, LaunchProgramTyped DEF TypeOK
      <4>3. target_rank_' \in Nat
        <5>1. PICK target \in Chosen(next_input, rank_indices_, target_rank_) :
                 \/ target_rank_' = target_rank_
                 \/ target_rank_' = target /\ ~(target < 0)
          BY <4>1 DEF LaunchProgram
        <5>2. target \in Int
          BY <4>2, ChosenTyped DEF TypeOK
        <5> QED BY <5>1, <5>2
      <4>4. np' = Requested(target_rank_', comm_world_size_')
        BY <4>1 DEF LaunchProgram
      <4>5. np' > 0 => target_rank_' \in 0..(np' - 1)
        BY <4>2, <4>3, <4>4, RequestedHoldsFocus
      <4> QED BY <4>3, <4>5 DEF FocusInJob
    <3> QED BY <3>1, <3>2
  <2>2. ASSUME NEW wrote, NEW cut, NEW ok, JobEnds(wrote, cut, ok)
        PROVE  Inv'
    BY <2>2 DEF JobEnds, FocusInJob, chosen
  <2>3. ASSUME NEW into, ReadExecution(into)
        PROVE  Inv'
    BY <2>3 DEF ReadExecution, FocusInJob, chosen
  <2>4. CASE UpdateCoverage
    BY <2>4 DEF UpdateCoverage, FocusInJob, chosen
  <2>5. ASSUME NEW ex \in held, SolveAtBranch(ex)
        PROVE  Inv'
    BY <2>5 DEF SolveAtBranch, FocusInJob, chosen
  <2>6. CASE Restart
    BY <2>6 DEF Restart, FocusInJob, chosen
  <2>7. CASE UNCHANGED vars
    BY <2>7 DEF vars, FocusInJob, chosen
  <2>8. CASE ReadFails
    BY <2>8 DEF ReadFails, FocusInJob, chosen
  <2> QED BY <2>1, <2>2, <2>3, <2>4, <2>5, <2>6, <2>7, <2>8 DEF Next
<1>3. Inv => FocusInJob
  OBVIOUS
<1> QED BY <1>1, <1>2, <1>3, LaunchTypes, PTL DEF Spec

-----------------------------------------------------------------------------
(* Tags and the cached MPI state.                                          *)

\* What the next solve may start from: the retained executions and the one
\* in szd_execution, which a failed run leaves for the driver to read again.
Known == held \cup {szd}

SameMarks(e, f) ==
    /\ e.kinds = f.kinds /\ e.inputs = f.inputs
    /\ e.members = f.members /\ e.garbled = f.garbled

Cached(e) ==
    /\ constraintsMPI = MPI(e)
    /\ rank_indices_ \in {{}, At(e.kinds, "rank")}
    /\ world_size_indices_ \in {{}, At(e.kinds, "size")}
    /\ comm_indices_ = At(e.kinds, "comm")

\* A running job's tag is newer than every other.
TagsInv ==
    /\ \A e \in Known : e.tag <= num_iters_
    /\ execution_tag_ <= num_iters_
    /\ phase = "launched" => /\ \A e \in Known : e.tag < num_iters_
                             /\ execution_tag_ < num_iters_
    /\ \A e, f \in Known : e.tag = f.tag => SameMarks(e, f)
    /\ \A e \in Known : e.tag = execution_tag_ => Cached(e)

\* The inductive invariant: so it is until a file is cut before its tag.
TagInv ==
    /\ szd_cut \in cuts \cup {"none"}
    /\ "inputs" \notin cuts => TagsInv

\* Reading szd_execution adds no execution with new marks or a new tag,
\* unless the file was cut before its tag.
LEMMA ReadKnown ==
    ASSUME TypeOK, szd_cut # "inputs", NEW into \in held \cup {NoExec},
           ReadExecution(into), NEW e \in Known'
    PROVE  \E f \in Known : e.tag = f.tag /\ SameMarks(e, f)
<1>1. CASE e \in Known
  BY <1>1 DEF SameMarks
<1>2. CASE e \notin Known
  <2>1. e \in Parsed(into) /\ e # NoExec
    BY <1>2 DEF ReadExecution, Known, files
  <2>2. e # into /\ e # szd
    BY <1>2, <2>1 DEF Known
  <2>0. szd_cut \in {"none", "indices", "branches"}
    BY LaunchAssumption DEF TypeOK
  <2>3. szd # NoExec /\ szd_cut \in {"indices", "branches"}
    BY <2>0, <2>1, <2>2 DEF Parsed
  <2>4. e = [szd EXCEPT !.constraints = into.constraints]
    BY <2>1, <2>3 DEF Parsed
  <2>5. e.tag = szd.tag /\ SameMarks(e, szd)
    BY <2>4 DEF TypeOK, Execution, SameMarks
  <2> QED BY <2>5 DEF Known
<1> QED BY <1>1, <1>2

LEMMA TagInvariant ==
    ASSUME LeftoverExecutions = {NoExec}
    PROVE  Spec => []TagInv
<1>1. Init => TagInv
  <2> SUFFICES ASSUME Init PROVE TagInv
    OBVIOUS
  <2>1. /\ Known = {NoExec} /\ execution_tag_ = 0 /\ num_iters_ = 0
        /\ phase = "ready" /\ szd_cut = "none"
    BY DEF Init, Known
  <2>2. constraintsMPI = MPI(NoExec)
        /\ rank_indices_ = {} /\ world_size_indices_ = {}
        /\ comm_indices_ = {}
    BY DEF Init
  <2>3. At(<<>>, "comm") = {}
    BY DEF At
  <2>4. Cached(NoExec)
    BY <2>2, <2>3 DEF Cached, NoExec
  <2> QED BY <2>1, <2>4 DEF TagInv, TagsInv, SameMarks, NoExec
<1>2. TypeOK /\ TagInv /\ [Next]_vars => TagInv'
  <2> SUFFICES ASSUME TypeOK, TagInv, [Next]_vars PROVE TagInv'
    OBVIOUS
  <2> USE DEF TagInv
  <2>0. /\ num_iters_ \in Nat /\ execution_tag_ \in Nat
        /\ \A e \in Known : e.tag \in Nat
    BY DEF TypeOK, Known, Execution
  <2>1. CASE RunProgram
    <3>1. /\ Known' = Known /\ num_iters_' = num_iters_ + 1
          /\ UNCHANGED <<solver, szd_cut, cuts>>
      BY <2>1 DEF RunProgram, Known
    <3>2. \A e : Cached(e) => Cached(e)'
      BY <3>1 DEF Cached, solver
    <3>3. TagsInv => TagsInv'
      BY <2>0, <3>1, <3>2 DEF TagsInv, solver, SameMarks
    <3> QED BY <3>1, <3>3
  <2>2. ASSUME NEW wrote \in SUBSET (0..(np - 1)), NEW cut \in Cuts \cup {"none"},
               NEW ok \in BOOLEAN, JobEnds(wrote, cut, ok)
        PROVE  TagInv'
    <3>1. /\ UNCHANGED <<num_iters_, solver, held>>
          /\ phase = "launched" /\ phase' = "ended"
      BY <2>2 DEF JobEnds
    <3>2. szd' = szd \/ szd'.tag = num_iters_
      BY <2>2, WrittenTyped
    <3>3. \A e : Cached(e) => Cached(e)'
      BY <3>1 DEF Cached, solver
    <3>4. TagsInv => TagsInv'
      BY <2>0, <3>1, <3>2, <3>3 DEF TagsInv, solver, SameMarks, Known
    <3>5. cuts \subseteq cuts' /\ szd_cut' \in cuts' \cup {"none"}
      BY <2>2 DEF JobEnds
    <3> QED BY <3>4, <3>5
  <2>3. ASSUME NEW into \in held \cup {NoExec}, ReadExecution(into)
        PROVE  TagInv'
    <3>1. /\ UNCHANGED <<num_iters_, solver, szd_cut, cuts>>
          /\ phase' = "parsed"
      BY <2>3 DEF ReadExecution, files
    <3> SUFFICES ASSUME "inputs" \notin cuts PROVE TagsInv'
      BY <3>1
    <3>2. \A e \in Known' : \E f \in Known : e.tag = f.tag /\ SameMarks(e, f)
      BY <2>3, ReadKnown
    <3>3. \A e, f : Cached(f) /\ SameMarks(e, f) => Cached(e)'
      BY <3>1 DEF Cached, solver, SameMarks, MPI
    <3> QED BY <3>1, <3>2, <3>3 DEF TagsInv, solver, SameMarks
  <2>4. CASE UpdateCoverage
    <3>1. /\ UNCHANGED <<num_iters_, solver, Known, szd_cut, cuts>>
          /\ phase' = "search"
      BY <2>4 DEF UpdateCoverage, Known, files
    <3>2. \A e : Cached(e) => Cached(e)'
      BY <3>1 DEF Cached, solver
    <3> QED BY <3>1, <3>2 DEF TagsInv, solver, SameMarks
  <2>5. ASSUME NEW ex \in held, SolveAtBranch(ex)
        PROVE  TagInv'
    <3>1. /\ UNCHANGED <<num_iters_, Known, szd_cut, cuts>>
          /\ phase' # "launched" /\ ex \in Known
      BY <2>5 DEF SolveAtBranch, Known, files
    <3>2. CASE execution_tag_ = ex.tag
      <4>1. UNCHANGED solver
        BY <2>5, <3>2 DEF SolveAtBranch, Refresh
      <4>2. \A e : Cached(e) => Cached(e)'
        BY <4>1 DEF Cached, solver
      <4> QED BY <3>1, <4>1, <4>2 DEF TagsInv, solver, SameMarks
    <3>3. CASE execution_tag_ # ex.tag
      <4>1. execution_tag_' = ex.tag /\ Cached(ex)'
        BY <2>5, <3>3 DEF SolveAtBranch, Refresh, Cached
      <4>2. \A e : SameMarks(e, ex) => Cached(e)'
        BY <4>1 DEF Cached, SameMarks, MPI
      <4> QED BY <3>1, <4>1, <4>2 DEF TagsInv, SameMarks
    <3> QED BY <3>2, <3>3
  <2>6. CASE Restart
    <3>1. /\ UNCHANGED <<num_iters_, execution_tag_, szd, szd_cut, cuts>>
          /\ held' = {} /\ phase' = "ready"
      BY <2>6 DEF Restart, files
    <3>2. \A e : Cached(e) => Cached(e)'
      BY <2>6 DEF Restart, Cached
    <3> QED BY <3>1, <3>2 DEF TagsInv, SameMarks, Known
  <2>7. CASE UNCHANGED vars
    <3>1. UNCHANGED <<num_iters_, solver, Known, phase, szd_cut, cuts>>
      BY <2>7 DEF vars, Known, files
    <3>2. \A e : Cached(e) => Cached(e)'
      BY <3>1 DEF Cached, solver
    <3> QED BY <3>1, <3>2 DEF TagsInv, solver, SameMarks
  <2>8. CASE ReadFails
    <3>1. /\ UNCHANGED <<num_iters_, solver, Known, szd_cut, cuts>>
          /\ phase' = "exited"
      BY <2>8 DEF ReadFails, Known, files
    <3>2. \A e : Cached(e) => Cached(e)'
      BY <3>1 DEF Cached, solver
    <3> QED BY <3>1, <3>2 DEF TagsInv, solver, SameMarks
  <2> QED BY <2>1, <2>2, <2>3, <2>4, <2>5, <2>6, <2>7, <2>8 DEF Next
<1> QED BY <1>1, <1>2, LaunchTypes, PTL DEF Spec

\* In a directory without files of an earlier session, executions with the
\* same tag have the same variables, inputs and communicator, and the cached
\* indices and constraints are those of the execution with the cached tag,
\* through crashes, restarts, stale files and files cut anywhere behind
\* their tag.
THEOREM TagsAndCache ==
    ASSUME LeftoverExecutions = {NoExec}
    PROVE  Spec => [](TagsDifferentiate /\ CacheCoherent)
<1>1. TagInv => TagsDifferentiate /\ CacheCoherent
  BY DEF TagInv, TagsInv, TagsDifferentiate, CacheCoherent, Known, SameMarks,
     Cached, MPI
<1> QED BY <1>1, TagInvariant, PTL

\* The input SolveAtBranch leaves has a value for every variable the solved
\* execution marked.
LEMMA SolvedInput ==
    ASSUME TypeOK, NEW ex \in held, SolveAtBranch(ex), phase' = "ready"
    PROVE  /\ DOMAIN next_input' = DOMAIN ex.kinds
           /\ \A k : At(ex.kinds, k) \subseteq DOMAIN next_input'
<1>1. Execution(ex) /\ DOMAIN ex.inputs = DOMAIN ex.kinds /\ ex.kinds \in Seq(Kinds)
  BY DEF TypeOK, Execution
<1>2. constraintsMPI' \in MPIStates
  BY SolveAtBranchTyped DEF TypeOK, MPIStates
<1>0. phase # "ready" /\ phase' # "undefined"
  BY DEF SolveAtBranch
<1>3. PICK C \in SUBSET DOMAIN ex.inputs :
         \E sol \in Solutions(ex, C, constraintsMPI') :
            next_input' \in Merged(ex, sol, rank_indices_', comm_indices_')
  BY <1>0 DEF SolveAtBranch
<1>4. PICK sol \in Solutions(ex, C, constraintsMPI') :
         next_input' \in Merged(ex, sol, rank_indices_', comm_indices_')
  BY <1>3
<1>5. sol \in [DOMAIN ex.inputs -> Int]
  BY <1>1, <1>2, SolutionValues DEF Solves
<1>6. next_input' \in [DOMAIN ex.inputs -> Int]
  BY <1>1, <1>4, <1>5, MergedTyped
<1> QED BY <1>1, <1>6, AtIsPositions

\* LaunchProgram never indexes outside the next input, through crashes, files
\* cut behind their tag, redirects and a cache that a restart half emptied, when the
\* directory was fresh and a strategy that restarts clears the index vectors
\* (concolic_search.cc:239-242; 797, where they are kept).
THEOREM IndicesHold ==
    ASSUME LeftoverExecutions = {NoExec}, Restarts # "keeping"
    PROVE  Spec => []IndicesInRange
<1>1. Init => IndicesInRange
  BY DEF Init, IndicesInRange
<1>2. TypeOK /\ TagInv' /\ IndicesInRange /\ [Next]_vars => IndicesInRange'
  <2> SUFFICES ASSUME TypeOK, TagInv', IndicesInRange, [Next]_vars
               PROVE  IndicesInRange'
    OBVIOUS
  <2>1. CASE RunProgram
    BY <2>1 DEF RunProgram, IndicesInRange
  <2>2. ASSUME NEW wrote, NEW cut, NEW ok, JobEnds(wrote, cut, ok)
        PROVE  IndicesInRange'
    BY <2>2 DEF JobEnds, IndicesInRange
  <2>3. ASSUME NEW into, ReadExecution(into)
        PROVE  IndicesInRange'
    BY <2>3 DEF ReadExecution, IndicesInRange
  <2>4. CASE UpdateCoverage
    BY <2>4 DEF UpdateCoverage, IndicesInRange
  <2>5. ASSUME NEW ex \in held, SolveAtBranch(ex)
        PROVE  IndicesInRange'
    <3> SUFFICES ASSUME phase' = "ready", "inputs" \notin cuts'
                 PROVE  /\ rank_indices_' \subseteq DOMAIN next_input'
                        /\ world_size_indices_' \subseteq DOMAIN next_input'
      BY DEF IndicesInRange
    <3>1. \A k : At(ex.kinds, k) \subseteq DOMAIN next_input'
      BY <2>5, SolvedInput
    <3>2. ex \in Known' /\ ex.tag = execution_tag_'
      BY <2>5 DEF SolveAtBranch, Refresh, Known, solver
    <3>3. Cached(ex)'
      BY <3>2 DEF TagInv, TagsInv
    <3> QED BY <3>1, <3>3 DEF Cached
  <2>6. CASE Restart
    <3>1. Restarts = "clearing"
      BY <2>6, LaunchAssumption DEF Restart
    <3> QED BY <2>6, <3>1 DEF Restart, IndicesInRange
  <2>7. CASE UNCHANGED vars
    BY <2>7 DEF vars, solver, files, IndicesInRange
  <2>8. CASE ReadFails
    BY <2>8 DEF ReadFails, IndicesInRange
  <2> QED BY <2>1, <2>2, <2>3, <2>4, <2>5, <2>6, <2>7, <2>8 DEF Next
<1> QED BY <1>1, <1>2, LaunchTypes, TagInvariant, PTL DEF Spec

-----------------------------------------------------------------------------
(* The size of the jobs of an orderly campaign.                            *)

\* A program that marks no communicator, marks its rank whenever it marks
\* the world's size, and marks the same kind of variable at the same place
\* on every path; a start within the limits, in a fresh directory, of a
\* strategy that does not restart; no file is cut before its path.
OrderedCampaign ==
    /\ \A p \in Paths : /\ At(p, "comm") = {}
                        /\ At(p, "size") # {} => At(p, "rank") # {}
    /\ \A p, q \in Paths : \A i \in DOMAIN p \cap DOMAIN q : p[i] = q[i]
    /\ InitTarget \in 0..(InitSize - 1)
    /\ InitSize <= LaunchLimit /\ WorldSizeLimit <= LaunchLimit
    /\ LeftoverInputs = {<<>>} /\ LeftoverExecutions = {NoExec}
    /\ Restarts = "none" /\ Cuts \subseteq {"branches"}

PathPrefixes == Paths \cup {<<>>}

\* An input vector whose ranks are below its sizes, and these within limits.
Placed(x, kinds) ==
    /\ DOMAIN x = DOMAIN kinds
    /\ \A i \in At(kinds, "rank") : x[i] >= 0
    /\ \A i \in At(kinds, "rank"), j \in At(kinds, "size") : x[i] < x[j]
    /\ \A j \in At(kinds, "size") : x[j] <= LaunchLimit

\* The focus is below, and the launch limit not below, the current size.
JobInv ==
    /\ 0 <= target_rank_ /\ target_rank_ < comm_world_size_
    /\ comm_world_size_ <= LaunchLimit
    /\ phase \in {"launched", "ended", "parsed", "search"} =>
          np = comm_world_size_

\* Every execution that may be solved has its ranks below its sizes.
KnownInv ==
    \A e \in Known :
        e.kinds \in PathPrefixes /\ Placed(e.inputs, e.kinds) /\ ~e.garbled

\* The cached indices are those of the constraints, and fit the next input.
NextInv ==
    /\ constraintsMPI.kinds \in PathPrefixes /\ ~constraintsMPI.garbled
    /\ rank_indices_ = At(constraintsMPI.kinds, "rank")
    /\ world_size_indices_ = At(constraintsMPI.kinds, "size")
    /\ comm_indices_ = {}
    /\ phase = "ready" => Placed(next_input, constraintsMPI.kinds)

\* A size a process takes from the input file leaves room for the focus,
\* even when the guard refused the file's own rank.
InputFileInv ==
    /\ is_first_run => input_file = <<>>
    /\ phase = "launched" =>
          \A p \in Paths : \A j \in At(p, "size") \cap DOMAIN input_file :
             target_rank_ < input_file[j] /\ input_file[j] <= LaunchLimit

ReportsInv ==
    /\ phase \in {"ended", "parsed"} =>
          /\ reported \subseteq 0..(np - 1)
          /\ reported \ {target_rank_} \subseteq light
    /\ AllReportsRead

OrderedInv == JobInv /\ KnownInv /\ NextInv /\ InputFileInv /\ ReportsInv

\* What the assumptions on Paths say of a prefix, the empty one included.
LEMMA PrefixFacts ==
    ASSUME OrderedCampaign, NEW kinds \in PathPrefixes
    PROVE  /\ kinds \in Seq(Kinds) /\ At(kinds, "comm") = {}
           /\ At(kinds, "size") # {} => At(kinds, "rank") # {}
           /\ At(kinds, "rank") \cap At(kinds, "size") = {}
<1>1. CASE kinds \in Paths
  <2>1. kinds \in Seq({{k} : k \in Roles} \cup {Data})
    BY <1>1, LaunchAssumption
  <2>2. \A i \in DOMAIN kinds : kinds[i] \in {{k} : k \in Roles} \cup {Data}
    BY <2>1
  <2>3. At(kinds, "rank") \cap At(kinds, "size") = {}
    BY <2>2 DEF At, Data
  <2> QED BY <1>1, <2>3, PathKinds DEF OrderedCampaign
<1>2. CASE kinds = <<>>
  BY <1>2 DEF At
<1> QED BY <1>1, <1>2 DEF PathPrefixes

\* The launch of a placed input.
LEMMA OrderedLaunch ==
    ASSUME OrderedCampaign, TypeOK, OrderedInv, phase = "ready",
           LaunchProgram(next_input)
    PROVE  /\ 0 <= target_rank_' /\ target_rank_' < comm_world_size_'
           /\ comm_world_size_' <= LaunchLimit /\ np' = comm_world_size_'
           /\ is_first_run => input_file' = <<>>
           /\ \A p \in Paths : \A j \in At(p, "size") \cap DOMAIN input_file' :
                 target_rank_' < input_file'[j] /\ input_file'[j] <= LaunchLimit
<1> DEFINE K == constraintsMPI.kinds
           R == At(K, "rank")
           S == At(K, "size")
<1>1. /\ K \in PathPrefixes /\ rank_indices_ = R /\ world_size_indices_ = S
      /\ DOMAIN next_input = DOMAIN K
      /\ \A i \in R : next_input[i] >= 0
      /\ \A i \in R, j \in S : next_input[i] < next_input[j]
      /\ \A j \in S : next_input[j] <= LaunchLimit
  BY DEF OrderedInv, NextInv, Placed
<1>2. /\ target_rank_ \in Int /\ comm_world_size_ \in Int /\ LaunchLimit \in Int
      /\ 0 <= target_rank_ /\ target_rank_ < comm_world_size_
      /\ comm_world_size_ <= LaunchLimit
  BY LaunchAssumption DEF OrderedInv, JobInv, TypeOK
<1>3. K \in Seq(Kinds) /\ (S # {} => R # {})
  BY <1>1, PrefixFacts
<1>4. \A i \in DOMAIN K : next_input[i] \in Int
  BY <1>1 DEF TypeOK
<1>5. R \subseteq Nat /\ S \subseteq Nat /\ R \subseteq DOMAIN K /\ S \subseteq DOMAIN K
  BY <1>3, AtIsPositions
<1>6. (R # {} => First(R) \in R) /\ (S # {} => First(S) \in S)
  BY <1>5, FirstIsElement
<1>7. PICK target \in Chosen(next_input, R, target_rank_),
           size \in Chosen(next_input, S, comm_world_size_) :
         LET refused == \/ target < 0 \/ target >= comm_world_size_
                        \/ comm_world_size_ > LaunchLimit
         IN /\ target_rank_' = IF refused THEN target_rank_ ELSE target
            /\ comm_world_size_' = IF refused THEN comm_world_size_ ELSE size
  BY <1>1 DEF LaunchProgram
<1>8. target = (IF R = {} THEN target_rank_ ELSE next_input[First(R)])
      /\ size = (IF S = {} THEN comm_world_size_ ELSE next_input[First(S)])
  BY <1>1, <1>5, <1>6, <1>7 DEF Chosen
<1> HIDE DEF R, S, K
<1>9. target \in Int /\ size \in Int /\ target >= 0
  BY <1>1, <1>2, <1>4, <1>5, <1>6, <1>8
<1>10. S # {} => target < size /\ size <= LaunchLimit
  BY <1>1, <1>3, <1>6, <1>8
<1>11. /\ 0 <= target_rank_' /\ target_rank_' < comm_world_size_'
       /\ comm_world_size_' <= LaunchLimit
       /\ target_rank_' \in Nat /\ comm_world_size_' \in Int
  <2>1. CASE target >= comm_world_size_
    BY <1>2, <1>7, <2>1
  <2>2. CASE target < comm_world_size_
    <3>1. target_rank_' = target /\ comm_world_size_' = size
      BY <1>2, <1>7, <1>9, <2>2
    <3>2. CASE S = {}
      BY <1>2, <1>8, <1>9, <2>2, <3>1, <3>2
    <3>3. CASE S # {}
      BY <1>2, <1>9, <1>10, <3>1, <3>3
    <3> QED BY <3>2, <3>3
  <2> QED BY <1>2, <1>9, <2>1, <2>2
<1>12. np' = comm_world_size_'
  BY <1>11, RequestedHoldsFocus DEF LaunchProgram
<1>13. is_first_run => input_file' = <<>>
  BY DEF LaunchProgram, OrderedInv, InputFileInv
<1>14. ASSUME NEW p \in Paths, NEW j \in At(p, "size") \cap DOMAIN input_file'
       PROVE  target_rank_' < input_file'[j] /\ input_file'[j] <= LaunchLimit
  <2>1. input_file' = next_input
    BY <1>13, <1>14 DEF LaunchProgram
  <2>2. j \in DOMAIN K /\ j \in DOMAIN p /\ "size" \in p[j]
    BY <1>1, <1>14, <2>1 DEF At
  <2>3. K \in Paths
    BY <1>1, <2>2 DEF PathPrefixes
  <2>4. j \in S
    BY <2>2, <2>3 DEF OrderedCampaign, At, S
  <2>5. First(R) \in R /\ target = next_input[First(R)]
    BY <1>3, <1>6, <1>8, <2>4
  <2>6. target < next_input[j] /\ next_input[j] <= LaunchLimit
        /\ next_input[j] \in Int
    BY <1>1, <1>4, <2>2, <2>4, <2>5
  <2>7. target_rank_' <= target
    <3>1. CASE target >= comm_world_size_
      BY <1>2, <1>7, <1>9, <3>1
    <3>2. CASE target < comm_world_size_
      BY <1>2, <1>7, <1>9, <3>2
    <3> QED BY <1>2, <1>9, <3>1, <3>2
  <2> QED BY <1>9, <1>11, <2>1, <2>6, <2>7
<1> QED BY <1>11, <1>12, <1>13, <1>14

\* A solution of a placed execution is placed: the solver changes all of the
\* ranks and sizes together or none.
LEMMA OrderedSolution ==
    ASSUME OrderedCampaign, NEW ex, Execution(ex), ex.kinds \in PathPrefixes,
           Placed(ex.inputs, ex.kinds),
           NEW mpi \in MPIStates,
           mpi.kinds = ex.kinds, ~mpi.garbled, NEW C \in SUBSET DOMAIN ex.inputs,
           Closed(C, mpi.kinds), NEW sol \in Solutions(ex, C, mpi)
    PROVE  Placed(sol, ex.kinds)
<1>0. Solves(sol, ex, C, mpi)
  BY SolutionValues
<1> DEFINE R == At(mpi.kinds, "rank")
           S == At(mpi.kinds, "size")
<1>1. PICK rank \in RankValues, size \in Nat :
         /\ \A i \in C \cap R : sol[i] = rank
         /\ \A i \in C \cap S : sol[i] = size
         /\ Ordered(mpi.kinds) => rank < size
         /\ size <= WorldSizeLimit
  BY <1>0 DEF Solves
<1>2. /\ DOMAIN sol = DOMAIN ex.inputs
      /\ \A i \in DOMAIN ex.inputs \ C : sol[i] = ex.inputs[i]
  BY <1>0 DEF Solves
<1>3. /\ DOMAIN ex.inputs = DOMAIN ex.kinds
      /\ \A i \in R : ex.inputs[i] >= 0
      /\ \A i \in R, j \in S : ex.inputs[i] < ex.inputs[j]
      /\ \A j \in S : ex.inputs[j] <= LaunchLimit
      /\ R = At(ex.kinds, "rank") /\ S = At(ex.kinds, "size")
  BY DEF Placed
<1>4. R \subseteq DOMAIN ex.inputs /\ S \subseteq DOMAIN ex.inputs
      /\ (S # {} => R # {})
  BY <1>3, PrefixFacts DEF At
<1>5. rank \in Nat /\ size \in Int /\ LaunchLimit \in Int
      /\ size <= LaunchLimit
  BY <1>1, LaunchAssumption DEF OrderedCampaign
<1>10. S # {} => Ordered(mpi.kinds)
  <2>1. SUFFICES ASSUME S # {} PROVE First(R) # First(S) /\ R # {}
    BY DEF Ordered
  <2>2. R \subseteq Nat /\ S \subseteq Nat
    BY AtIsPositions DEF MPIStates
  <2>3. R # {} /\ R \cap S = {}
    BY <1>3, <1>4, <2>1, PrefixFacts
  <2> HIDE DEF R, S
  <2>4. First(R) \in R /\ First(S) \in S
    BY <2>1, <2>2, <2>3, FirstIsElement
  <2> QED BY <2>3, <2>4
<1>6. S # {} => C \cap (R \cup S) = {} \/ R \cup S \subseteq C
  BY <1>10 DEF Closed
<1> HIDE DEF R, S
<1>7. \A i \in R : sol[i] >= 0
  BY <1>1, <1>2, <1>3, <1>4, <1>5
<1>8. \A i \in R, j \in S : sol[i] < sol[j]
  <2> SUFFICES ASSUME NEW i \in R, NEW j \in S PROVE sol[i] < sol[j]
    OBVIOUS
  <2>1. CASE C \cap (R \cup S) = {}
    BY <1>2, <1>3, <1>4, <2>1
  <2>2. CASE R \cup S \subseteq C
    BY <1>1, <1>10, <2>2
  <2> QED BY <1>6, <2>1, <2>2
<1>9. \A j \in S : sol[j] <= LaunchLimit
  BY <1>1, <1>2, <1>3, <1>4, <1>5
<1> QED BY <1>2, <1>3, <1>7, <1>8, <1>9 DEF Placed

\* What the focus records of a placed launch is placed.
LEMMA OrderedExecution ==
    ASSUME OrderedCampaign, TypeOK, OrderedInv, phase = "launched",
           NEW e \in Executions
    PROVE  e.kinds \in PathPrefixes /\ Placed(e.inputs, e.kinds) /\ ~e.garbled
<1>1. /\ Execution(e) /\ e.kinds \in Paths /\ ~e.garbled
      /\ \A i \in At(e.kinds, "rank") : e.inputs[i] = target_rank_
      /\ \A i \in At(e.kinds, "size") :
            e.inputs[i] = IF i \in DOMAIN input_file THEN input_file[i] ELSE np
  BY ExecutionValues
<1>2. DOMAIN e.inputs = DOMAIN e.kinds
  BY <1>1 DEF Execution
<1>3. /\ 0 <= target_rank_ /\ target_rank_ < np /\ np <= LaunchLimit
  BY DEF OrderedInv, JobInv
<1>4. \A j \in At(e.kinds, "size") :
         target_rank_ < e.inputs[j] /\ e.inputs[j] <= LaunchLimit
  <2> SUFFICES ASSUME NEW j \in At(e.kinds, "size")
               PROVE  target_rank_ < e.inputs[j] /\ e.inputs[j] <= LaunchLimit
    OBVIOUS
  <2>1. CASE j \in DOMAIN input_file
    BY <1>1, <2>1 DEF OrderedInv, InputFileInv
  <2>2. CASE j \notin DOMAIN input_file
    BY <1>1, <1>3, <2>2
  <2> QED BY <2>1, <2>2
<1> QED BY <1>1, <1>2, <1>3, <1>4 DEF Placed, PathPrefixes

\* Solving a retained execution prepares a placed input.
LEMMA OrderedSolve ==
    ASSUME OrderedCampaign, TypeOK, CacheCoherent, OrderedInv,
           NEW ex \in held, SolveAtBranch(ex)
    PROVE  NextInv'
<1>1. /\ Execution(ex) /\ ex.kinds \in PathPrefixes /\ ~ex.garbled
      /\ Placed(ex.inputs, ex.kinds) /\ phase = "search"
  BY DEF OrderedInv, KnownInv, Known, TypeOK, SolveAtBranch
<1>2. /\ constraintsMPI'.kinds = ex.kinds /\ ~constraintsMPI'.garbled
      /\ rank_indices_' = At(ex.kinds, "rank")
      /\ world_size_indices_' = At(ex.kinds, "size")
      /\ comm_indices_' = {}
  <2>1. CASE execution_tag_ = ex.tag
    <3>1. constraintsMPI.kinds = ex.kinds
      BY <2>1 DEF CacheCoherent, OrderedCampaign, TypeOK
    <3> QED BY <2>1, <3>1 DEF SolveAtBranch, Refresh, solver, OrderedInv, NextInv
  <2>2. CASE execution_tag_ # ex.tag
    <3>1. At(ex.kinds, "comm") = {}
      BY <1>1, PrefixFacts
    <3> QED BY <1>1, <2>2, <3>1 DEF SolveAtBranch, Refresh, MPI
  <2> QED BY <2>1, <2>2
<1>3. constraintsMPI' \in MPIStates
  BY SolveAtBranchTyped DEF TypeOK, MPIStates
<1>4. CASE phase' # "ready"
  BY <1>1, <1>2, <1>4 DEF NextInv
<1>5. CASE phase' = "ready"
  <2>1. PICK C \in SUBSET DOMAIN ex.inputs :
           /\ Closed(C, constraintsMPI'.kinds)
           /\ \E sol \in Solutions(ex, C, constraintsMPI') :
                 next_input' \in
                    Merged(ex, sol, rank_indices_', comm_indices_')
    BY <1>1, <1>5 DEF SolveAtBranch
  <2>2. PICK sol \in Solutions(ex, C, constraintsMPI') :
           next_input' \in Merged(ex, sol, rank_indices_', comm_indices_')
    BY <2>1
  <2>3. Placed(sol, ex.kinds)
    BY <1>1, <1>2, <1>3, <2>1, OrderedSolution
  <2>4. next_input' = sol
    BY <1>2, <2>2 DEF Merged
  <2> QED BY <1>1, <1>2, <2>3, <2>4 DEF NextInv
<1> QED BY <1>4, <1>5

\* In an orderly campaign every job has exactly comm_world_size_ processes
\* with the focus among them, every retained input names a rank below its
\* size, and the coverage update reads every report of the job, whatever
\* launches the guard refuses and whichever processes fail.
THEOREM OrderedJobs ==
    ASSUME OrderedCampaign
    PROVE  Spec => [](/\ ProcessesMatchWorldSize /\ InputRankBelowSize
                      /\ AllReportsRead)
<1>1. Init => OrderedInv
  <2> SUFFICES ASSUME Init PROVE OrderedInv
    OBVIOUS
  <2>1. JobInv
    BY LaunchAssumption DEF Init, JobInv, OrderedCampaign
  <2>2. At(<<>>, "rank") = {} /\ At(<<>>, "size") = {}
    BY DEF At
  <2>3. KnownInv
    BY <2>2 DEF Init, KnownInv, Known, Placed, OrderedCampaign, NoExec,
             PathPrefixes
  <2>4. NextInv
    BY <2>2 DEF Init, NextInv, Placed, PathPrefixes, MPI, NoExec
  <2>5. InputFileInv /\ ReportsInv
    BY DEF Init, InputFileInv, ReportsInv, AllReportsRead, OrderedCampaign
  <2> QED BY <2>1, <2>3, <2>4, <2>5 DEF OrderedInv
<1>2. TypeOK /\ CacheCoherent /\ OrderedInv /\ [Next]_vars => OrderedInv'
  <2> SUFFICES ASSUME TypeOK, CacheCoherent, OrderedInv, [Next]_vars
               PROVE  OrderedInv'
    OBVIOUS
  <2>0. JobInv /\ KnownInv /\ NextInv /\ InputFileInv /\ ReportsInv
    BY DEF OrderedInv
  <2>1. CASE RunProgram
    <3>1. CASE phase' = "exited"
      <4>1. UNCHANGED <<chosen, input_file, np, solver, held, szd, is_first_run>>
        BY <2>1, <3>1 DEF RunProgram
      <4> QED BY <2>0, <3>1, <4>1 DEF OrderedInv, JobInv, KnownInv, Known,
               NextInv, InputFileInv, ReportsInv, AllReportsRead, chosen, solver
    <3>2. CASE phase' # "exited"
      <4>1. /\ LaunchProgram(next_input) /\ phase = "ready"
            /\ phase' = "launched"
            /\ UNCHANGED <<solver, held, szd, is_first_run>>
        BY <2>1, <3>2 DEF RunProgram
      <4>2. JobInv' /\ InputFileInv'
        BY <4>1, OrderedLaunch DEF JobInv, InputFileInv
      <4>4. ReportsInv'
        BY <4>1 DEF ReportsInv, AllReportsRead
      <4>5. KnownInv' /\ NextInv'
        BY <2>0, <4>1 DEF KnownInv, Known, NextInv, solver
      <4> QED BY <4>2, <4>4, <4>5 DEF OrderedInv
    <3> QED BY <3>1, <3>2
  <2>2. ASSUME NEW wrote \in SUBSET (0..(np - 1)), NEW cut \in Cuts \cup {"none"},
               NEW ok \in BOOLEAN, JobEnds(wrote, cut, ok)
        PROVE  OrderedInv'
    <3>1. /\ phase = "launched" /\ phase' = "ended"
          /\ UNCHANGED <<num_iters_, chosen, solver, np, held>>
      BY <2>2 DEF JobEnds
    <3>2. KnownInv'
      <4>1. szd' = szd \/ szd' \in Executions
        BY <2>2, WrittenTyped DEF OrderedCampaign
      <4>2. /\ szd'.kinds \in PathPrefixes /\ Placed(szd'.inputs, szd'.kinds)
            /\ ~szd'.garbled
        BY <2>0, <3>1, <4>1, OrderedExecution DEF KnownInv, Known
      <4> QED BY <2>0, <3>1, <4>2 DEF KnownInv, Known
    <3>3. ReportsInv'
      <4>1. wrote \subseteq Ranks /\ reported' = wrote
        BY <2>0, <2>2, <3>1, LaunchAssumption DEF JobInv, JobEnds, Ranks, TypeOK
      <4>2. wrote \ {target_rank_} \subseteq light'
        BY <2>2, <4>1 DEF JobEnds
      <4> QED BY <2>2, <3>1, <4>1, <4>2 DEF ReportsInv, AllReportsRead, chosen
    <3>4. InputFileInv' /\ JobInv' /\ NextInv'
      BY <2>0, <2>2, <3>1 DEF JobEnds, InputFileInv, JobInv, NextInv, chosen,
         solver
    <3> QED BY <3>2, <3>3, <3>4 DEF OrderedInv
  <2>3. ASSUME NEW into \in held \cup {NoExec}, ReadExecution(into)
        PROVE  OrderedInv'
    <3>1. /\ phase = "ended" /\ phase' = "parsed"
          /\ UNCHANGED <<chosen, solver, files, np, reported, is_first_run>>
      BY <2>3 DEF ReadExecution
    <3>2. KnownInv'
      <4>0. szd_cut # "inputs"
        BY DEF OrderedCampaign, TypeOK
      <4>1. \A e \in Known' : \E f \in Known : SameMarks(e, f)
        BY <2>3, <4>0, ReadKnown
      <4> QED BY <2>0, <4>1 DEF KnownInv, SameMarks
    <3> QED BY <2>0, <3>1, <3>2 DEF OrderedInv, JobInv, NextInv, InputFileInv,
             ReportsInv, AllReportsRead, chosen, solver, files
  <2>4. CASE UpdateCoverage
    <3>1. /\ phase = "parsed" /\ phase' = "search"
          /\ UNCHANGED <<chosen, solver, files, np, reported, is_first_run, held>>
          /\ merged' = {r \in 0..(comm_world_size_ - 1) :
                           r # target_rank_ /\ r \in light}
      BY <2>4 DEF UpdateCoverage
    <3>2. AllReportsRead'
      <4>1. /\ reported \subseteq 0..(comm_world_size_ - 1)
            /\ reported \ {target_rank_} \subseteq light
            /\ comm_world_size_ <= LaunchLimit
        BY <2>0, <3>1 DEF JobInv, ReportsInv
      <4> QED BY <3>1, <4>1 DEF AllReportsRead, chosen
    <3> QED BY <2>0, <3>1, <3>2 DEF OrderedInv, JobInv, KnownInv, Known,
             NextInv, InputFileInv, ReportsInv, chosen, solver, files
  <2>5. ASSUME NEW ex \in held, SolveAtBranch(ex)
        PROVE  OrderedInv'
    <3>1. NextInv'
      BY <2>5, OrderedSolve
    <3>2. /\ phase' \in {"search", "ready", "undefined"} /\ phase = "search"
          /\ UNCHANGED <<chosen, files, np, reported, merged, is_first_run,
                        held>>
      BY <2>5 DEF SolveAtBranch
    <3> QED BY <2>0, <3>1, <3>2 DEF OrderedInv, JobInv, KnownInv, Known,
             InputFileInv, ReportsInv, AllReportsRead, chosen, files
  <2>6. CASE Restart
    BY <2>6 DEF Restart, OrderedCampaign
  <2>7. CASE UNCHANGED vars
    BY <2>0, <2>7 DEF vars, OrderedInv, JobInv, KnownInv, Known, NextInv,
       InputFileInv, ReportsInv, AllReportsRead, chosen, solver, files
  <2>8. CASE ReadFails
    BY <2>0, <2>8 DEF ReadFails, OrderedInv, JobInv, KnownInv, Known, NextInv,
       InputFileInv, ReportsInv, AllReportsRead, chosen, solver, files
  <2> QED BY <2>1, <2>2, <2>3, <2>4, <2>5, <2>6, <2>7, <2>8 DEF Next
<1>3. TypeOK /\ OrderedInv =>
         ProcessesMatchWorldSize /\ InputRankBelowSize /\ AllReportsRead
  <2> SUFFICES ASSUME TypeOK, OrderedInv
               PROVE  /\ ProcessesMatchWorldSize /\ InputRankBelowSize
                      /\ AllReportsRead
    OBVIOUS
  <2>1. ProcessesMatchWorldSize
    BY DEF OrderedInv, JobInv, ProcessesMatchWorldSize, TypeOK
  <2>2. InputRankBelowSize
    BY DEF OrderedInv, KnownInv, Known, Placed, InputRankBelowSize
  <2> QED BY <2>1, <2>2 DEF OrderedInv, ReportsInv
<1>4. Spec => []CacheCoherent
  <2>1. LeftoverExecutions = {NoExec}
    BY DEF OrderedCampaign
  <2>2. Spec => [](TagsDifferentiate /\ CacheCoherent)
    BY <2>1, TagsAndCache
  <2> QED BY <2>2, PTL
<1> QED BY <1>1, <1>2, <1>3, <1>4, LaunchTypes, PTL DEF Spec

=============================================================================
