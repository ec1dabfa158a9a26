------------------------------- MODULE Launch -------------------------------
(***************************************************************************)
(* The driver's loop around one program run: how run_crest picks the focus *)
(* rank and the number of processes of the next MPI job, what the job's    *)
(* processes leave in files, how the driver reads them back, and how it    *)
(* solves a retained execution for the next input (class Search).          *)
(*                                                                         *)
(* Inputs are vectors; position i belongs to the i-th variable the program *)
(* marked.  Its kind is the set of index vectors that name it: that of the *)
(* ranks in MPI_COMM_WORLD, of its sizes, of the ranks in another          *)
(* communicator, or none.  Only a szd_execution that was cut gives a       *)
(* variable several roles, or roles the program did not mark.  Which       *)
(* strategy chose an execution and a branch is left open: any execution    *)
(* the session parsed may be solved at any branch.                         *)
(***************************************************************************)
EXTENDS Integers, Sequences, FiniteSets

CONSTANTS
    Paths,              \* kinds of the marked variables, per program path
    InitSize,           \* argv: number of processes
    InitTarget,         \* argv: focus rank
    WorldSizeLimit,     \* cap crestAll.ml puts on the size variable (16)
    LaunchLimit,        \* the 16 of LaunchProgram
    RankValues,         \* bound: ranks the solver may choose
    DataValues,         \* bound: values of a plain variable
    WildValues,         \* bound: what a read outside a vector may return
    Warmup,             \* iterations before communicator ranks redirect (100)
    MaxIters,           \* argv: num_of_tests
    Restarts,           \* "none", or the strategy restarts on empty input,
                        \* "clearing" the index vectors or "keeping" them
    Failures,           \* processes may crash or be timed out
    Cuts,               \* ... while writing these parts of szd_execution
    LeftoverInputs,     \* possible contents of "input" when a session starts
    LeftoverExecutions  \* possible szd_execution files of earlier sessions

Roles == {"rank", "size", "comm"}
Kinds == SUBSET Roles
Data == {}

At(kinds, k) == {i \in DOMAIN kinds : k \in kinds[i]}
First(I) == CHOOSE i \in I : \A j \in I : i <= j

\* An execution as the driver knows it: every variable has a kind and an
\* input.  constraints: it has a path to solve; garbled: its limits or
\* indices were cut off; members: world ranks of the focus' communicator.
Execution(e) ==
    /\ e \in [tag : Nat, constraints : BOOLEAN, garbled : BOOLEAN,
              kinds : Seq(Kinds), inputs : Seq(Int), members : Seq(Int)]
    /\ DOMAIN e.inputs = DOMAIN e.kinds

ASSUME LaunchAssumption ==
    /\ Paths \subseteq Seq({{k} : k \in Roles} \cup {Data})
    /\ InitSize \in Int /\ InitTarget \in Int
    /\ WorldSizeLimit \in Nat /\ LaunchLimit \in Nat
    /\ RankValues \subseteq Nat /\ DataValues \subseteq Int
    /\ WildValues \subseteq Int
    /\ Warmup \in Nat /\ MaxIters \in Nat
    /\ Restarts \in {"none", "clearing", "keeping"}
    /\ Failures \in BOOLEAN
    /\ Cuts \subseteq {"inputs", "indices", "branches"}
    /\ LeftoverInputs \subseteq Seq(Int)
    /\ \A e \in LeftoverExecutions : Execution(e)

VARIABLES
    phase,
    num_iters_, target_rank_, comm_world_size_,
    execution_tag_, rank_indices_, world_size_indices_, comm_indices_,
    constraintsMPI,     \* what GenerateConstraintsMPI was last called with
    next_input,         \* argument of the next RunProgram
    is_first_run,
    input_file,         \* "input"; <<>> also stands for no file
    szd, szd_cut,       \* szd_execution, and where it was cut, or "none"
    light,              \* ranks i with a szd_execution<i>
    np, reported,       \* the job: processes requested, ranks that wrote
    merged,             \* ranks whose file the last UpdateCoverage parsed
    held,               \* every execution of the session a strategy may keep
    cuts                \* history: the parts in which a file was cut

solver == <<execution_tag_, rank_indices_, world_size_indices_,
            comm_indices_, constraintsMPI>>
chosen == <<target_rank_, comm_world_size_>>
files  == <<input_file, szd, szd_cut, light, cuts>>
vars == <<phase, num_iters_, is_first_run, chosen, solver, next_input, files,
          np, reported, merged, held>>

\* No file, or an object nothing was read into.
NoExec == [tag |-> 0, constraints |-> FALSE, garbled |-> FALSE,
           kinds |-> <<>>, inputs |-> <<>>, members |-> <<>>]

\* What GenerateConstraintsMPI uses of an execution.
MPI(e) == [kinds |-> e.kinds, members |-> e.members, garbled |-> e.garbled]

Ranks == 0..(LaunchLimit + 2)

Init ==
    /\ phase = "ready" /\ next_input = <<>>
    /\ num_iters_ = 0 /\ is_first_run = TRUE
    /\ target_rank_ = InitTarget /\ comm_world_size_ = InitSize
    /\ execution_tag_ = 0
    /\ rank_indices_ = {} /\ world_size_indices_ = {} /\ comm_indices_ = {}
    /\ constraintsMPI = MPI(NoExec)
    /\ input_file \in LeftoverInputs
    /\ szd \in LeftoverExecutions /\ szd_cut = "none" /\ cuts = {}
    /\ light = {} /\ np = 0 /\ reported = {} /\ merged = {}
    /\ held = {}

-----------------------------------------------------------------------------
(* LaunchProgram: the next focus rank and job size.                        *)

\* inputs[*indices.begin()], the old value when there is no index; outside
\* the vector the read returns whatever is there.
Chosen(inputs, indices, old) ==
    IF indices = {} THEN {old}
    ELSE IF First(indices) \in DOMAIN inputs THEN {inputs[First(indices)]}
    ELSE WildValues

\* Mutated form: the focus' own "-np 1" is forgotten when it is last.
RequestedWithoutFocus(target, size) ==
    IF target # 0 /\ target + 1 >= size THEN target ELSE size

\* The processes of the mpirun command assembled from the two.
Requested(target, size) ==
    IF target # 0 /\ target + 1 >= size THEN target + 1 ELSE size

\* Mutated form: the "too many processes" guard is dropped.
LaunchProgramUnguarded(inputs) ==
    /\ target_rank_' \in Chosen(inputs, rank_indices_, target_rank_)
    /\ comm_world_size_' \in
          Chosen(inputs, world_size_indices_, comm_world_size_)
    /\ input_file' = IF is_first_run THEN input_file ELSE inputs
    /\ np' = Requested(target_rank_', comm_world_size_')

\* The guard tests the size of the previous job; the inputs are written
\* whether or not it refused them.
LaunchProgram(inputs) ==
    /\ \E target \in Chosen(inputs, rank_indices_, target_rank_),
          size \in Chosen(inputs, world_size_indices_, comm_world_size_) :
          LET refused == \/ target < 0 \/ target >= comm_world_size_
                         \/ comm_world_size_ > LaunchLimit
          IN /\ target_rank_' = IF refused THEN target_rank_ ELSE target
             /\ comm_world_size_' =
                   IF refused THEN comm_world_size_ ELSE size
    /\ input_file' = IF is_first_run THEN input_file ELSE inputs
    /\ np' = Requested(target_rank_', comm_world_size_')

\* RunProgram up to system(): exit(0) once the iterations are used up.
RunProgram ==
    /\ phase = "ready"
    /\ num_iters_' = num_iters_ + 1
    /\ IF num_iters_ + 1 > MaxIters
       THEN /\ phase' = "exited"
            /\ UNCHANGED <<chosen, input_file, np>>
       ELSE /\ phase' = "launched"
            /\ LaunchProgram(next_input)
    /\ reported' = {} /\ merged' = {}
    /\ UNCHANGED <<is_first_run, solver, next_input, szd, szd_cut, light,
                   cuts, held>>

-----------------------------------------------------------------------------
(* The MPI job, from mpirun's start to its exit status.                    *)

\* The inputs the focus records along path p: NewInputRank and
\* CrestRankNonDefaultComm2 put its actual ranks, NewInputWorldSize and
\* NewInput take the input file's value where it has one.
Marked(p, local, fresh) ==
    [i \in DOMAIN p |->
        CASE p[i] = {"rank"} -> target_rank_
          [] p[i] = {"comm"} -> local
          [] p[i] = {"size"} ->
                IF i \in DOMAIN input_file THEN input_file[i] ELSE np
          [] p[i] = Data ->
                IF i \in DOMAIN input_file THEN input_file[i] ELSE fresh[i]]

\* The communicators of the job the focus is in: world rank by local rank.
Communicators ==
    {m \in UNION {[1..k -> 0..(np - 1)] : k \in 1..np} :
        /\ \A i, j \in DOMAIN m : i < j => m[i] < m[j]
        /\ \E i \in DOMAIN m : m[i] = target_rank_}

LocalRank(members) == First({i \in DOMAIN members : members[i] = target_rank_}) - 1

\* Mutated form: the first iteration's tag is never rewritten.
ExecutionsFirstTag ==
    UNION {{[tag |-> 1, constraints |-> TRUE, garbled |-> FALSE, kinds |-> p,
             inputs |-> Marked(p, LocalRank(m), fresh),
             members |-> IF At(p, "comm") = {} THEN <<>> ELSE m] :
               m \in Communicators, fresh \in [DOMAIN p -> DataValues]} :
           p \in Paths}

\* What __CrestAtExit of the focus serializes.
Executions ==
    UNION {{[tag |-> num_iters_, constraints |-> TRUE, garbled |-> FALSE,
             kinds |-> p, inputs |-> Marked(p, LocalRank(m), fresh),
             members |-> IF At(p, "comm") = {} THEN <<>> ELSE m] :
               m \in Communicators, fresh \in [DOMAIN p -> DataValues]} :
           p \in Paths}

\* The index vector before the ones a file has lost; before the first come
\* the limits, of which there may be none.
LastRead(lost) ==
    CASE lost = {"size"} -> "comm" [] lost = {"comm", "size"} -> "rank"
      [] OTHER -> "limits"

\* e without the index vectors `lost`: they are empty, or full of zeros, the
\* id of the first variable.
Losing(e, lost, zeros) ==
    [e EXCEPT !.garbled = TRUE,
              !.kinds = [i \in DOMAIN @ |->
                           (@[i] \ lost) \cup
                           (IF zeros /\ i = 1 THEN lost ELSE {})]]

\* An execution whose limits or indices were cut, as it will be parsed: the
\* vectors behind the cut get the last length that was read.
Garbled(e) ==
    UNION {{Losing(e, lost, zeros) :
               zeros \in IF At(e.kinds, LastRead(lost)) = {} THEN BOOLEAN
                         ELSE {TRUE}} :
           lost \in {Roles, {"comm", "size"}, {"size"}}}

\* Some processes reach __CrestAtExit, in any order, and write their file;
\* the others crash or are killed by the time limit.  A nonzero status
\* moves "input" away.  mpirun may refuse "-np 0".
JobEnds(wrote, cut, ok) ==
    /\ phase = "launched"
    /\ wrote # 0..(np - 1) =>
          Failures \/ (target_rank_ = 0 /\ comm_world_size_ = 1)
    /\ ~ok => Failures \/ wrote # 0..(np - 1)
    /\ ok => wrote = 0..(np - 1) /\ np > 0
    /\ cut # "none" => target_rank_ \in wrote
    /\ IF target_rank_ \in wrote
       THEN \E e \in Executions :
               /\ szd' \in IF cut = "indices" THEN Garbled(e) ELSE {e}
               /\ szd_cut' = cut /\ cuts' = cuts \cup ({cut} \ {"none"})
       ELSE UNCHANGED <<szd, szd_cut, cuts>>
    /\ light' = light \cup ((wrote \ {target_rank_}) \cap Ranks)
    /\ reported' = wrote
    /\ input_file' = IF ok THEN input_file ELSE <<>>
    /\ is_first_run' = FALSE
    /\ phase' = "ended"
    /\ UNCHANGED <<num_iters_, chosen, solver, next_input, np, merged, held>>

-----------------------------------------------------------------------------
(* Reading the job's files.                                                *)

\* What a file cut before its tag makes of `into`: n inputs, the first k of
\* the file and the others left, or zero; the tag and the path `into` had;
\* and every index vector full of zeros.  A new object's tag has no value.
HalfRead(into, n, k) ==
    {[into EXCEPT !.tag = tag, !.garbled = TRUE, !.members = <<>>,
                  !.kinds = [i \in 1..n |-> IF i = 1 THEN Roles ELSE Data],
                  !.inputs = [i \in 1..n |->
                                IF i <= k THEN szd.inputs[i]
                                ELSE IF i \in DOMAIN @ THEN @[i] ELSE 0]] :
        tag \in IF into = NoExec THEN WildValues \cap Nat ELSE {into.tag}}

\* What parsing szd_execution, whichever job wrote it, makes of `into`: a
\* file without a path leaves the old one.  If the number of inputs is
\* missing too, the vectors get an uninitialized length.
Parsed(into) ==
    IF szd = NoExec THEN {into}
    ELSE CASE szd_cut = "none" -> {szd}
           [] szd_cut = "inputs" ->
                 UNION ({HalfRead(into, Len(szd.inputs), k) :
                           k \in 0..Len(szd.inputs)}
                        \cup {HalfRead(into, n, 0) : n \in WildValues \cap Nat})
           [] szd_cut \in {"indices", "branches"} ->
                 {[szd EXCEPT !.constraints = into.constraints]}

\* The rest of RunProgram, with the strategy's object `into`; a failure is
\* only logged.
ReadExecution(into) ==
    /\ phase = "ended" /\ phase' = "parsed"
    /\ \E ex \in Parsed(into) : held' = held \cup ({ex} \ {NoExec})
    /\ UNCHANGED <<num_iters_, is_first_run, chosen, solver, next_input,
                   files, np, reported, merged>>

\* An uninitialized length may be one no vector can have.
ReadFails ==
    /\ phase = "ended" /\ phase' = "exited"
    /\ szd_cut \in {"inputs", "indices"}
    /\ UNCHANGED <<num_iters_, is_first_run, chosen, solver, next_input,
                   files, np, reported, merged, held>>

\* Mutated form: the loop stops one rank early.
UpdateCoverageShort ==
    /\ phase = "parsed"
    /\ merged' = {r \in 0..(comm_world_size_ - 2) :
                     r # target_rank_ /\ r \in light}
    /\ phase' = "search"
    /\ UNCHANGED <<num_iters_, is_first_run, chosen, solver, next_input,
                   files, np, reported, held>>

\* UpdateCoverage parses the file of every rank below comm_world_size_ but
\* the focus'; the counters it updates are those of module Coverage.
UpdateCoverage ==
    /\ phase = "parsed"
    /\ merged' = {r \in 0..(comm_world_size_ - 1) :
                     r # target_rank_ /\ r \in light}
    /\ phase' = "search"
    /\ UNCHANGED <<num_iters_, is_first_run, chosen, solver, next_input,
                   files, np, reported, held>>

-----------------------------------------------------------------------------
(* SolveAtBranch: the next input from a retained execution.                *)

\* Mutated form: the constraints are not generated anew.
RefreshIndicesOnly(ex) ==
    IF execution_tag_ = ex.tag
    THEN UNCHANGED solver
    ELSE /\ execution_tag_' = ex.tag
         /\ rank_indices_' = At(ex.kinds, "rank")
         /\ world_size_indices_' = At(ex.kinds, "size")
         /\ comm_indices_' = At(ex.kinds, "comm")
         /\ UNCHANGED constraintsMPI

\* The MPI state is refreshed only when the execution's tag is new.
Refresh(ex) ==
    IF execution_tag_ = ex.tag
    THEN UNCHANGED solver
    ELSE /\ execution_tag_' = ex.tag
         /\ rank_indices_' = At(ex.kinds, "rank")
         /\ world_size_indices_' = At(ex.kinds, "size")
         /\ comm_indices_' = At(ex.kinds, "comm")
         /\ constraintsMPI' = MPI(ex)

\* The first rank must be below the first size; of one variable that has
\* both roles, the difference is no constraint.
Ordered(kinds) ==
    LET ranks == At(kinds, "rank")
        sizes == At(kinds, "size")
    IN ranks # {} /\ sizes # {} /\ First(ranks) # First(sizes)

\* Variables IncrementalSolve may change: all those the MPI constraints link
\* to one of them, or none of these.
Closed(C, kinds) ==
    LET ranks == At(kinds, "rank")
        sizes == At(kinds, "size")
        groups == IF Ordered(kinds) THEN {ranks \cup sizes}
                  ELSE {ranks, sizes}
    IN \A g \in groups : C \cap g = {} \/ g \subseteq C

Kind(kinds, i) == IF i \in DOMAIN kinds THEN kinds[i] ELSE Data

\* One solution: the common rank, the common size, the communicator rank
\* and the plain variables.  Limits are inclusive, and do not bound roles a
\* cut file gave to other variables.
Assignments(C, mpi) ==
    [rank : RankValues,
     size : 0..(IF mpi.garbled THEN WorldSizeLimit + 1 ELSE WorldSizeLimit),
     comm : 0..(IF mpi.garbled THEN WorldSizeLimit ELSE Len(mpi.members)),
     data : [C -> DataValues]]

\* A variable with several roles has one value.
Consistent(w, C, kinds) ==
    \A i \in C : \A j, k \in Kind(kinds, i) : w[j] = w[k]

\* The inputs of ex with the variables of C solved.
Assign(ex, C, mpi, w) ==
    [i \in DOMAIN ex.inputs |->
        IF i \notin C THEN ex.inputs[i]
        ELSE IF Kind(mpi.kinds, i) = Data THEN w.data[i]
        ELSE w[CHOOSE k \in Kind(mpi.kinds, i) : TRUE]]

\* Mutated form: the constraint rank < size is not generated.
SolutionsUnordered(ex, C, mpi) ==
    {Assign(ex, C, mpi, w) :
        w \in {w \in Assignments(C, mpi) : Consistent(w, C, mpi.kinds)}}

\* The solutions of the constraints of GenerateConstraintsMPI: equal ranks,
\* equal sizes, and the one below the other.
Solutions(ex, C, mpi) ==
    {Assign(ex, C, mpi, w) :
        w \in {w \in Assignments(C, mpi) :
                 /\ Consistent(w, C, mpi.kinds)
                 /\ Ordered(mpi.kinds) => w.rank < w.size}}

\* The world rank of the member the solution picked: one past the last
\* member, the read of rank_non_default_comm_map_ is out of bounds, and of
\* a cut file the map may be missing.
GlobalRanks(ex, y) ==
    (IF y + 1 \in DOMAIN ex.members THEN {ex.members[y + 1]} ELSE WildValues)
    \cup (IF ex.garbled THEN WildValues ELSE {})

\* The solution merged into the execution's inputs; late in the session a
\* changed communicator rank redirects the focus to that member.
Merged(ex, sol, ranks, comms) ==
    LET moved == {i \in comms \cap DOMAIN ex.inputs : sol[i] # ex.inputs[i]}
    IN IF num_iters_ > Warmup /\ moved # {}
       THEN {[i \in DOMAIN sol |-> IF i \in ranks THEN g ELSE sol[i]] :
                g \in GlobalRanks(ex, sol[First(moved)])}
       ELSE {sol}

\* The MPI constraints or cached indices name variables ex does not have: a
\* limit of a cut file, or another execution with this tag.  Vectors as long
\* as the inputs are indexed with them.
Outside(ex) ==
    ex.garbled \/ UNION {At(constraintsMPI'.kinds, k) : k \in Roles}
                     \ DOMAIN ex.inputs # {}

SolveAtBranch(ex) ==
    /\ phase = "search" /\ ex \in held /\ ex.constraints
    /\ Refresh(ex)
    /\ \/ UNCHANGED <<phase, next_input>>      \* unsatisfiable
       \/ Outside(ex) /\ phase' = "undefined" /\ UNCHANGED next_input
       \/ \E C \in SUBSET DOMAIN ex.inputs :
             /\ Closed(C, constraintsMPI'.kinds)
             /\ \E sol \in Solutions(ex, C, constraintsMPI') :
                  next_input' \in
                     Merged(ex, sol, rank_indices_', comm_indices_')
             /\ phase' = "ready"
    /\ UNCHANGED <<num_iters_, is_first_run, chosen, files, np, reported,
                   merged, held>>

\* Mutated form: only the rank indices are cleared.
RestartHalfCleared ==
    /\ phase = "search" /\ Restarts # "none"
    /\ next_input' = <<>> /\ phase' = "ready" /\ held' = {}
    /\ rank_indices_' = {}
    /\ UNCHANGED <<num_iters_, is_first_run, chosen, execution_tag_,
                   world_size_indices_, comm_indices_, constraintsMPI, files,
                   np, reported, merged>>

\* A strategy's loop starts over with empty input and drops the executions
\* it had; its object is parsed into again.
Restart ==
    /\ phase = "search" /\ Restarts # "none"
    /\ next_input' = <<>> /\ phase' = "ready" /\ held' = {}
    /\ IF Restarts = "clearing"
       THEN rank_indices_' = {} /\ world_size_indices_' = {}
       ELSE UNCHANGED <<rank_indices_, world_size_indices_>>
    /\ UNCHANGED <<num_iters_, is_first_run, chosen, execution_tag_,
                   comm_indices_, constraintsMPI, files, np, reported,
                   merged>>

-----------------------------------------------------------------------------
Next ==
    \/ RunProgram
    \/ \E wrote \in SUBSET (0..(np - 1)), cut \in Cuts \cup {"none"},
          ok \in BOOLEAN : JobEnds(wrote, cut, ok)
    \/ \E into \in held \cup {NoExec} : ReadExecution(into)
    \/ ReadFails
    \/ UpdateCoverage
    \/ \E ex \in held : SolveAtBranch(ex)
    \/ Restart

Spec == Init /\ [][Next]_vars

-----------------------------------------------------------------------------
(* Properties.                                                             *)

\* Every variable has its type.
TypeOK ==
    /\ phase \in {"ready", "launched", "ended", "parsed", "search", "exited",
                  "undefined"}
    /\ num_iters_ \in Nat /\ is_first_run \in BOOLEAN
    /\ target_rank_ \in Int /\ comm_world_size_ \in Int
    /\ execution_tag_ \in Nat
    /\ rank_indices_ \subseteq Nat /\ world_size_indices_ \subseteq Nat
    /\ comm_indices_ \subseteq Nat
    /\ constraintsMPI \in
          [kinds : Seq(Kinds), members : Seq(Int), garbled : BOOLEAN]
    /\ next_input \in Seq(Int) /\ input_file \in Seq(Int)
    /\ Execution(szd) /\ szd_cut \in Cuts \cup {"none"} /\ cuts \subseteq Cuts
    /\ light \subseteq Ranks
    /\ np \in Int /\ reported \subseteq Int /\ merged \subseteq Ranks
    /\ \A e \in held : Execution(e)

\* The job has exactly comm_world_size_ processes, the focus among them:
\* what the solver and the guard of LaunchProgram together must ensure over
\* a session of solved, refused, failed and restarted launches.
ProcessesMatchWorldSize ==
    phase \in {"launched", "ended", "parsed"} =>
        np = comm_world_size_ /\ target_rank_ \in 0..(np - 1)

\* The focus is a process of the job whatever was refused, redirected or
\* left over, unless the job has no process at all.
FocusInJob ==
    phase \in {"launched", "ended"} /\ np > 0 => target_rank_ \in 0..(np - 1)

\* The update reads every file the job's light processes wrote.
AllReportsRead ==
    phase = "search" => reported \ {target_rank_} \subseteq merged

\* The cached MPI state is that of the execution with the cached tag, except
\* for index vectors a restart cleared and the map of a file cut in its
\* indices, until a file is cut before its tag: then the object keeps the
\* tag of the execution it was read over.
CacheCoherent ==
    "inputs" \notin cuts =>
        \A e \in held : e.tag = execution_tag_ =>
            /\ constraintsMPI.kinds = e.kinds
            /\ "indices" \in cuts \/ constraintsMPI.members = e.members
            /\ rank_indices_ \in {{}, At(e.kinds, "rank")}
            /\ world_size_indices_ \in {{}, At(e.kinds, "size")}
            /\ comm_indices_ = At(e.kinds, "comm")

\* The tag tells executions apart: two a session parsed with the same tag
\* have the same variables, inputs and, unless its map was cut off,
\* communicator, however many files were cut behind their tag.
TagsDifferentiate ==
    "inputs" \notin cuts =>
        \A e, f \in held : e.tag = f.tag =>
            /\ e.kinds = f.kinds /\ e.inputs = f.inputs
            /\ "indices" \in cuts \/ e.members = f.members

\* LaunchProgram indexes inside the inputs it is given, until a file is cut
\* before its tag.
IndicesInRange ==
    phase = "ready" /\ "inputs" \notin cuts =>
        /\ rank_indices_ \subseteq DOMAIN next_input
        /\ world_size_indices_ \subseteq DOMAIN next_input

\* An input with both variables names a rank below its size: a later launch
\* with these inputs can have the focus in the job.
InputRankBelowSize ==
    \A e \in held : \A i \in At(e.kinds, "rank"), j \in At(e.kinds, "size") :
        e.inputs[i] < e.inputs[j]

=============================================================================
