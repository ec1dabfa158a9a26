# A verification model of COMPI

COMPI is a concolic tester for MPI programs, derived from CREST. The driver
(`run_crest`) runs an instrumented program as an MPI job again and again. One
process of the job, the *focus*, executes symbolically and writes its path
constraints to a file; the others only report the branches they took. The
driver negates a constraint, solves, writes the next input and may change the
focus rank and the number of processes.

This directory holds TLA+ modules of the parts of COMPI that carry its logic,
TLC configurations that check them on small instances, and TLAPS proofs.
`PROJECT.json` lists runs, properties, mutants, proofs, known disagreements
between code and documentation, and the source lines each definition models.

## 1. Inventory

Paths are relative to `src/src/` unless they start with `bin`, `cil` or `test`.

### 1.1 Components

**Driver: coverage accounting** (`run_crest/concolic_search.cc`, class
`Search`). *State*: `covered_`, `total_covered_`, `reached_`, four counters,
and the file `coverage`, which the next session starts from. *Operations*:
constructor (lines 62-150), `UpdateCoverage` (399-463),
`WriteCoverageToFileOrDie` (209-225); `CfgHeuristicSearch::Run` forgets
`covered_` alone at each restart (1245). *Hard*: the file is truncated and
rewritten in place, so a kill leaves part of it and a cut number reads back as
another id; the counters are incremental, the sets are not always their match.
*Correct when* nothing is counted twice or lost, nothing is reported that no
execution had, and a kill costs little.

**Driver: launch loop and solving** (`concolic_search.cc`, `LaunchProgram`,
`RunProgram`, `SolveAtBranch`; `base/yices_solver.cc`;
`base/symbolic_execution.cc`). *State*: `target_rank_`, `comm_world_size_`,
`num_iters_`, the cached MPI state (`execution_tag_`, three index vectors, the
MPI constraints), and files: `input`, `szd_execution` (focus), `szd_execution<i>`
(other ranks). *Operations*: choose focus and size, write `input`, start
`mpirun` with a time limit, parse what the job left, merge coverage, solve a
retained execution at a branch. *Hard*: all communication is through files that
survive a failed job; the focus, the size, the indices and the inputs are kept in
different places and updated at different moments; the solver's choice of a
rank in another communicator redirects the focus. *Correct when* the job has
the processes the driver believes it has, cached state belongs to the
execution that is used, a slice of the constraints answers for all of them, and
what a cut file leaves in a reused object is bounded.

**Driver: search strategies** (`concolic_search.cc`): bounded depth-first, random input,
random, uniform random, hybrid, CFG baseline, CFG heuristic. *State*: the retained
executions, the object the next file is read into, the bound, the distances. *Hard*:
termination (some loops spin without running the program), restarts, the acceptance of
predictions, files that were read in part. `CfgHeuristicSearch` contains two algorithms
that are components of their own:

* **branch distances** (`UpdateBranchDistances`, 1430-1459): a backward
  breadth-first search over the thinned graph, after every new coverage;
* **walks over marked paths** (`CollectNextBranches`, `SkipUntilReturn`,
  `FindAlongCfg`, `MinCflDistance`, `SolveAlongCfg`): recursive descent over a
  path with call and return markers.

**process_cfg** (`process_cfg/process_cfg.cc`): thins the control-flow graph to
edges between branches with a bounded Dijkstra search from every branch.

**Symbolic interpreter** (`base/symbolic_interpreter.*`,
`symbolic_expression.*`, `symbolic_predicate.*`): an operand stack, a predicate
register, a return flag and the symbolic memory of the focus process.
*Operations*: one per instrumentation call. *Hard*: it shadows the program's
evaluation without seeing it, across casts, pointers, assignments that are not
instrumented, and calls of instrumented, variadic and uninstrumented functions.

**Symbolic path** (`base/symbolic_path.*`): the branch sequence and the index of
its constraints, built by `Push`.

**Input marking** (`libcrest/crest.cc`, the `NewInput*` methods): in *every*
process of the job, with MPI collectives. *State*: inputs, index vectors, rank
maps. *Hard*: the processes run concurrently and match broadcasts by order.

**Instrumentation** (`cil/src/ext/crestAll.ml`, `crestBranch.ml`,
`crestInstrument.ml`): inserts the interpreter calls; one build for the focus
(all calls) and one for the others (branches only), compiled separately by
`bin/cm1` and `bin/cm2`, whose branch ids must coincide.

**Yices encoding, command line, printing tools, scripts, CIL**: translation,
parsing, output and third-party code.

### 1.2 Interactions

```
crestAll.ml -> calls -> Interpreter/Marking (in each process of the job)
                            | szd_execution, szd_execution<i>
run_crest  --mpirun-->  MPI job          (input, .target_rank)
    | RunProgram parses the files -> UpdateCoverage -> coverage file
    | strategy picks execution and branch -> SolveAtBranch -> next input
process_cfg -> cfg_branches -> UpdateBranchDistances -> strategy
```

Within the driver everything is one thread; concurrency is between the processes
of a job, between the job and its time limit, and between the driver and
whoever kills it. `PROJECT.json` lists the hazards with their lines.

## 2. Modules

| module | models | composed with |
|---|---|---|
| `Coverage` | coverage accounting, over sessions and kills | refines `CoverageLedger` |
| `CoverageLedger` | what a campaign's coverage promises | |
| `Launch` | launch loop, job outcome, files, solving | |
| `Constraints` | predicates, MPI constraints and executions as the solver sees them | |
| `BranchSolver` | what solving an execution at a branch promises | |
| `Solver` | `SolveAtBranch` with `IncrementalSolve`, step by step | refines `BranchSolver` |
| `ExecutionFile` | `szd_execution`: written, cut, parsed into reused objects | |
| `ThinCfg` | `process_cfg` | |
| `BranchDistances` | `UpdateBranchDistances` | |
| `CfgDistances` | control-flow graph to distances | composes `ThinCfg` and `BranchDistances` |
| `CflPath` | `SymbolicPath::Push` and the walks over paths | |
| `Executions` | programs, executions, `SolveAtBranch`, `CheckPrediction` as operators | |
| `Strategies` | the loops of the seven search strategies | over `Executions` |
| `Interpreter` | stack machine with the instrumented statements | |
| `InputMarking` | marking in all processes of a job | |
| `*Proofs` | theorems about `Coverage`, `Launch`, `Solver`, `Strategies`, `Interpreter`, `ExecutionFile`, `InputMarking`, and in `HeuristicProofs` about the algorithms of `CfgHeuristicSearch`: `BranchDistances`, `ThinCfg`, their composition and `CflPath` | |
| `MC*` | constants of the TLC runs | |

Operators whose name contains a mutation, preceded by a comment `Mutated form`,
are variants of the operator they stand beside with a plausible error. They
are not part of any specification; substituting one must break the property it
is paired with.

### Coverage
One action per step that touches the sets or the file: `Search` (constructor),
`RunProgram` (with the reset of `covered_`), `UpdateCoverage`, `OpenFile` (the
truncation by `fopen`), `CloseFile`, and a kill at any of these. A program run
is the set of ids on its paths. `PartialFiles` is what a cut write leaves: a
prefix of the lines and possibly a number without its last digits. `executed`
and `torn` are history variables. `Known` and `Saved` map the state to the ledger:
a file opened for the write already counts as saved, and a kill inside the write
is the ledger's `Damage`.

### Launch
Each action is one phase of the loop: `RunProgram` up to `system()`, `JobEnds`
(which ranks wrote, where the focus's file was cut, the exit status),
`ReadExecution`, `UpdateCoverage` (which files are read), `SolveAtBranch`,
`Restart`. `held` is every execution a strategy can still have; any of them may be
solved at any branch and be the object the next file is read into, so every
strategy's order is included. The solver is any solution of the MPI constraints
over a set of variables closed under them, which `Solver` justifies.

A position in an input vector has a set of roles: rank, size, rank in another
communicator. A program gives a variable one role or none (`Data`); a file that was
cut can give it several. The parts of the file are those `Parse` reads one after the
other, and `Cuts` says in which a write may end:
* in the inputs or before the tag (`HalfRead`): the object has some of the new inputs,
  its old tag and path, and index vectors full of zeros, so the first variable has
  every role. If the number of inputs is missing too, the vectors get an
  uninitialised length, with which the read itself may fail (`ReadFails`);
* in the limits or indices (`Garbled`): the vectors behind the cut have the last
  length that was read, and zeros. A cut inside a vector is taken to lose all its
  entries, and the limits of such an execution bound nothing;
* in the branches: everything but the path is new, the constraints are the old ones.

A read outside a vector returns a value of `WildValues`, and so does the tag of an
object into which nothing was read. `SolveAtBranch` ends in the phase
"undefined" where the cached constraints or indices name a variable the execution
does not have (`Outside`). `cuts` is a history variable: the properties that fail
after a cut before the tag say so.

### Constraints, BranchSolver and Solver
A constraint is its set of variables with the assignments to these that satisfy
it; `Negation`, `DependsOn`, equality and the MPI constraints are defined on that.
`Solver` follows one call after another through `SolveAtBranch`: the early return on
a repeated constraint, the negation in place, the MPI constraints generated
anew or taken from the cache, the graph on the variables, the search for the slice a
variable at a time, the solution merged with the old inputs, the second negation.
Yices is sound and complete on a slice. `BranchSolver` knows
neither slice nor cache nor negation: a call answers with an input that keeps
the prefix, turns the branch and keeps every MPI constraint the execution itself
kept (an execution may break some, since the first inputs are
random), or with the failure, which means no input does. `Restored` maps the
execution to the one before the negation.

### ExecutionFile
`Serialize` writes a sequence of items, a cut file is a prefix of it, and a read beyond
the end leaves its variable as it was. The two objects of a random search are parsed
into, swapped and solved in any order. Each value, constraint and index carries the job
it comes from, so a mixture shows. The phase "undefined" is reached where the code reads
an uninitialised length, follows or deletes a deleted or null pointer, or indexes a
vector with a variable that a shorter input does not have.

### ThinCfg and BranchDistances
The two shortest-path algorithms, a step per queue element (and per edge for the
second). Iteration over maps and vectors goes in id order as in the code. With the
code's `max_dist` of 1 the `dist > max_dist` break never fires, because longer
distances are not queued; the module keeps it. `nbhrs` is what is written to
`cfg_branches`. `CfgDistances` runs one after the other: a control-flow graph is
thinned, the constructor of `CfgHeuristicSearch` reads the result, and two calls
search it with any coverage before each. `Entering` defines distances on
the control-flow graph itself, without the thinned one.

### CflPath
`trace` is the run as it happened; `branches_`, `branchesSet_` and the constraint
index are what is recorded of it: `RecordCall`, `RecordReturn`, `RecordBranch`. The
walks are operators on any path, checked against definitions by balanced calls
(`Followers`). The recursion of `SkipUntilReturn` and `CollectNextBranches` is a
recursive function of the position, that of `FindAlongCfg` one of the depth, and
`MinStep` is the body of the loop of `MinCflDistance`: `cur_dist`, the stack, and
whether the function searched has returned.

### Executions and Strategies
A program maps an input to the conditionals a run evaluates; a predicate is the
set of inputs it holds for. `Execution` is what `Push` records of such a run: every
branch, and a constraint at the places `Kept`, in the order of the run (`Ordered`).
`Solutions` is what the solver may return. In `Strategies`, `pc` "search" (and
"step" inside `RandomStep`) is a strategy's choice of a constraint, "run" the
call of `RunProgram` with the iteration cap, "ran" what the strategy does with the
outcome. `file` is what `szd_execution` holds. A run may leave the file of an earlier
run, or one cut in its branches; `RunProgram` goes on after a failed parse, so what
counts is the object the file was read into (`ReadInto`): `ex`, or `cur_ex`, which stands
for the local or member object of the strategy at hand and is swapped, kept or made
anew where the code does so. An object that was new has the branches and no
constraints; one that was used keeps its old constraints beside new branches. If
`DoSearch` then scores a constraint whose index lies beyond the branches, `pc` is "undefined".
Cuts elsewhere in the file are the matter of `ExecutionFile` and `Launch`. The active
calls of `DFS` and of `SolveAlongCfg` are a stack, `frames`. Since recorded paths
hold no call markers, the one branch that follows another is the next on the
path, and since a direction leaves one constraint, `seen[bid]` is zero and every
score is a distance; both are explained where they are used. `DistancesFrom`
states directly what `BranchDistances` shows to be computed. Numbers such as
10000 attempts or 100 steps are constants, small in the run.

### Interpreter
The interpreter's methods are functions of a record `SI`; the actions are
statements with the calls `crestAll.ml` puts around them. The program's
own state (`memory`, frames) evolves beside it. An expression is the function
from the marked input to its value, which represents COMPI's linear expressions
exactly over `Values`. An operand has two values: `concrete`, which the interpreter was
told, and `value`, which the program computes with. They differ after a cast
(`EvaluateCast`), for which no call is inserted. An operator's result may wrap in
its type (`Results`), while its expression does not. Operators of pointers reach
`ApplyCompareOp` (`EvaluatePointerOp`), since `__CrestApply2` compares whatever is not
between `+` and `||`. An assignment that is not instrumented (`AssignUnseen`: a
structure, a pointer, a bit field) and a library (`LibraryWrites`: an `MPI_Recv` buffer)
change memory without a `Store`. A function of variable arguments stores none of them
(`CallVariadic`). `used` records which of these the run has done and whether it
nested a comparison in an operator or was called back by a library; each property
excepts runs with some of these:

| property | excepts |
|---|---|
| `ConcolicAgree` | casts and overflow that change a value, unseen writes over a symbolic value, callbacks |
| `PlainPredicateOnTop`, `ConstraintsHold` | every feature: they are about plain programs |
| `StackIsOwn`, `NeverAborts` | variadic functions, callbacks |

### InputMarking
Each process has its own position in its marks; `NewInput` on rank 0 sends, on
the others waits for the broadcast with the same ordinal; the collectives for a
local rank complete when all members have entered. `NobodyStuck` says in terms of the
guards what a deadlock would be (`Ready`), so that it can be proved.

## 3. Runs

| run | what it asks | instance, and why it is enough |
|---|---|---|
| `coverage` | do counters, file and ledger agree over sessions killed anywhere | 4 branches in 2 functions whose ids make a cut line read as no branch and as another branch; 2 runs per session (one that resets, one after it), 3 sessions (one that tears, one that inherits, one more) |
| `ordered` | has the job the size and focus the driver believes, are all reports read | at most 3 processes, 3 iterations: first, solved, solved again; processes crash, files are cut in their branches |
| `hostile` | do tag, cache and focus survive crashes, cut files, restarts and wild ranks together | 2 processes, 3 iterations, two paths (rank with communicator, size before rank), files cut in any part, wild values -1 and 1, redirect after the first iteration. The coverage files are left out of the `VIEW`: no guard reads them and no property of this run speaks of them |
| `solver` | does solving a slice answer for the whole path, with cached MPI constraints | 3 variables of 2 values, every path of two constraints from ten (shared, separate and contradicting ones), five markings, every input that takes the path, 2 calls after another execution was solved |
| `execution_file` | what may a cut file leave in the objects | 3 jobs of three shapes (2 and 3 inputs, none), each file cut at every item or missing; an uninitialised length is 0 or 2, shorter and longer than what it stands for |
| `cfg_distances` | are distances those of the control-flow graph, with stale ones of an earlier call | 5 nodes, 3 of them branches; joins, silent cycles, loops over a branch, dead ends; `kInfiniteDistance` 3 so that the cap is met; 2 calls |
| `cfl_path` | do the walks meet their documentation and asserts | every run of 7 events, which holds two calls in sequence or nested with branches around them |
| `strategies` | do asserts and predictions hold, is depth-first search complete, does the heuristic's walk keep its distance, does every strategy reach its cap | 4 inputs, 14 programs: 9 trees of two levels with solvable and unsolvable branches, sequences with a concrete conditional, a loop, a repeated conditional; 5 runs, each of which may leave no file or one cut at any branch: a forced run, one that goes wrong, and two that use what it left; depth bounds 1 and 9, steps of 2 so that hybrid search has two local searches |
| `interpreter` | do concrete and symbolic execution agree | input values 0..2 (enough to tell linear expressions apart), 8 operations: a comparison, a branch, a call and a return, or three operators and a store; a narrow type of 2 values, signed or not. A run uses one of the features at most (`MaxUsed`): the properties except features one by one, and the theorems hold for any number |
| `input_marking` | do the processes agree and finish | 3 processes, two communicators, every program of up to 4 marks, every file of up to 3 values |

Two runs are expected to violate a property that a document or comment of the
repository states; `PROJECT.json` quotes them:

| run | disagreement |
|---|---|
| `cfl_path_recorded` | call markers go to `branchesSet_`, not to the path that is walked |
| `interpreter_nested` | the predicate register survives operators with concrete operands, and a branch records the wrong predicate |

Bounds named in the modules: `MaxIters`, `MaxSessions`, `RankValues`, `DataValues`,
`WildValues`, `WorldSizeLimit`/`LaunchLimit` (16 in the code, small here; the theorems
hold for every value), `Warmup` (100 in the code), `MaxCalls`, `Tries` (10000 in the
code), `StepSize` and `LocalSteps` (100), `ScoredIters` (250 and 30), `UintSize` (2^32),
`MaxJobs`, `Uninitialized`, `MaxLen`, `MaxStack`, `MaxFrames`, `MaxAbs`, `MaxUsed`,
`MaxSteps`.

Deadlock checking is off where the modelled system stops (the driver exits, the
search returns) or a bound ends the behaviour; it is on for `InputMarking`, whose
only terminal states are those in which all processes have finished.

### Fairness
* `CfgDistances`, `Solver`: weak fairness of the algorithms' steps and of the reading
  in between. They are loops of one thread that never waits; nothing is assumed of
  the calls.
* `Strategies`: weak fairness of the driver, one thread whose jobs have a time
  limit, and strong fairness of `UniformForce`: a fair coin does not come up tails
  for ever.
* `InputMarking`: weak fairness of each process and of each collective. An MPI
  process keeps running, and MPI completes a collective that all members have
  entered. Nothing is assumed of a process that waits.
* The other modules state safety only.

## 4. Proofs

All theorems hold for every value of the constants that satisfies the named
assumption of its module.

**`CoverageProofs`.** `IInv` strengthens types and `FileCurrent` with
`CoveredWithinTotal` (two sets are tested separately in `UpdateCoverage`, and
only growth of the first triggers the write, so the second must contain it for
the file to be current) and with `LinesEnough` (a torn file may have more
lines than ids, never fewer). `CoverageInvariant` follows. Under `~torn`,
`UncutInv` makes the counters exact (`CountersAreExact`) and coverage real
(`NoGhostCoverage`). `SessionsKeepLedger` shows that every step, kills included,
maps to a step of `CoverageLedger` or a stutter; only `FileCurrent` is needed,
since recording requires memory and file to agree.

**`LaunchProofs`.** `LaunchTypes` for all constants. `FocusIsInJob` assumes the focus
given on the command line is not negative; its invariant adds that the focus rank never
becomes negative. `TagsAndCache` assumes a directory without execution files of earlier
sessions; `TagInv` says that until a file was cut before its tag, the tags of all known
executions (held or on disk) are at most the iteration and below it while a job runs, so
a new file has a new tag, and that two with one tag have the same variables. A file cut
behind its tag keeps this: whatever its indices have become, every object it is read
into has the same. With strategies that clear the index vectors when they restart, the
same invariant gives `IndicesHold`: after solving, the cached indices are those of the
solved execution, or empty, and the next input has a value for every variable of that
execution; it too ends with the first cut before a tag, after which TLC finds reads
outside the inputs. `OrderedJobs` assumes `OrderedCampaign`: every path that marks a
size marks a rank, no communicator is marked, there are no restarts and no leftover
files, no file is cut before its path, and the given focus and size are consistent.
`OrderedInv` says that every known input has its rank below its size, that the next
input does too at the cached indices, and that the size a process reads from the input
file leaves room for the focus even when the guard refused the file's rank.

**`HeuristicProofs`, distances.** For every control-flow graph, coverage and number of calls.
The invariant of the search: uncovered branches have distance zero (`Zero`), a
finite distance has a successor that supports it (`Supported`), and an edge that
could still shorten a distance has its target in the queue or under visit
(`Relaxed`). When the queue is empty the shortest-path equations remain
(`DistancesAreShortest`). `OnceInv` says that the distances along the queue do not
fall and exceed the front's by one at most, so a branch is queued once and its
first distance is final (`BranchesEnqueuedOnce`, `DistancesAssignedOnce`).
`ThinInv` does the same for the bounded Dijkstra search of `process_cfg`: every
distance is that of a path (`PathsFound`), the queue holds what was reached and
is not finished (`Frontier`), and the edges of a finished node have been followed
(`Followed`); `Written` is then the thinned graph (`ThinnedHolds`). What a branch
reaches without entering another is a recursive function; it is unfolded by lemmas,
and a pigeonhole argument shows that as many steps as there are nodes suffice.
`DistancesHold` composes the two programs: the edges that thinning drops, from a
branch to itself or through a third branch, never shorten a path. Its induction
over the length of a path is over a set of numbers, with the library's
well-founded induction for sets.

**`HeuristicProofs`, walks.** For every set of branch ids, every path over them and the
markers, and every nesting, paths that leave the function they start in included. The
height of a position is the calls open there, less the returns. A call ends where the
height first falls below what it was before the call's first event (`Ends`), which is
where `SkipUntilReturn` stops (`SkipEnds`). What follows a position is what comes first:
a branch reached without leaving the function and with no branch before it whose call is
still open (`Firsts`). By induction from the path's end, a call contributes the first
branches inside it and those after its return, and `CollectNextBranches` collects them
(`CollectsFirsts`); a branch whose call has ended lies inside a complete call, so these
are the `Followers` (`NextAreFollowers`, `CollectsDocumented`). The distance from one
branch to another is one more than the branches between them whose calls are still open
(`Dist`). A shortest walk goes through a first branch (`FirstToward`), so `FindAlongCfg`
finds what is within a distance (`FindsWithin`). `LoopInv` says the same of the loop of
`MinCflDistance`: while it has not left the function its stack holds, for every open
call, the distance its return will bring back (`Level`), and `min_dist` is the least
distance met (`MinWithin`). The two agree (`FindMatchesMin`). `MaxLen` bounds the
distances compared and stands for the size_t maximum; no path in the theorem is bounded
by it. On a path without markers, such as every recorded one, the branch that follows is
the next (`NextOnRecordedPath`) and what is found is any branch that many events on
(`FindOnRecordedPath`): how `Strategies` models `DoSearch` and `SolveAlongCfg`.

**`SolverProofs`.** For every execution, cached or new MPI constraints and any number of
calls. The invariant names the execution `e` that was given: `Given` says that `ex` is
`e`, with one constraint negated while a slice is searched, and that the cached MPI
constraints are those of `e` once its tag is cached; `GraphOf` says which constraints
the graph is built from; `Collected` says that what has been collected is closed up to
the variables still queued, and `Connected` that it lies within every separate set
around the branch's variables. With an empty queue the slice is closed
(`SlicesAreClosed`) and minimal (`KeepsUnconnected`). `SolverAnswers` is the refinement
of `BranchSolver`: a solution of a closed slice merged with the old inputs satisfies the
constraints outside because the old inputs did, and if an input forced the branch its
restriction would solve the slice.

**`StrategiesProofs`.** For every set of inputs, program, depth and limit, and runs that
fail at any moment or leave a file cut at any branch. A first part says what an
execution records: the n-th constraint is that of the place of rank n among those kept,
and where every conditional is evaluated once and recorded that is the n-th conditional
(`AllRecorded`). So an input that solves an execution at a constraint takes its path up
to there and the other direction then (`SolutionFacts`, by determinism of the program
and a least place where two runs differ), two runs are the same or one solves the other
somewhere (`SameOrSolution`), and what else solves that constraint is behind it on the
new run (`SolutionsBehind`). `Inv` has types (`Held`: an object is a whole execution,
or, once a file was cut, any feasible branches with as many indices as constraints), the
active calls each strategy may have, the constraints its loop has left, and what a run
aims at (`Aimed`); `PredictionsMet` follows for campaigns without a failed run.
`WalkInv` is about `SolveAlongCfg`: a branch at distance zero was not covered before the
last run (`Fresh`), every active call stands on a path that was covered before the last
run and has a bound from zero to below `kInfiniteDistance` (`Near`), a branch forced is
within that bound (`ForcedNear`), and what a run found is on the path it left (`Seen`).
At bound zero the branch that follows is covered and so too far to walk on to, and one
that is forced is uncovered, so that the run that takes it ends the walk: the bound
never wraps (`WalksAreBounded`), and the assert on luck holds. `LocalInv` keeps the
start of a local search among the constraints of the execution, which is the assert of
`RandomStep` (`AssertsNeverFail`), until a file is cut in its branches; the assert on
luck holds whatever was cut. `DfsInv` says of every active call of depth-first search
that all runs which force a constraint it has passed are covered, but for the one the
next call is at, and that bound plus place never falls below the depth given; a call
that returns has ended its path and so handled its caller's constraint. At the end of
the outermost call every input's run is covered (`DepthFirstIsComplete`).
`DistancesAreSearched` unfolds the function that `DistancesFrom` is written with (by
iteration over sets, `Upto`) and shows by induction that its n-th set is that of the
branches at distance n or less.

**`InterpreterProofs`.** For every set of expressions that the constants allow and stacks
of any depth. `Framed`: only the innermost function has operands, and they are on the
shadow stack. `Register`: a predicate is held only under a concrete result, so
`PredicateUnderConcrete`: the negation of a predicate in `ApplyUnaryOp`
(`symbolic_interpreter.cc:154-158`) is never reached; this holds with every feature.
`Standing`: in a run that uses none of the features the predicate belongs to the
comparison on top. `StackAgrees` and `MemoryAgrees`: as long as the run is `Followed`
(no cast or overflow that changes a value, no unseen write over a symbolic value, no
callback), the expressions have the program's values. The register and the agreement
need each other: a comparison's predicate is true because its operands agree, and a
branch's constraint is true because the predicate is that of the value on top
(`ConstraintsAreTrue`). `Uncalled` holds until a library calls back or a variadic function is
called and gives `StackHolds` and `AssertsHold`.

**`ExecutionFileProofs`.** For every shape of execution, every cut, any number of jobs and
any earlier content of an object. `Laid` says where `Serialize` puts each section
and `AllFound` that the parser finds each section that begins within a cut file where it is:
the first length that is missing puts everything behind it beyond the end.
So a whole file is read as written (`WholeFilesAreRead`), and of a cut file each field is new or
what the object held. `Entry` says what a constraint of an object can be: one of its
last file's, blank, deleted or null, never of an earlier run (`OneJobHolds`), and which
cuts leave unusable ones (`UsableHolds`). `TagsHold`: a tag and the indices behind it
change together unless the file ended before the tag.

**`InputMarkingProofs`.** For every program, file, set of disjoint communicators and
interleaving. `FocusInv`: indices of the focus point at marks of their kind, in order,
the n-th map is that of the n-th local index, and the input there is the focus's rank in
it, except while it waits in the collective (`FocusHolds`). `SyncedWith` names the file
and says of every process how many broadcasts it has received, as a function of its
place and the file's length alone; `ValuesHold` follows when all ranks run one program,
which is what the driver starts: two builds of one source. `CommInv` adds that a process
waits in a collective at a local mark only, and that all members of a communicator have
been through equally many of its collectives. From both, `NoDeadlock`: of the processes
that have marks left take one with the fewest behind it. If it waits in a collective, a
member still missing would have fewer marks behind it, so all have come. If it lacks a
broadcast, rank 0, which sends it, is at that very mark and can take it. Otherwise it
takes its own step. `Ready` states the guards that `ENABLED` would, presuming that a
value below the variable's cap can be drawn (a cap above zero). What is left to fairness
is only that a process that can go on does (`AllFinish`).

Only model-checked: every liveness property (`ReachesCap`, that searches, solver and
jobs finish), which needs fairness. Every invariant and safety property of a passing
run has a theorem. `Strategies` has the distances as a definition, `DistancesFrom`:
`HeuristicProofs` shows that the search of `UpdateBranchDistances` ends in a solution
of the equations `Shortest`, and `DistancesAreSearched` that the same equations, over
a program's branches, have no other solution than that definition. The two theorems
are about two modules, with branches that are numbers in the one and a conditional
with a direction in the other; the equations are written out in both.

## 5. What is not modelled

* In the strategies: the values `RandomInput` draws, the limit of 1000 tries in one
  `SolveRandomBranch` or `RandomStep`, statistics, new branches that only other
  ranks cover. `SolveUncoveredBranches` and `DoBoundedBFS` are called nowhere.
* Bytes: `ExecutionFile` cuts between items, `Launch` in one of three parts, `Strategies`
  in the branches, `Coverage` has cut numbers. What an execution of a cut file does to
  the run that is solved from it, beyond its focus and inputs, is in `ExecutionFile` for
  two objects only. The files of the other ranks are present or absent.
* The terms built for Yices, which is taken to be sound and complete for them.
* Arithmetic widths: an operator's result may wrap in a type of `Moduli` values; the
  expressions' own coefficients (`value_t`, 64 bits) do not overflow.
* In `Interpreter`: what happens before the first mark, and instrumented functions with
  more than one parameter (a variadic call may have several arguments). Functions marked
  as uninstrumented are libraries here.
* Threads: COMPI assumes single-threaded processes.
* Ids of the two builds of the program under test; they are assumed to coincide.

Behaviour noticed while modelling that no run is devoted to:
* a focus redirected to a rank beyond `comm_world_size_` starts a job with more
  processes than that, and `UpdateCoverage` never reads the file of the last one
  (`concolic_search.cc:366`); `AllReportsRead` holds without redirects only;
* the assert of `RandomStep` (1079) fails when a step forces a branch whose other
  direction was taken, with a constraint, earlier on the path: the new execution
  leaves no constraint for it and may be too short for the step. `AssertsHold`
  excepts hybrid search on programs that repeat a conditional; without the
  exception TLC finds the failure in four runs on `Twice`. It fails as well, for
  programs that repeat nothing, once a file was cut in its branches: each step has a
  new `next_ex` (1081), which after such a file has branches that may pass
  `CheckPrediction` and no constraints, and is swapped in (1104). `AssertsHold`
  excepts this too;
* `DoSearch` scores a constraint by the branch it stands at (1163, 1296); in an object
  whose new branches are fewer than its old constraints need, that read is beyond the path;
* `SolveAlongCfg` calls itself with `max_dist - 1` at zero when the branch it forces was
  covered already, by the lucky run the walk started from: the distances are those
  before that run, and nothing new ends the walk; the bound then is unlimited.
  `WalkBounded` excepts walks that start from a lucky run;
* depth-first search keeps its first execution for ever, so when nothing on it can be
  solved it neither runs the program nor exits; uniform random search does the same
  at any execution. `ReachesCap` states exactly these exceptions;
* a launch the guard refused has already decided its inputs, so a size variable can
  hold another value than the size of the job (`concolic_search.cc:243-249`);
* the first run of a session reads an `input` file an earlier session left
  (`concolic_search.cc:249`), and an execution file of an earlier session may
  carry a current tag (304), which `TagsAndCache` excludes by assumption;
* random and hybrid search restart on an empty input vector (797, 1056) but keep
  the index vectors, so `LaunchProgram` reads `inputs[*rank_indices_.begin()]` past the
  end; `CfgBaselineSearch` clears them first (1129). `IndicesInRange` holds for
  strategies that clear, and fails before the second run with `Restarts = "keeping"`;
* a failed parse "is only logged" (concolic_search.cc:322-324), but what it leaves is
  searched. A file cut in its branches leaves new inputs beside old constraints,
  which index out of range when the new inputs are fewer. One cut behind them
  leaves pointers to deleted constraints, which are followed, and deleted again by
  the next parse (`symbolic_path.cc:138`). One cut before the branches' length
  resizes the vector with an uninitialised length (106). One cut before its tag leaves
  some of its inputs under the tag the object had, with index vectors full of zeros
  (`symbolic_execution.cc:105-162`): two executions then have one tag, and
  `SolveAtBranch` (529) uses the indices and constraints of the other.
  `ConstraintsUsable`, `SameTagSameIndices`, `CacheCoherent`, `TagsDifferentiate` and
  `IndicesInRange` state exactly which cuts they except;
* a new object's `execution_tag_` is uninitialised until a file is read into it
  (`symbolic_execution.cc:18`);
* memory that a library function writes, and a variable inside a structure that is
  copied (`crestAll.ml:610`), keep their old expressions (`symbolic_interpreter.cc:111`), so
  constraints over such a value are wrong; `ConcolicAgree` excepts such runs;
* "We currently treat cast's as no-ops, which is not precise" (`crestAll.ml:556`): after
  a cast that changes a value, or an operator whose result wraps, the expression
  is not the program's value, and a constraint need not hold in its own run;
* operators of pointers have code 18 (`crestAll.ml:437`) and reach `ApplyCompareOp`
  (`crest.cc:161`), which compares their operands with "less than", or with concrete
  operands keeps the register: `q == p + i` with a symbolic `i` records a predicate
  of `p` and `i`. `PlainPredicateOnTop` and `ConstraintsHold` except such runs;
* an instrumented function of variable arguments does not store its arguments
  (`crestAll.ml:680`), which stay on the stack: if it returns before a branch or a call
  clears them, the assert of `Return` fails (`symbolic_interpreter.cc:299`).
  `StackIsOwn` and `NeverAborts` except such runs;
* after a restart that clears the index vectors, a failed job leaves the old
  execution with its cached tag and empty vectors, and the solved rank is not used
  until the tag changes; `CacheCoherent` states exactly this exception;
* a function called back by a library returns over the operands of the library's
  call, and an assert fails (`symbolic_interpreter.cc:299`); `NeverAborts` excludes
  such runs;
* rank-dependent marking pairs broadcasts of different variables, or leaves a process in
  a broadcast nobody else enters (`symbolic_interpreter.cc:380`): `ValuesSynchronized`,
  `NobodyStuck` and `AllFinish` are checked and proved for ranks with the same marks;
* `crestAll.ml` drops a call of `MPI_Comm_rank` whose second argument is not an
  address, a cast or a variable.

## 6. Plan

Done: the modules above, in the order coverage, launch, distances, thinning,
paths, strategies, interpreter, marking, then the composition of thinning and
distances, solving, and the execution file; and the proofs of section 4. For the
proofs some definitions were put in a form that can be reasoned about: the sections of
an execution file are found one behind the other (`Following`), the members of a
communicator are listed by local rank, and the constraints of an execution
are the kept places by rank; the assumptions on programs and shapes say what type
they have. Next, in this order:

1. Proofs: `ProcessesMatchWorldSize` for campaigns that restart; `DfsComplete` for
   programs with concrete conditionals.
2. Coverage of other ranks in `Strategies`, and `DoSearch` over paths with markers
   (the operators of `CflPath`), as if `Push` recorded them.
3. Marking and solving in one module: inputs whose positions have kinds, so that
   `Strategies`, `Launch` and `Solver` share their executions.
4. Cut files of the other ranks, and coverage merged from them.
