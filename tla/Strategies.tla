----------------------------- MODULE Strategies -----------------------------
(***************************************************************************)
(* The loops of run_crest's search strategies: bounded depth-first, random *)
(* input, random, uniform random, hybrid, CFG baseline and CFG heuristic.  *)
(* Each chooses an execution it retains and a constraint to break (pc      *)
(* "search" and "step"), runs the program (pc "run") and reads what came   *)
(* of it (pc "ran").  A file that is cut in its branches is read as far as  *)
(* it goes into an object the strategy uses again: ex, or cur_ex, which    *)
(* stands for cur_ex, cur_ex_ and next_ex.  How a job is launched is left  *)
(* to module Launch, and files cut elsewhere to module ExecutionFile.      *)
(* Indices count from 1.                                                   *)
(***************************************************************************)
EXTENDS Executions

CONSTANTS
    Names,              \* strategies considered
    Depths,             \* values of max_depth_ considered
    MaxIters,           \* max_iters_
    Tries,              \* RandomSearch: attempts before a reset (10000)
    StepSize,           \* HybridSearch: step_size_ (100)
    LocalSteps,         \* HybridSearch: steps of a local search (100)
    ScoredIters,        \* DoSearch: runs before it gives up (250 and 30)
    kInfiniteDistance,  \* 10000
    UintSize,           \* 2^32, the values of an unsigned int
    Failures            \* how a run may fail: "job", it leaves no file of its
                        \* own; "tail", it leaves one cut in its branches

ASSUME StrategiesAssumption ==
    /\ Depths \subseteq Nat \ {0}
    /\ {MaxIters, Tries, StepSize, LocalSteps, ScoredIters, kInfiniteDistance}
        \subseteq Nat \ {0}
    /\ UintSize \in Nat /\ UintSize > kInfiniteDistance
    /\ Failures \subseteq {"job", "tail"}

VARIABLES
    program, strategy, max_depth_,  \* the command line
    pc,             \* "undefined" once the driver's behaviour is
    at,             \* the constraint the next input breaks, 0 for empty inputs
    ex,             \* the execution the strategy's Run holds
    cur_ex,         \* the object a forced run is read into
    file,           \* what szd_execution holds, branches alone if it is cut
    covered_,
    found,          \* branches the last run covered first
    num_iters_,
    lost,           \* history: how runs failed
    frames,         \* active calls of DFS or SolveAlongCfg, the deepest last
    idxs,           \* constraints the current loop has not tried
    count, pos,     \* loop counters
    dist_,
    walked,         \* DoSearch's cur_ex while SolveAlongCfg is active
    lucky           \* what walked found is luck

commandLine == <<program, strategy, max_depth_>>
job == <<file, covered_, found, num_iters_, lost>>
loop == <<ex, cur_ex, frames, idxs, count, pos, dist_, walked, lucky>>
vars == <<commandLine, pc, at, job, loop>>

\* Bounded searches are given a depth.
Init ==
    /\ program \in Programs /\ strategy \in Names
    /\ max_depth_ \in IF strategy \in {"dfs", "uniform_random"} THEN Depths ELSE {0}
    /\ pc = "reset" /\ at = 0
    /\ ex = NoExecution /\ cur_ex = NoExecution /\ file = NoExecution
    /\ covered_ = {} /\ found = {} /\ num_iters_ = 0 /\ lost = {}
    /\ frames = <<>> /\ idxs = {} /\ count = 0 /\ pos = 1
    /\ dist_ = [b \in Branches(program) |-> 0]
    /\ walked = NoExecution /\ lucky = FALSE

-----------------------------------------------------------------------------
(* Running the program *)

\* RunProgram on empty inputs, which the program replaces by random ones.
\* CfgHeuristicSearch::Run forgets the coverage first.
Reset ==
    /\ pc = "reset" /\ pc' = "run"
    /\ at' = 0
    /\ covered_' = IF strategy = "cfg" THEN {} ELSE covered_
    /\ UNCHANGED <<commandLine, file, found, num_iters_, lost, loop>>

\* The execution a forced run was solved from.
Source == IF frames = <<>> THEN ex ELSE Last(frames).ex
NextInputs == IF at = 0 THEN Inputs ELSE Solutions(Source, at)

\* The object RunProgram is given, which then holds what was read.
Read == IF at = 0 THEN ex ELSE cur_ex

IsCut(f) == "constraints" \notin DOMAIN f
Beginning(e, n) == [branches |-> SubSeq(e.branches, 1, n)]

\* Parse(f) into the object e, which keeps its constraints if f is cut.
ReadInto(f, e) == IF IsCut(f) THEN [e EXCEPT !.branches = f.branches] ELSE f

\* The job writes its execution, dies before it opens the file, or is killed
\* while it writes the branches.
Launch ==
    \/ /\ \E x \in NextInputs : file' = Execution(program, x)
       /\ UNCHANGED lost
    \/ "job" \in Failures /\ lost' = lost \cup {"job"} /\ UNCHANGED file
    \/ /\ "tail" \in Failures /\ lost' = lost \cup {"tail"}
       /\ \E x \in NextInputs : \E n \in 0..(Len(program[x]) - 1) :
              file' = Beginning(Execution(program, x), n)

\* RunProgram, which goes on after a failed parse, and UpdateCoverage.
RunProgram ==
    /\ pc = "run" /\ num_iters_ < MaxIters /\ pc' = "ran"
    /\ num_iters_' = num_iters_ + 1
    /\ UNCHANGED <<commandLine, at, frames, idxs, count, pos, dist_, walked, lucky>>
    /\ Launch
    /\ ex' = IF at = 0 THEN ReadInto(file', ex) ELSE ex
    /\ cur_ex' = IF at = 0 THEN cur_ex ELSE ReadInto(file', cur_ex)
    /\ covered_' = covered_ \cup ToSet(Read'.branches)
    /\ found' = covered_' \ covered_

\* The iteration cap is tested when a run is about to start, and only then.
Exit ==
    /\ pc = "run" /\ num_iters_ = MaxIters /\ pc' = "exit"
    /\ num_iters_' = num_iters_ + 1
    /\ UNCHANGED <<commandLine, at, file, covered_, found, lost, loop>>

\* An action inside a strategy: what the next program run finds is unchanged.
Within(name, from) == strategy = name /\ pc = from /\ UNCHANGED <<commandLine, job>>
Goto(to) == pc' = to /\ UNCHANGED at

\* SolveAtBranch succeeds on e's i-th constraint.
ForceAt(e, i) == Solutions(e, i) # {} /\ pc' = "run" /\ at' = i

Predicted == CheckPrediction(Source, cur_ex, Source.constraints_idx[at])

-----------------------------------------------------------------------------
(* RandomInputSearch::Run *)

RandomInput ==
    /\ Within("random_input", "ran") /\ UNCHANGED loop
    /\ pc' = "run" /\ at' = 0

-----------------------------------------------------------------------------
(* BoundedDepthFirstSearch *)

Frame(e, i, bound) == [ex |-> e, pos |-> i, bound |-> bound, force |-> FALSE]
Top == Last(frames)
WithTop(f) == [frames EXCEPT ![Len(frames)] = f]
DfsLoop == Top.pos \in Constraints(Top.ex) /\ Top.bound > 0

DfsStart ==
    /\ Within("dfs", "ran") /\ at = 0 /\ Goto("search")
    /\ frames' = <<Frame(ex, 1, max_depth_)>>
    /\ UNCHANGED <<ex, cur_ex, idxs, count, pos, dist_, walked, lucky>>

DfsForce ==
    /\ Within("dfs", "search") /\ DfsLoop /\ ForceAt(Top.ex, Top.pos)
    /\ UNCHANGED loop

DfsUnsolvable ==
    /\ Within("dfs", "search") /\ DfsLoop /\ Solutions(Top.ex, Top.pos) = {}
    /\ Goto("search") /\ frames' = WithTop([Top EXCEPT !.pos = @ + 1])
    /\ UNCHANGED <<ex, cur_ex, idxs, count, pos, dist_, walked, lucky>>

\* Mutated form: the recursion stays on the caller's execution.
DfsRecurseOnCaller ==
    /\ Within("dfs", "ran") /\ at > 0 /\ Goto("search")
    /\ frames' = IF Predicted
        THEN Append(WithTop([Top EXCEPT !.pos = @ + 1, !.bound = @ - 1]),
                    Frame(Top.ex, at + 1, Top.bound - 1))
        ELSE WithTop([Top EXCEPT !.pos = @ + 1])
    /\ cur_ex' = IF Predicted THEN NoExecution ELSE cur_ex
    /\ UNCHANGED <<ex, idxs, count, pos, dist_, walked, lucky>>

\* A run that meets the prediction costs the caller and the callee one level.
\* The callee works on the caller's cur_ex and has a new one of its own.
DfsRecurse ==
    /\ Within("dfs", "ran") /\ at > 0 /\ Goto("search")
    /\ frames' = IF Predicted
        THEN Append(WithTop([Top EXCEPT !.pos = @ + 1, !.bound = @ - 1]),
                    Frame(cur_ex, at + 1, Top.bound - 1))
        ELSE WithTop([Top EXCEPT !.pos = @ + 1])
    /\ cur_ex' = IF Predicted THEN NoExecution ELSE cur_ex
    /\ UNCHANGED <<ex, idxs, count, pos, dist_, walked, lucky>>

\* The outermost call is made again on the same execution.
DfsReturn ==
    /\ Within("dfs", "search") /\ ~DfsLoop /\ Goto("search")
    /\ frames' = IF Len(frames) > 1 THEN Front(frames) ELSE <<Frame(ex, 1, max_depth_)>>
    /\ cur_ex' = IF Len(frames) > 1 THEN Top.ex ELSE NoExecution
    /\ UNCHANGED <<ex, idxs, count, pos, dist_, walked, lucky>>

Dfs == DfsStart \/ DfsForce \/ DfsUnsolvable \/ DfsRecurse \/ DfsReturn

-----------------------------------------------------------------------------
(* RandomSearch *)

Swap == ex' = cur_ex /\ cur_ex' = ex

RandomRan ==
    /\ Within("random", "ran") /\ Goto("search")
    /\ IF at # 0 /\ (found # {} \/ Predicted) THEN Swap ELSE UNCHANGED <<ex, cur_ex>>
    /\ count' = IF at = 0 \/ found # {} THEN 0 ELSE count
    /\ UNCHANGED <<frames, idxs, pos, dist_, walked, lucky>>

\* SolveRandomBranch tries the constraints in any order until one is solved.
SolveRandomBranch ==
    /\ Within("random", "search") /\ count < Tries /\ count' = count + 1
    /\ \E i \in Constraints(ex) : ForceAt(ex, i)
    /\ UNCHANGED <<ex, cur_ex, frames, idxs, pos, dist_, walked, lucky>>

\* Mutated form: only a solved branch counts as an attempt.
SolveRandomBranchFailsUncounted ==
    /\ Within("random", "search") /\ count < Tries /\ ~CanSolve(ex) /\ Goto("search")
    /\ UNCHANGED loop

SolveRandomBranchFails ==
    /\ Within("random", "search") /\ count < Tries /\ count' = count + 1
    /\ ~CanSolve(ex) /\ Goto("search")
    /\ UNCHANGED <<ex, cur_ex, frames, idxs, pos, dist_, walked, lucky>>

RandomReset ==
    /\ Within("random", "search") /\ count = Tries /\ Goto("reset") /\ UNCHANGED loop

Random == RandomRan \/ SolveRandomBranch \/ SolveRandomBranchFails \/ RandomReset

-----------------------------------------------------------------------------
(* UniformRandomSearch: count is the depth *)

UniformLoop == pos \in Constraints(ex) /\ count < max_depth_

UniformStart ==
    /\ Within("uniform_random", "ran") /\ at = 0 /\ Goto("search")
    /\ pos' = 1 /\ count' = 0
    /\ UNCHANGED <<ex, cur_ex, frames, idxs, dist_, walked, lucky>>

\* The coin says to force the branch.
UniformForce ==
    /\ Within("uniform_random", "search") /\ UniformLoop /\ ForceAt(ex, pos)
    /\ count' = count + 1
    /\ UNCHANGED <<ex, cur_ex, frames, idxs, pos, dist_, walked, lucky>>

\* It cannot be forced, or the coin says not to.
UniformPass ==
    /\ Within("uniform_random", "search") /\ UniformLoop /\ Goto("search")
    /\ count' = IF Solutions(ex, pos) = {} THEN count ELSE count + 1
    /\ pos' = pos + 1
    /\ UNCHANGED <<ex, cur_ex, frames, idxs, dist_, walked, lucky>>

UniformRan ==
    /\ Within("uniform_random", "ran") /\ at > 0 /\ Goto("search")
    /\ IF Predicted THEN Swap /\ UNCHANGED count
                    ELSE count' = count - 1 /\ UNCHANGED <<ex, cur_ex>>
    /\ pos' = pos + 1
    /\ UNCHANGED <<frames, idxs, dist_, walked, lucky>>

UniformAgain ==
    /\ Within("uniform_random", "search") /\ ~UniformLoop /\ Goto("search")
    /\ pos' = 1 /\ count' = 0
    /\ UNCHANGED <<ex, cur_ex, frames, idxs, dist_, walked, lucky>>

Uniform == UniformStart \/ UniformForce \/ UniformPass \/ UniformRan \/ UniformAgain

-----------------------------------------------------------------------------
(* HybridSearch: count is the steps of the local search from pos on, and   *)
(* every step has a cur_ex of its own *)

HybridStart ==
    /\ Within("hybrid", "ran") /\ at = 0 /\ Goto("search")
    /\ pos' = 1 /\ count' = 0
    /\ UNCHANGED <<ex, cur_ex, frames, idxs, dist_, walked, lucky>>

StepRange == pos..Min({pos + StepSize - 1, Len(ex.constraints)})

\* RandomStep begins: assert(start < end).
BeginStep ==
    /\ Within("hybrid", "search") /\ count < LocalSteps
    /\ count = 0 => pos \in Constraints(ex)
    /\ Goto(IF StepRange # {} THEN "step" ELSE "abort")
    /\ idxs' = StepRange /\ count' = count + 1
    /\ UNCHANGED <<ex, cur_ex, frames, pos, dist_, walked, lucky>>

StepForce ==
    /\ Within("hybrid", "step")
    /\ \E i \in idxs : ForceAt(ex, i) /\ idxs' = idxs \ {i}
    /\ UNCHANGED <<ex, cur_ex, frames, count, pos, dist_, walked, lucky>>

StepUnsolvable ==
    /\ Within("hybrid", "step") /\ Goto("step")
    /\ \E i \in idxs : Solutions(ex, i) = {} /\ idxs' = idxs \ {i}
    /\ UNCHANGED <<ex, cur_ex, frames, count, pos, dist_, walked, lucky>>

TakeStep == ex' = cur_ex /\ cur_ex' = NoExecution

\* Mutated form: the step goes on from a run that left the predicted path.
HybridRanUnchecked ==
    /\ Within("hybrid", "ran") /\ at > 0 /\ Goto("search") /\ TakeStep
    /\ UNCHANGED <<frames, idxs, count, pos, dist_, walked, lucky>>

HybridRan ==
    /\ Within("hybrid", "ran") /\ at > 0
    /\ IF Predicted THEN Goto("search") /\ TakeStep
                    ELSE Goto("step") /\ UNCHANGED <<ex, cur_ex>>
    /\ UNCHANGED <<frames, idxs, count, pos, dist_, walked, lucky>>

\* The local search ends when a step fails or after LocalSteps of them.
NextLocalSearch ==
    /\ \/ Within("hybrid", "step") /\ idxs = {}
       \/ Within("hybrid", "search") /\ count = LocalSteps
    /\ Goto("search") /\ pos' = pos + StepSize /\ count' = 0
    /\ cur_ex' = NoExecution /\ UNCHANGED <<ex, frames, idxs, dist_, walked, lucky>>

HybridReset ==
    /\ Within("hybrid", "search") /\ count = 0 /\ pos \notin Constraints(ex)
    /\ Goto("reset") /\ UNCHANGED loop

Hybrid ==
    \/ HybridStart \/ BeginStep \/ StepForce \/ StepUnsolvable
    \/ HybridRan \/ NextLocalSearch \/ HybridReset

-----------------------------------------------------------------------------
(* DoSearch of CfgBaselineSearch and of CfgHeuristicSearch.  A direction   *)
(* leaves one constraint at most, so seen[bid] is always zero and no score *)
(* exceeds kInfiniteDistance.  Coverage and distances do not change before *)
(* DoSearch returns true, so the order can be chosen as it is needed.      *)

Score(i) ==
    LET bid == Paired(BranchAt(ex, i))
    IN IF strategy = "cfg" THEN dist_[bid] ELSE IF bid \in covered_ THEN 1 ELSE 0

IsNext(i) == i \in idxs /\ \A j \in idxs : Score(i) <= Score(j)

\* Every constraint stands on the path, as the scores assume.
Scorable(e) == \A i \in Constraints(e) : e.constraints_idx[i] \in DOMAIN e.branches

\* DoSearch is called on e, and has a new cur_ex.
DoSearch(e) ==
    /\ ex' = e /\ idxs' = Constraints(e) /\ count' = ScoredIters
    /\ frames' = <<>> /\ cur_ex' = NoExecution
    /\ walked' = NoExecution /\ lucky' = FALSE /\ UNCHANGED pos
    /\ Goto(IF Scorable(e) THEN "search" ELSE "undefined")

ScoredLoop(name) == Within(name, "search") /\ frames = <<>>

ScoredForce(name) ==
    /\ ScoredLoop(name) /\ count > 0 /\ count' = count - 1
    /\ \E i \in idxs : IsNext(i) /\ ForceAt(ex, i) /\ idxs' = idxs \ {i}
    /\ UNCHANGED <<ex, cur_ex, frames, pos, dist_, walked, lucky>>

ScoredUnsolvable(name) ==
    /\ ScoredLoop(name) /\ count > 0 /\ Goto("search")
    /\ \E i \in idxs : IsNext(i) /\ Solutions(ex, i) = {} /\ idxs' = idxs \ {i}
    /\ UNCHANGED <<ex, cur_ex, frames, count, pos, dist_, walked, lucky>>

\* DoSearch returns false.
ScoredReset(name) ==
    /\ ScoredLoop(name) /\ (count = 0 \/ idxs = {}) /\ Goto("reset")
    /\ cur_ex' = NoExecution
    /\ UNCHANGED <<ex, frames, idxs, count, pos, dist_, walked, lucky>>

Scored(name) == ScoredForce(name) \/ ScoredUnsolvable(name) \/ ScoredReset(name)

BaselineRan ==
    /\ Within("cfg_baseline", "ran") /\ UNCHANGED dist_
    /\ IF at = 0 \/ found # {} THEN DoSearch(Read)
       ELSE Goto("search") /\ UNCHANGED <<ex, cur_ex, frames, idxs, count, pos, walked, lucky>>

-----------------------------------------------------------------------------
(* CfgHeuristicSearch *)

UpdateBranchDistances ==
    dist_' = DistancesFrom(program, covered_, kInfiniteDistance)

CfgStart ==
    /\ Within("cfg", "ran") /\ at = 0 /\ DoSearch(ex)
    /\ IF found # {} THEN UpdateBranchDistances ELSE UNCHANGED dist_

\* DoSearch returns true, and e is success_ex_.
Succeed(e) == UpdateBranchDistances /\ DoSearch(e)

\* DoSearch goes on with its next branch.
Continue ==
    Goto("search") /\ UNCHANGED <<ex, cur_ex, frames, idxs, count, pos, dist_, walked, lucky>>

CfgForced == Within("cfg", "ran") /\ at > 0 /\ frames = <<>>

\* FindAlongCfg on a path without markers, where each branch has one follower.
FoundWithin(dist) ==
    LET b_idx == ex.constraints_idx[at]
    IN \E k \in b_idx..Min({b_idx + dist, Len(cur_ex.branches)}) : cur_ex.branches[k] \in found

ForcedDistance == dist_[Paired(BranchAt(ex, at))]

CfgSucceeds ==
    /\ CfgForced /\ found # {} /\ (Predicted => FoundWithin(ForcedDistance))
    /\ Succeed(cur_ex)

CfgMispredicts == CfgForced /\ found = {} /\ ~Predicted /\ Continue

\* A prediction was met and no branch was found near: what was found is luck,
\* and DoSearch asserts that luck has a distance above zero.  It calls
\* SolveAlongCfg on cur_ex.
CfgWalk ==
    /\ CfgForced /\ Predicted /\ ~FoundWithin(ForcedDistance)
    /\ IF ForcedDistance > 0
       THEN /\ frames' = <<Frame(cur_ex, ex.constraints_idx[at], ForcedDistance - 1)>>
            /\ walked' = cur_ex /\ lucky' = (found # {}) /\ cur_ex' = NoExecution
            /\ Goto("search") /\ UNCHANGED <<ex, idxs, count, pos, dist_>>
       ELSE IF found = {} THEN Continue
       ELSE Goto("abort") /\ UNCHANGED loop

(* SolveAlongCfg(pos, bound, ex).  Recorded paths hold no markers, so the  *)
(* one branch that follows is the next on the path, and a call makes one   *)
(* run at most, into a cur_ex of its own.                                  *)

Walking == Within("cfg", "search") /\ frames # <<>>
Following == Top.ex.branches[Top.pos + 1]
AtEnd == Top.pos = Len(Top.ex.branches)
Decremented == (Top.bound - 1) % UintSize       \* unsigned max_dist - 1

\* The constraint of the following branch, none if it is concrete.
FollowingConstraints ==
    {c \in Constraints(Top.ex) : Top.ex.constraints_idx[c] = Top.pos + 1}

MayWalkOn == ~Top.force /\ ~AtEnd /\ dist_[Following] <= Top.bound

\* The branch taken is near enough: walk on along the path.
WalkOn ==
    /\ Walking /\ MayWalkOn
    /\ frames' = Append(WithTop([Top EXCEPT !.force = TRUE]),
                        Frame(Top.ex, Top.pos + 1, Decremented))
    /\ Goto("search") /\ UNCHANGED <<ex, cur_ex, idxs, count, pos, dist_, walked, lucky>>

MayForce == ~MayWalkOn /\ ~AtEnd /\ dist_[Paired(Following)] <= Top.bound

WalkForce ==
    /\ Walking /\ MayForce
    /\ \E c \in FollowingConstraints : ForceAt(Top.ex, c)
    /\ UNCHANGED loop

\* The active call returns false; if it is the outermost, DoSearch succeeds
\* with a lucky execution or goes on.
Return ==
    IF Len(frames) = 1 /\ lucky THEN Succeed(walked)
    ELSE /\ frames' = Front(frames)
         /\ cur_ex' = IF Len(frames) = 1 THEN walked ELSE NoExecution
         /\ Goto("search") /\ UNCHANGED <<ex, idxs, count, pos, dist_, walked, lucky>>

WalkReturn ==
    /\ Walking /\ ~MayWalkOn
    /\ MayForce => \A c \in FollowingConstraints : Solutions(Top.ex, c) = {}
    /\ Return

\* Mutated form: the walk goes on although the run found a branch.
WalkRanIgnoresFound ==
    /\ Within("cfg", "ran") /\ at > 0 /\ frames # <<>>
    /\ IF ~Predicted THEN Return
       ELSE /\ frames' = WithTop(Frame(cur_ex, Top.pos + 1, Decremented))
            /\ cur_ex' = NoExecution
            /\ Goto("search") /\ UNCHANGED <<ex, idxs, count, pos, dist_, walked, lucky>>

\* A call that met its prediction returns what the call on the new execution
\* returns, so that one takes its place.
WalkRan ==
    /\ Within("cfg", "ran") /\ at > 0 /\ frames # <<>>
    /\ IF found # {} THEN Succeed(cur_ex)
       ELSE IF ~Predicted THEN Return
       ELSE /\ frames' = WithTop(Frame(cur_ex, Top.pos + 1, Decremented))
            /\ cur_ex' = NoExecution
            /\ Goto("search") /\ UNCHANGED <<ex, idxs, count, pos, dist_, walked, lucky>>

CfgHeuristic ==
    \/ CfgStart \/ Scored("cfg")
    \/ CfgSucceeds \/ CfgMispredicts \/ CfgWalk
    \/ WalkOn \/ WalkForce \/ WalkReturn \/ WalkRan

-----------------------------------------------------------------------------

Next ==
    \/ Reset \/ RunProgram \/ Exit
    \/ RandomInput \/ Dfs \/ Random \/ Uniform \/ Hybrid
    \/ Scored("cfg_baseline") \/ BaselineRan
    \/ CfgHeuristic

\* The driver is one thread that never waits, and a fair coin comes up heads
\* again and again.
Spec == Init /\ [][Next]_vars /\ WF_vars(Next) /\ SF_vars(UniformForce)

-----------------------------------------------------------------------------
(* Properties *)

\* Asserts that end the driver hold: a local search has a constraint left to
\* try (concolic_search.cc:1079) unless a conditional repeats in a run or some
\* file was cut in its branches, which leaves a new next_ex without constraints
\* although it meets the prediction; and a branch found by luck is not the
\* forced one (1371), whatever was cut.
AssertsHold ==
    pc = "abort" => strategy = "hybrid" /\ (~NonRepeating(program) \/ "tail" \in lost)

\* Where every constraint is recorded, every forced run takes the path up to
\* the branch and the other direction there (SolveAtBranch, CheckPrediction).
PredictionsHold ==
    pc = "ran" /\ at > 0 /\ lost = {} /\ NonRepeating(program) /\ Symbolic(program)
        => Predicted

\* When a depth-first pass ends, every branch some input can reach has been
\* covered, if the depth never cut it short and every branch is recorded.
DfsComplete ==
    (/\ strategy = "dfs" /\ pc = "search" /\ Len(frames) = 1
     /\ Top.pos > Len(Top.ex.constraints) /\ lost = {}
     /\ \A x \in Inputs : Len(program[x]) < max_depth_
     /\ NonRepeating(program) /\ Symbolic(program))
        => covered_ = Feasible(program)

\* SolveAlongCfg forces only branches nearer than the one it started from:
\* the unsigned max_dist - 1 does not wrap.  A walk that starts from a lucky
\* run is excepted: the distances are those before that run, and where it
\* covered the branch the walk forces, nothing new ends the walk at zero.
WalkBounded ==
    strategy = "cfg" /\ frames # <<>> /\ ~lucky
        => \A n \in DOMAIN frames : frames[n].bound < kInfiniteDistance

\* Nothing can be solved at the execution depth-first or uniform search holds.
Stuck ==
    /\ strategy \in {"dfs", "uniform_random"} /\ pc = "search"
    /\ ~CanSolve(ex)

\* Every strategy comes to its iteration cap, except when depth-first or
\* uniform search goes round for ever without a run, an assert fails or a cut
\* file makes DoSearch read beyond the path.
ReachesCap == <>(pc \in {"exit", "abort", "undefined"}) \/ <>[]Stuck
=============================================================================
