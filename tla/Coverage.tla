------------------------------ MODULE Coverage ------------------------------
(***************************************************************************)
(* Coverage accounting of run_crest (class Search, concolic_search.cc):    *)
(* the covered / reached / total counters, the "coverage" file a session   *)
(* rewrites whenever it found a new branch, and the sessions that start    *)
(* from the file an earlier session left.                                  *)
(*                                                                         *)
(* A program run is abstracted to what UpdateCoverage sees of it: the set  *)
(* of ids on the paths it parsed, of the focus and of every other rank.    *)
(* A path holds branch ids only: Push(bid) puts the call and return        *)
(* markers of the focus into branchesSet_, which the focus does not write. *)
(***************************************************************************)
EXTENDS Integers, FiniteSets

CONSTANTS
    Branches,         \* ids listed in the "branches" file
    MaxBranch,        \* max_branch_ - 1: the largest id of that file
    branch_function_, \* function index of every id below max_branch_
    ResetsCovered,    \* the strategy is CfgHeuristicSearch
    KillPoints,       \* phases in which the driver may be killed
    MaxIters,         \* num_of_tests
    MaxSessions       \* bound: run_crest invocations in one directory

BranchIds == 1..MaxBranch

ASSUME BranchesAssumption ==
    /\ MaxBranch \in Nat
    /\ Branches \subseteq BranchIds
    /\ branch_function_ \in [BranchIds -> Nat]
    /\ ResetsCovered \in BOOLEAN
    /\ MaxIters \in Nat /\ MaxSessions \in Nat

Functions == {branch_function_[b] : b \in BranchIds}
BranchesOf(F) == {b \in Branches : branch_function_[b] \in F}

Phases == {"down", "search", "running", "opening", "writing"}

VARIABLES
    phase,               \* where the driver is; "down": no driver process
    sessions,            \* sessions started so far
    num_iters_,
    covered_, num_covered_,
    total_covered_, total_num_covered_,
    reached_, reachable_functions_, reachable_branches_,
    file,                \* the "coverage" file: the ids and how many lines
    executed,            \* history: ids UpdateCoverage ever found on a path
    torn                 \* history: a kill cut a write of the file

counters == <<num_covered_, total_num_covered_, reachable_functions_,
              reachable_branches_>>
memory == <<covered_, total_covered_, reached_, counters>>
vars == <<phase, sessions, num_iters_, memory, file, executed, torn>>

EmptyFile == [ids |-> {}, lines |-> 0]

\* The number a cut line reads back as: an id without its last digits.
CutIds(b) == {b \div 10, b \div 100, b \div 1000} \ {0}

\* What a kill inside WriteCoverageToFileOrDie leaves: the lines of the ids
\* below some point, the one at that point cut short or missing.
PartialFiles(S) ==
    UNION {LET done == {b \in S : b < next} IN
           {[ids |-> done, lines |-> Cardinality(done)]} \cup
           {[ids |-> done \cup {c}, lines |-> Cardinality(done) + 1] :
                c \in CutIds(next)}
           : next \in S}

Init ==
    /\ phase = "down" /\ sessions = 0 /\ num_iters_ = 0
    /\ covered_ = {} /\ total_covered_ = {} /\ reached_ = {}
    /\ num_covered_ = 0 /\ total_num_covered_ = 0
    /\ reachable_functions_ = 0 /\ reachable_branches_ = 0
    /\ file = EmptyFile /\ executed = {} /\ torn = FALSE

-----------------------------------------------------------------------------
(* A session: Search::Search reads the file; every run ends in an update.  *)

\* Search::Search: one num_covered_ per line of "coverage", the rest per id.
Search ==
    /\ phase = "down" /\ sessions < MaxSessions
    /\ LET ids == file.ids
           fns == {branch_function_[b] : b \in ids}
       IN /\ covered_' = ids /\ total_covered_' = ids
          /\ num_covered_' = file.lines /\ total_num_covered_' = file.lines
          /\ reached_' = fns
          /\ reachable_functions_' = Cardinality(fns)
          /\ reachable_branches_' = Cardinality(BranchesOf(fns))
    /\ phase' = "search" /\ sessions' = sessions + 1 /\ num_iters_' = 0
    /\ UNCHANGED <<file, executed, torn>>

\* RunProgram up to the launch; exit(0) once the iterations are used up.
\* CfgHeuristicSearch::Run forgets covered_ first, but keeps num_covered_.
RunProgram(reset) ==
    /\ phase = "search"
    /\ covered_' = IF reset THEN {} ELSE covered_
    /\ num_iters_' = num_iters_ + 1
    /\ phase' = IF num_iters_ + 1 > MaxIters THEN "down" ELSE "running"
    /\ UNCHANGED <<sessions, num_covered_, total_covered_, total_num_covered_,
                   reached_, reachable_functions_, reachable_branches_,
                   file, executed, torn>>

\* The ids of a path UpdateCoverage looks at.
Positive(path) == {b \in path : b > 0}

\* Mutated form: total_covered_ is updated under the test of covered_.
UpdateCoverageOneTest(path) ==
    /\ phase = "running"
    /\ LET seen == Positive(path)
           new == seen \ covered_
           fns == {branch_function_[b] : b \in new} \ reached_
       IN /\ covered_' = covered_ \cup new
          /\ num_covered_' = num_covered_ + Cardinality(new)
          /\ total_covered_' = total_covered_ \cup new
          /\ total_num_covered_' = total_num_covered_ + Cardinality(new)
          /\ reached_' = reached_ \cup fns
          /\ reachable_functions_' = reachable_functions_ + Cardinality(fns)
          /\ reachable_branches_' =
                reachable_branches_ + Cardinality(BranchesOf(fns))
          /\ phase' = IF num_covered_' > num_covered_
                      THEN "opening" ELSE "search"
          /\ executed' = executed \cup seen
    /\ UNCHANGED <<sessions, num_iters_, file, torn>>

\* UpdateCoverage over all parsed paths, up to its write of the file.
UpdateCoverage(path) ==
    /\ phase = "running"
    /\ LET seen == Positive(path)
           new == seen \ covered_
           fns == {branch_function_[b] : b \in new} \ reached_
       IN /\ covered_' = covered_ \cup new
          /\ num_covered_' = num_covered_ + Cardinality(new)
          /\ total_covered_' = total_covered_ \cup seen
          /\ total_num_covered_' =
                total_num_covered_ + Cardinality(seen \ total_covered_)
          /\ reached_' = reached_ \cup fns
          /\ reachable_functions_' = reachable_functions_ + Cardinality(fns)
          /\ reachable_branches_' =
                reachable_branches_ + Cardinality(BranchesOf(fns))
          /\ phase' = IF num_covered_' > num_covered_
                      THEN "opening" ELSE "search"
          /\ executed' = executed \cup seen
    /\ UNCHANGED <<sessions, num_iters_, file, torn>>

\* WriteCoverageToFileOrDie: fopen "w" truncates, or fails and exits.
OpenFile ==
    /\ phase = "opening"
    /\ phase' = "writing" /\ file' = EmptyFile
    /\ UNCHANGED <<sessions, num_iters_, memory, executed, torn>>

OpenFails ==
    /\ phase = "opening" /\ "opening" \in KillPoints
    /\ phase' = "down"
    /\ UNCHANGED <<sessions, num_iters_, memory, file, executed, torn>>

\* Mutated form: the file gets this session's covered_, not the total.
CloseFileOfSession ==
    /\ phase = "writing"
    /\ LET ids == {b \in Branches : b \in covered_}
       IN file' = [ids |-> ids, lines |-> Cardinality(ids)]
    /\ phase' = "search"
    /\ UNCHANGED <<sessions, num_iters_, memory, executed, torn>>

\* Mutated form: every branch is written.
CloseFileEveryBranch ==
    /\ phase = "writing"
    /\ file' = [ids |-> Branches, lines |-> Cardinality(Branches)]
    /\ phase' = "search"
    /\ UNCHANGED <<sessions, num_iters_, memory, executed, torn>>

\* The loop over branches_ and fclose.
CloseFile ==
    /\ phase = "writing"
    /\ LET ids == {b \in Branches : b \in total_covered_}
       IN file' = [ids |-> ids, lines |-> Cardinality(ids)]
    /\ phase' = "search"
    /\ UNCHANGED <<sessions, num_iters_, memory, executed, torn>>

\* The driver is killed; inside the write, part of the file is on disk.
Kill ==
    /\ phase \in KillPoints \ {"down", "writing"}
    /\ phase' = "down"
    /\ UNCHANGED <<sessions, num_iters_, memory, file, executed, torn>>

KillWriting ==
    /\ phase = "writing" /\ "writing" \in KillPoints
    /\ phase' = "down" /\ torn' = TRUE
    /\ file' \in PartialFiles(total_covered_ \cap Branches)
    /\ UNCHANGED <<sessions, num_iters_, memory, executed>>

-----------------------------------------------------------------------------
Next ==
    \/ Search
    \/ \E reset \in {FALSE, ResetsCovered} :
          /\ (ResetsCovered /\ num_iters_ = 0) => reset
          /\ RunProgram(reset)
    \/ \E path \in SUBSET Branches : UpdateCoverage(path)
    \/ OpenFile \/ OpenFails \/ CloseFile
    \/ Kill \/ KillWriting

Spec == Init /\ [][Next]_vars

-----------------------------------------------------------------------------
(* Properties.                                                             *)

\* Every variable has its type.
TypeOK ==
    /\ phase \in Phases /\ torn \in BOOLEAN
    /\ sessions \in Nat /\ num_iters_ \in Nat
    /\ covered_ \subseteq BranchIds /\ total_covered_ \subseteq BranchIds
    /\ reached_ \subseteq Functions /\ executed \subseteq Branches
    /\ num_covered_ \in Nat /\ total_num_covered_ \in Nat
    /\ reachable_functions_ \in Nat /\ reachable_branches_ \in Nat
    /\ file \in [ids : SUBSET BranchIds, lines : Nat]

\* Whenever no update is under way the file holds the branches of
\* total_covered_, even after a session that started from a torn file.
FileCurrent ==
    phase \in {"search", "running"} =>
        file.ids \cap Branches = total_covered_ \cap Branches

\* The counters UpdateCoverage prints are the sizes of the sets they count,
\* as long as no write of the file was cut short: the reset of covered_ by
\* CfgHeuristicSearch and the start from a file must not count twice.
CountersExact ==
    ~torn => /\ total_num_covered_ = Cardinality(total_covered_)
             /\ file.lines = Cardinality(file.ids)
             /\ Cardinality(covered_) <= num_covered_

\* "covered %u branches" never under-reports, torn file or not.
NeverUnderReports == total_num_covered_ >= Cardinality(total_covered_)

\* reached_ is the functions of the total coverage and the two counters
\* follow it, across resets and sessions: a function once reached is not
\* counted again when covered_ was forgotten.
ReachedIsCovered ==
    phase # "down" =>
        /\ reached_ = {branch_function_[b] : b \in total_covered_}
        /\ reachable_functions_ = Cardinality(reached_)
        /\ reachable_branches_ = Cardinality(BranchesOf(reached_))

\* Coverage is real: without a torn file nothing is reported or persisted
\* that no execution had.
CoverageIsReal ==
    ~torn => total_covered_ \subseteq executed /\ file.ids \subseteq executed

\* Sessions implement CoverageLedger wherever they are killed: a new branch is
\* saved before the next run's coverage is recorded.  The file counts as saved
\* once it is opened for the write; a kill inside is the ledger's damage.
\* Ids that are no branch, which only a cut line can leave, do not count.
Saved == Branches \cap (IF phase = "writing" THEN total_covered_ ELSE file.ids)
Known == IF phase = "down" THEN Saved ELSE Branches \cap total_covered_

Ledger == INSTANCE CoverageLedger WITH known <- Known, saved <- Saved

LedgerSpec == Ledger!Spec

=============================================================================
