------------------------------ MODULE CflPath ------------------------------
(***************************************************************************)
(* The path an instrumented focus process records (SymbolicInterpreter's   *)
(* Call, Return and Branch over SymbolicPath's two Push methods) and the   *)
(* functions CfgHeuristicSearch reads it with: the branches that follow a  *)
(* branch in the control-flow graph and the least number of branches       *)
(* between two of them, both written for paths that hold a marker at every *)
(* call and return.  A recursive method is a recursive function of the     *)
(* position, a loop a function of the entries it has read.                 *)
(***************************************************************************)
EXTENDS Integers, Sequences, FiniteSets, SequencesExt

CONSTANTS
    Bids,       \* branch ids of the program under test
    MaxLen      \* bound: events of one run

ASSUME PathAssumption == Bids \subseteq Nat /\ MaxLen \in Nat

kCallId == -1
kReturnId == -2
Infinity == MaxLen + 1          \* numeric_limits<size_t>::max()

VARIABLES
    trace,              \* what the program did: branches, calls and returns
    branches_,
    branchesSet_,
    constraints_idx_,   \* positions in branches_ of the constraints kept
    branchesHash        \* directions that already hold a constraint

path_vars == <<trace, branches_, branchesSet_, constraints_idx_, branchesHash>>

-----------------------------------------------------------------------------
(* Recording *)

PathInit ==
    /\ trace = <<>>
    /\ branches_ = <<>> /\ branchesSet_ = {}
    /\ constraints_idx_ = <<>> /\ branchesHash = {}

Occurrences(id) == {k \in DOMAIN trace : trace[k] = id}
Depth == Cardinality(Occurrences(kCallId)) - Cardinality(Occurrences(kReturnId))

\* SymbolicPath::Push(bid), the method Call and Return reach.
PushMarker(id) ==
    /\ branchesSet_' = branchesSet_ \cup {id}
    /\ UNCHANGED <<branches_, constraints_idx_, branchesHash>>

\* SymbolicPath::Push(bid, constraint, state).  A branch id stands for one
\* direction of one conditional, so its state never differs between pushes.
PushBranch(bid, symbolic) ==
    /\ IF symbolic /\ bid \notin branchesHash
       THEN /\ branchesHash' = branchesHash \cup {bid}
            /\ constraints_idx_' = Append(constraints_idx_, Len(branches_) + 1)
       ELSE UNCHANGED <<branchesHash, constraints_idx_>>
    /\ branches_' = Append(branches_, bid)
    /\ UNCHANGED branchesSet_

Record(id) == Len(trace) < MaxLen /\ trace' = Append(trace, id)

RecordCall == Record(kCallId) /\ PushMarker(kCallId)
RecordReturn == Depth > 0 /\ Record(kReturnId) /\ PushMarker(kReturnId)

\* The predicate register decides whether the branch carries a constraint.
RecordBranch(bid, symbolic) == Record(bid) /\ PushBranch(bid, symbolic)

PathNext ==
    \/ RecordCall
    \/ RecordReturn
    \/ \E bid \in Bids, symbolic \in BOOLEAN : RecordBranch(bid, symbolic)

PathSpec == PathInit /\ [][PathNext]_path_vars

-----------------------------------------------------------------------------
(* Reading.  Positions count from 1; a position past the end is Len + 1.   *)

\* Mutated form: a nested call's return ends the skipping.
SkipUntilAnyReturn(path, pos) ==
    LET skip[p \in 1..(Len(path) + 1)] ==
          IF p > Len(path) \/ path[p] = kReturnId THEN p ELSE skip[p + 1]
    IN skip[pos]

\* The position of the return that ends the current call, or the path's end.
SkipUntilReturn(path, pos) ==
    LET skip[p \in 1..(Len(path) + 1)] ==
          IF p > Len(path) \/ path[p] = kReturnId THEN p
          ELSE IF path[p] = kCallId
          THEN LET end == skip[p + 1]
               IN IF end > Len(path) THEN end ELSE skip[end + 1]
          ELSE skip[p + 1]
    IN skip[pos]

\* The positions collected from pos on, and the position reached.
CollectNextBranches(path, pos) ==
    LET collect[p \in 1..(Len(path) + 1)] ==
          IF p > Len(path) \/ path[p] = kReturnId
          THEN [pos |-> p, idxs |-> {}]
          ELSE IF path[p] # kCallId THEN [pos |-> p + 1, idxs |-> {p}]
          ELSE LET inside == collect[p + 1]
                   end == SkipUntilReturn(path, inside.pos)
               IN IF end > Len(path) THEN [pos |-> end, idxs |-> inside.idxs]
                  ELSE [pos |-> collect[end + 1].pos,
                        idxs |-> inside.idxs \cup collect[end + 1].idxs]
    IN collect[pos]

NextBranches(path, i) == CollectNextBranches(path, i + 1).idxs

\* find[d]: the positions from which the recursion to depth d succeeds.
FindAlongCfg(path, i, dist, bs) ==
    LET found == {j \in i..Len(path) : path[j] \in bs}
        find[d \in 0..dist] ==
          IF d = 0 THEN found
          ELSE LET nearer == find[d - 1]
               IN found \cup {j \in i..Len(path) :
                                NextBranches(path, j) \cap nearer # {}}
    IN i \in find[dist]

\* Mutated form: a return leaves the distance where the callee left it.
MinStepFlat(at, id, bs) ==
    IF at.over THEN at
    ELSE IF id = kCallId
    THEN [at EXCEPT !.stack = Append(at.stack, at.cur_dist)]
    ELSE IF id = kReturnId
    THEN IF at.stack = <<>> THEN [at EXCEPT !.over = TRUE]
         ELSE [at EXCEPT !.stack = Front(at.stack)]
    ELSE [at EXCEPT !.cur_dist = @ + 1,
                    !.min_dist = IF id \in bs THEN Min({@, at.cur_dist}) ELSE @]

\* MinCflDistance's loop body: a call saves the distance its return brings
\* back, and the return of the function searched ends the loop.
MinStep(at, id, bs) ==
    IF at.over THEN at
    ELSE IF id = kCallId
    THEN [at EXCEPT !.stack = Append(at.stack, at.cur_dist)]
    ELSE IF id = kReturnId
    THEN IF at.stack = <<>> THEN [at EXCEPT !.over = TRUE]
         ELSE [at EXCEPT !.cur_dist = Last(at.stack), !.stack = Front(at.stack)]
    ELSE [at EXCEPT !.cur_dist = @ + 1,
                    !.min_dist = IF id \in bs THEN Min({@, at.cur_dist}) ELSE @]

MinCflDistance(path, i, bs) ==
    LET loop[j \in i..Len(path)] ==
          IF j = i THEN [cur_dist |-> 1, stack |-> <<>>,
                         min_dist |-> Infinity, over |-> FALSE]
          ELSE MinStep(loop[j - 1], path[j], bs)
    IN IF path[i] \in bs THEN 0 ELSE loop[Len(path)].min_dist

-----------------------------------------------------------------------------
(* Properties *)

BranchPositions(path) == {k \in DOMAIN path : path[k] \in Bids}

\* Calls still open after the stretch lo..hi, negative if it leaves its caller.
Open(path, lo, hi) ==
    Cardinality({k \in lo..hi : path[k] = kCallId})
    - Cardinality({k \in lo..hi : path[k] = kReturnId})

IsCompleteCall(path, lo, hi) ==
    /\ path[lo] = kCallId /\ Open(path, lo, hi) = 0
    /\ \A k \in lo..(hi - 1) : Open(path, lo, k) > 0

\* Branch j can be the next one after branch i when whole calls may run
\* without meeting a branch that counts: the run stays in i's function, and
\* every branch in between is inside a call that has ended.
Follows(path, i, j) ==
    /\ \A k \in (i + 1)..j : Open(path, i + 1, k) >= 0
    /\ \A k \in BranchPositions(path) \cap ((i + 1)..(j - 1)) :
        \E lo \in (i + 1)..(k - 1), hi \in (k + 1)..(j - 1) :
            IsCompleteCall(path, lo, hi)

Followers(path, i) ==
    {j \in BranchPositions(path) : j > i /\ Follows(path, i, j)}

\* On the run as it happened, CollectNextBranches gives exactly the branches
\* its comment documents (concolic_search.cc:1518-1522).
CollectedAsDocumented ==
    \A i \in BranchPositions(trace) :
        NextBranches(trace, i) = Followers(trace, i)

\* The two ways to measure how far an uncovered branch is agree: DoSearch
\* asserts it both ways (concolic_search.cc:1358 and 1370).
FindAgreesWithMin ==
    \A path \in {trace, branches_}, bs \in (SUBSET Bids) \ {{}} :
        \A i \in BranchPositions(path), dist \in 0..MaxLen :
            FindAlongCfg(path, i, dist, bs)
                <=> MinCflDistance(path, i, bs) <= dist

\* The position in branches_ of the branch at position k of the run.
Recorded(k) == Cardinality(BranchPositions(SubSeq(trace, 1, k)))

\* On the path the search is given, the branches that follow a branch are
\* those the comment documents (concolic_search.cc:1518-1522, 1550-1554).
NextBranchesDocumented ==
    \A i \in BranchPositions(trace) :
        NextBranches(branches_, Recorded(i))
            = {Recorded(j) : j \in Followers(trace, i)}
=============================================================================
