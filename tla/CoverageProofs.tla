--------------------------- MODULE CoverageProofs ---------------------------
(***************************************************************************)
(* Proofs about Coverage: type correctness, the invariants of the coverage *)
(* accounting, and that the persisted coverage implements CoverageLedger.  *)
(***************************************************************************)
EXTENDS Coverage, FiniteSetTheorems, TLAPS

-----------------------------------------------------------------------------
(* Finite sets the counters count.                                         *)

LEMMA FiniteIds ==
    ASSUME NEW S, S \subseteq BranchIds
    PROVE  IsFiniteSet(S) /\ Cardinality(S) \in Nat
<1>1. IsFiniteSet(BranchIds)
  BY FS_Interval, BranchesAssumption DEF BranchIds
<1> QED  BY <1>1, FS_Subset, FS_CardinalityType

LEMMA FiniteFunctions ==
    ASSUME NEW F, F \subseteq Functions
    PROVE  IsFiniteSet(F) /\ Cardinality(F) \in Nat
<1>1. branch_function_ \in Surjection(BranchIds, Functions)
  BY BranchesAssumption DEF Functions, Surjection
<1>2. IsFiniteSet(BranchIds)
  BY FiniteIds
<1>3. IsFiniteSet(Functions)
  BY <1>1, <1>2, FS_Surjection
<1> QED  BY <1>3, FS_Subset, FS_CardinalityType

\* Adding what is new to a finite set adds its size to the count.
LEMMA CountNew ==
    ASSUME NEW S, NEW T, IsFiniteSet(S), IsFiniteSet(T)
    PROVE  /\ S \cup (T \ S) = S \cup T
           /\ Cardinality(S \cup T) = Cardinality(S) + Cardinality(T \ S)
<1>1. IsFiniteSet(T \ S)
  BY FS_Subset
<1>2. S \cap (T \ S) = {} /\ S \cup (T \ S) = S \cup T
  OBVIOUS
<1>3. Cardinality(S) \in Nat /\ Cardinality(T \ S) \in Nat
  BY <1>1, FS_CardinalityType
<1> QED  BY <1>1, <1>2, <1>3, FS_Union, FS_EmptySet

\* The branches of disjoint sets of functions are counted separately.
LEMMA CountBranchesOf ==
    ASSUME NEW F, NEW G, F \cap G = {}
    PROVE  /\ Cardinality(BranchesOf(F)) \in Nat
           /\ Cardinality(BranchesOf(F \cup G)) =
                Cardinality(BranchesOf(F)) + Cardinality(BranchesOf(G))
<1>1. BranchesOf(F) \subseteq BranchIds /\ BranchesOf(G) \subseteq BranchIds
  BY BranchesAssumption DEF BranchesOf
<1>2. /\ BranchesOf(F \cup G) = BranchesOf(F) \cup BranchesOf(G)
      /\ BranchesOf(F) \cap BranchesOf(G) = {}
  BY DEF BranchesOf
<1>3. /\ IsFiniteSet(BranchesOf(F)) /\ IsFiniteSet(BranchesOf(G))
      /\ Cardinality(BranchesOf(F)) \in Nat
      /\ Cardinality(BranchesOf(G)) \in Nat
  BY <1>1, FiniteIds
<1>4. Cardinality(BranchesOf(F) \cup BranchesOf(G)) =
         Cardinality(BranchesOf(F)) + Cardinality(BranchesOf(G))
            - Cardinality(BranchesOf(F) \cap BranchesOf(G))
  BY <1>3, FS_Union
<1>5. Cardinality(BranchesOf(F) \cap BranchesOf(G)) = 0
  BY <1>2, FS_EmptySet
<1>6. Cardinality(BranchesOf(F \cup G)) =
         Cardinality(BranchesOf(F) \cup BranchesOf(G))
  BY <1>2
<1> HIDE DEF BranchesOf
<1> QED  BY <1>3, <1>4, <1>5, <1>6

\* A cut number is smaller than the id it was cut from.
LEMMA CutIdsAreIds ==
    ASSUME NEW b \in BranchIds
    PROVE  CutIds(b) \subseteq BranchIds
BY BranchesAssumption DEF CutIds, BranchIds

LEMMA PartialFileType ==
    ASSUME NEW S, S \subseteq BranchIds, NEW f \in PartialFiles(S)
    PROVE  /\ f \in [ids : SUBSET BranchIds, lines : Nat]
           /\ Cardinality(f.ids) <= f.lines
<1>1. PICK next \in S :
         LET done == {b \in S : b < next} IN
         \/ f = [ids |-> done, lines |-> Cardinality(done)]
         \/ \E c \in CutIds(next) :
               f = [ids |-> done \cup {c}, lines |-> Cardinality(done) + 1]
  BY DEF PartialFiles
<1> DEFINE done == {b \in S : b < next}
<1>2. done \subseteq BranchIds /\ IsFiniteSet(done) /\ Cardinality(done) \in Nat
  BY FiniteIds
<1>3. CASE f = [ids |-> done, lines |-> Cardinality(done)]
  BY <1>2, <1>3
<1>4. ASSUME NEW c \in CutIds(next),
             f = [ids |-> done \cup {c}, lines |-> Cardinality(done) + 1]
      PROVE  /\ f \in [ids : SUBSET BranchIds, lines : Nat]
             /\ Cardinality(f.ids) <= f.lines
  <2>1. c \in BranchIds
    BY CutIdsAreIds
  <2>2. Cardinality(done \cup {c}) <= Cardinality(done) + 1
    BY <1>2, FS_AddElement
  <2> QED  BY <1>2, <1>4, <2>1, <2>2
<1> QED  BY <1>1, <1>3, <1>4

-----------------------------------------------------------------------------
(* The inductive invariant.                                                *)

\* The file never has fewer lines than ids, and no session reports fewer
\* branches than it covered.
LinesEnough ==
    /\ Cardinality(file.ids) <= file.lines
    /\ NeverUnderReports

\* UpdateCoverage tests covered_ and total_covered_ separately, and writes the
\* file when the former grows.
CoveredWithinTotal == covered_ \subseteq total_covered_

IInv ==
    /\ TypeOK /\ CoveredWithinTotal /\ FileCurrent
    /\ LinesEnough /\ ReachedIsCovered

LEMMA InitIInv == Init => IInv
<1> SUFFICES ASSUME Init PROVE IInv
  OBVIOUS
<1>1. Cardinality({}) = 0
  BY FS_EmptySet
<1>2. TypeOK
  BY DEF Init, TypeOK, Phases, EmptyFile
<1>3. LinesEnough
  BY <1>1 DEF Init, LinesEnough, NeverUnderReports, EmptyFile
<1>4. CoveredWithinTotal /\ FileCurrent /\ ReachedIsCovered
  BY DEF Init, CoveredWithinTotal, FileCurrent, ReachedIsCovered
<1> QED  BY <1>2, <1>3, <1>4 DEF IInv

LEMMA SearchIInv == TypeOK /\ LinesEnough /\ Search => IInv'
<1> SUFFICES ASSUME TypeOK, LinesEnough, Search PROVE IInv'
  OBVIOUS
<1> DEFINE fns == {branch_function_[b] : b \in file.ids}
<1>1. file.ids \subseteq BranchIds /\ fns \subseteq Functions
  BY DEF TypeOK, Functions
<1>2. Cardinality(fns) \in Nat
  BY <1>1, FiniteFunctions
<1>3. BranchesOf(fns) \subseteq BranchIds
  BY BranchesAssumption DEF BranchesOf
<1>4. Cardinality(BranchesOf(fns)) \in Nat
  BY <1>3, FiniteIds
<1>5. TypeOK'
  BY <1>1, <1>2, <1>4 DEF Search, TypeOK, Phases
<1>6. ReachedIsCovered'
  BY DEF Search, ReachedIsCovered
<1>7. CoveredWithinTotal' /\ FileCurrent' /\ LinesEnough'
  BY DEF Search, CoveredWithinTotal, FileCurrent, LinesEnough,
     NeverUnderReports
<1> QED  BY <1>5, <1>6, <1>7 DEF IInv

\* What one update does, read off the code's counters.
LEMMA UpdateFacts ==
    ASSUME TypeOK, CoveredWithinTotal, ReachedIsCovered,
           NEW path \in SUBSET Branches, UpdateCoverage(path)
    PROVE  /\ Positive(path) \subseteq Branches
           /\ Positive(path) \subseteq BranchIds
           /\ total_covered_' = total_covered_ \cup Positive(path)
           /\ covered_' = covered_ \cup Positive(path)
           /\ total_num_covered_' - total_num_covered_ =
                Cardinality(total_covered_') - Cardinality(total_covered_)
           /\ num_covered_' - num_covered_ =
                Cardinality(covered_') - Cardinality(covered_)
           /\ num_covered_' \in Nat /\ total_num_covered_' \in Nat
           /\ num_covered_' > num_covered_ <=> covered_' # covered_
<1> DEFINE seen == Positive(path)
<1>1. seen \subseteq Branches /\ seen \subseteq BranchIds
  BY BranchesAssumption DEF Positive
<1>2. /\ IsFiniteSet(seen) /\ IsFiniteSet(covered_)
      /\ IsFiniteSet(total_covered_)
      /\ seen \ covered_ \subseteq BranchIds
      /\ seen \ total_covered_ \subseteq BranchIds
  BY <1>1, FiniteIds DEF TypeOK
<1>3. /\ Cardinality(seen \ covered_) \in Nat
      /\ Cardinality(seen \ total_covered_) \in Nat
      /\ Cardinality(covered_) \in Nat /\ Cardinality(total_covered_) \in Nat
      /\ IsFiniteSet(seen \ covered_)
  BY <1>2, FiniteIds DEF TypeOK
<1>4. /\ covered_' = covered_ \cup (seen \ covered_)
      /\ num_covered_' = num_covered_ + Cardinality(seen \ covered_)
      /\ total_covered_' = total_covered_ \cup seen
      /\ total_num_covered_' =
            total_num_covered_ + Cardinality(seen \ total_covered_)
  BY DEF UpdateCoverage
<1>5. covered_' = covered_ \cup seen
  BY <1>4
<1>6. Cardinality(covered_ \cup seen) =
         Cardinality(covered_) + Cardinality(seen \ covered_)
  BY <1>2, CountNew
<1>7. Cardinality(total_covered_ \cup seen) =
         Cardinality(total_covered_) + Cardinality(seen \ total_covered_)
  BY <1>2, CountNew
<1>8. num_covered_ \in Nat /\ total_num_covered_ \in Nat
  BY DEF TypeOK
<1>9. Cardinality(seen \ covered_) = 0 <=> seen \ covered_ = {}
  BY <1>3, FS_EmptySet
<1>10. covered_' # covered_ <=> seen \ covered_ # {}
  BY <1>5
<1>11. num_covered_' > num_covered_ <=> covered_' # covered_
  BY <1>3, <1>4, <1>8, <1>9, <1>10
<1>12. total_num_covered_' - total_num_covered_ =
          Cardinality(total_covered_') - Cardinality(total_covered_)
  <2> DEFINE c == Cardinality(seen \ total_covered_)
             t == Cardinality(total_covered_)
  <2>1. /\ total_num_covered_' = total_num_covered_ + c
        /\ Cardinality(total_covered_') = t + c
    BY <1>4, <1>7
  <2>2. c \in Nat /\ t \in Nat /\ total_num_covered_ \in Nat
    BY <1>3, <1>8
  <2> QED  BY <2>1, <2>2
<1>13. num_covered_' - num_covered_ =
          Cardinality(covered_') - Cardinality(covered_)
  <2> DEFINE c == Cardinality(seen \ covered_)
             t == Cardinality(covered_)
  <2>1. num_covered_' = num_covered_ + c /\ Cardinality(covered_') = t + c
    BY <1>4, <1>5, <1>6
  <2>2. c \in Nat /\ t \in Nat /\ num_covered_ \in Nat
    BY <1>3, <1>8
  <2> QED  BY <2>1, <2>2
<1> QED  BY <1>1, <1>3, <1>4, <1>5, <1>8, <1>11, <1>12, <1>13

LEMMA UpdateReached ==
    ASSUME TypeOK, CoveredWithinTotal, ReachedIsCovered,
           NEW path \in SUBSET Branches, UpdateCoverage(path)
    PROVE  ReachedIsCovered' /\ reached_' \subseteq Functions
           /\ reachable_functions_' \in Nat /\ reachable_branches_' \in Nat
<1> DEFINE seen == Positive(path)
           new == seen \ covered_
           fns == {branch_function_[b] : b \in new} \ reached_
<1>1. seen \subseteq BranchIds
  BY UpdateFacts
<1>2. reached_ = {branch_function_[b] : b \in total_covered_}
      /\ reachable_functions_ = Cardinality(reached_)
      /\ reachable_branches_ = Cardinality(BranchesOf(reached_))
  BY DEF ReachedIsCovered, UpdateCoverage
<1>3. /\ reached_' = reached_ \cup fns
      /\ reachable_functions_' = reachable_functions_ + Cardinality(fns)
      /\ reachable_branches_' =
            reachable_branches_ + Cardinality(BranchesOf(fns))
      /\ total_covered_' = total_covered_ \cup seen
  BY DEF UpdateCoverage
<1>4. reached_' = {branch_function_[b] : b \in total_covered_ \cup seen}
  BY <1>2, <1>3 DEF CoveredWithinTotal
<1>5. fns \subseteq Functions /\ reached_ \subseteq Functions
  BY <1>1 DEF Functions, TypeOK
<1>6. IsFiniteSet(fns) /\ IsFiniteSet(reached_)
  BY <1>5, FiniteFunctions
<1>7. reached_ \cap fns = {}
  OBVIOUS
<1>8. Cardinality(reached_ \cup fns) = Cardinality(reached_) + Cardinality(fns)
  <2>1. fns \ reached_ = fns
    OBVIOUS
  <2> HIDE DEF fns
  <2> QED  BY <1>6, <2>1, CountNew
<1>9. Cardinality(BranchesOf(reached_ \cup fns)) =
         Cardinality(BranchesOf(reached_)) + Cardinality(BranchesOf(fns))
  BY <1>7, CountBranchesOf
<1>10. Cardinality(fns) \in Nat
  BY <1>5, FiniteFunctions
<1>11. fns \cap reached_ = {}
  OBVIOUS
<1>12. Cardinality(BranchesOf(fns)) \in Nat
  BY <1>11, CountBranchesOf
<1>13. reached_' = {branch_function_[b] : b \in total_covered_'}
  BY <1>3, <1>4
<1>14. /\ reachable_functions_' = Cardinality(reached_')
       /\ reachable_branches_' = Cardinality(BranchesOf(reached_'))
  BY <1>2, <1>3, <1>8, <1>9
<1>15. ReachedIsCovered'
  BY <1>13, <1>14 DEF ReachedIsCovered
<1>16. reachable_functions_' \in Nat /\ reachable_branches_' \in Nat
  BY <1>3, <1>10, <1>12 DEF TypeOK
<1> QED  BY <1>3, <1>5, <1>15, <1>16

LEMMA UpdateIInv ==
    ASSUME IInv, NEW path \in SUBSET Branches,
           UpdateCoverage(path)
    PROVE  IInv'
<1> USE DEF IInv
<1>1. /\ Positive(path) \subseteq Branches /\ Positive(path) \subseteq BranchIds
      /\ total_covered_' = total_covered_ \cup Positive(path)
      /\ covered_' = covered_ \cup Positive(path)
      /\ num_covered_' \in Nat /\ total_num_covered_' \in Nat
      /\ num_covered_' > num_covered_ <=> covered_' # covered_
  BY UpdateFacts
<1>2. total_num_covered_' - total_num_covered_ =
         Cardinality(total_covered_') - Cardinality(total_covered_)
  BY UpdateFacts
<1>3. TypeOK'
  <2>1. /\ reached_' \subseteq Functions
        /\ reachable_functions_' \in Nat /\ reachable_branches_' \in Nat
    BY UpdateReached
  <2>2. /\ phase' \in Phases /\ executed' = executed \cup Positive(path)
        /\ UNCHANGED <<sessions, num_iters_, file, torn>>
    BY DEF UpdateCoverage, Phases
  <2> QED  BY <1>1, <2>1, <2>2 DEF TypeOK
<1>4. CoveredWithinTotal'
  BY <1>1 DEF CoveredWithinTotal
<1>5. FileCurrent'
  <2>1. SUFFICES ASSUME phase' \in {"search", "running"}
                 PROVE  file.ids \cap Branches = total_covered_' \cap Branches
    BY DEF FileCurrent, UpdateCoverage
  <2>2. ~(num_covered_' > num_covered_)
    BY <2>1 DEF UpdateCoverage
  <2>3. Positive(path) \subseteq total_covered_
    BY <1>1, <2>2 DEF CoveredWithinTotal
  <2>4. phase = "running"
    BY DEF UpdateCoverage
  <2> QED  BY <1>1, <2>3, <2>4 DEF FileCurrent
<1>6. LinesEnough'
  <2>1. /\ total_num_covered_ \in Nat /\ total_num_covered_' \in Nat
        /\ total_covered_ \subseteq BranchIds
        /\ total_covered_' \subseteq BranchIds
    BY <1>1 DEF TypeOK
  <2>2. Cardinality(total_covered_) \in Nat /\ Cardinality(total_covered_') \in Nat
    BY <2>1, FiniteIds
  <2>3. file' = file
    BY DEF UpdateCoverage
  <2>4. total_num_covered_ >= Cardinality(total_covered_)
    BY DEF LinesEnough, NeverUnderReports
  <2>5. total_num_covered_' >= Cardinality(total_covered_')
    BY <1>2, <2>1, <2>2, <2>4
  <2> QED  BY <2>3, <2>5 DEF LinesEnough, NeverUnderReports
<1> QED  BY <1>3, <1>4, <1>5, <1>6, UpdateReached

LEMMA NextIInv == IInv /\ [Next]_vars => IInv'
<1> SUFFICES ASSUME IInv, [Next]_vars PROVE IInv'
  OBVIOUS
<1> USE DEF IInv
<1> DEFINE Rest == /\ TypeOK' /\ CoveredWithinTotal' /\ FileCurrent'
                   /\ LinesEnough' /\ ReachedIsCovered'
<1>1. CASE Search
  BY <1>1, SearchIInv
<1>2. ASSUME NEW reset \in {FALSE, ResetsCovered}, RunProgram(reset)
      PROVE  IInv'
  BY <1>2 DEF RunProgram, TypeOK, CoveredWithinTotal, FileCurrent,
     LinesEnough, NeverUnderReports, ReachedIsCovered, Phases
<1>3. ASSUME NEW path \in SUBSET Branches, UpdateCoverage(path)
      PROVE  IInv'
  BY <1>3, UpdateIInv
<1>4. CASE OpenFile
  <2>1. Cardinality({}) = 0
    BY FS_EmptySet
  <2> QED
    BY <1>4, <2>1 DEF OpenFile, memory, counters, EmptyFile, TypeOK,
       CoveredWithinTotal, FileCurrent, LinesEnough, NeverUnderReports,
       ReachedIsCovered, Phases
<1>5. CASE OpenFails \/ Kill
  BY <1>5 DEF OpenFails, Kill, memory, counters, TypeOK, CoveredWithinTotal,
     FileCurrent, LinesEnough, NeverUnderReports, ReachedIsCovered, Phases
<1>6. CASE CloseFile
  <2> DEFINE ids == {b \in Branches : b \in total_covered_}
  <2>1. ids \subseteq BranchIds /\ ids = total_covered_ \cap Branches
    BY BranchesAssumption
  <2>2. Cardinality(ids) \in Nat
    BY <2>1, FiniteIds
  <2>3. file' = [ids |-> ids, lines |-> Cardinality(ids)]
    BY <1>6 DEF CloseFile
  <2> QED
    BY <1>6, <2>1, <2>2, <2>3 DEF CloseFile, memory, counters, TypeOK,
       CoveredWithinTotal, FileCurrent, LinesEnough, NeverUnderReports,
       ReachedIsCovered, Phases
<1>7. CASE KillWriting
  <2>1. total_covered_ \cap Branches \subseteq BranchIds
    BY DEF TypeOK
  <2>2. file' \in PartialFiles(total_covered_ \cap Branches)
    BY <1>7 DEF KillWriting
  <2>3. /\ file' \in [ids : SUBSET BranchIds, lines : Nat]
        /\ Cardinality(file'.ids) <= file'.lines
    BY <2>1, <2>2, PartialFileType
  <2> QED
    BY <1>7, <2>3 DEF KillWriting, memory, counters, TypeOK,
       CoveredWithinTotal, FileCurrent, LinesEnough, NeverUnderReports,
       ReachedIsCovered, Phases
<1>8. CASE UNCHANGED vars
  BY <1>8 DEF vars, memory, counters, TypeOK, CoveredWithinTotal, FileCurrent,
     LinesEnough, NeverUnderReports, ReachedIsCovered
<1> QED  BY <1>1, <1>2, <1>3, <1>4, <1>5, <1>6, <1>7, <1>8 DEF Next

\* In every session, whatever is killed and wherever: the variables have
\* their types, a session's coverage is part of the total, the file is
\* current between updates, the report never falls short of the coverage,
\* and the reached functions are those of the covered branches.
THEOREM CoverageInvariant ==
    Spec => [](/\ TypeOK /\ CoveredWithinTotal /\ FileCurrent
               /\ NeverUnderReports /\ ReachedIsCovered)
<1>1. Init => IInv
  BY InitIInv
<1>2. IInv /\ [Next]_vars => IInv'
  BY NextIInv
<1>3. IInv => /\ TypeOK /\ CoveredWithinTotal /\ FileCurrent
              /\ NeverUnderReports /\ ReachedIsCovered
  BY DEF IInv, LinesEnough
<1> QED  BY <1>1, <1>2, <1>3, PTL DEF Spec

-----------------------------------------------------------------------------
(* What holds as long as no write of the file was cut short.               *)

UncutInv == CountersExact /\ CoverageIsReal

LEMMA InitUncut == Init => UncutInv
<1>1. Cardinality({}) = 0
  BY FS_EmptySet
<1> QED
  BY <1>1 DEF Init, UncutInv, CountersExact, CoverageIsReal, EmptyFile

LEMMA UpdateUncut ==
    ASSUME IInv, UncutInv, NEW path \in SUBSET Branches,
           UpdateCoverage(path)
    PROVE  UncutInv'
<1> USE DEF IInv, UncutInv
<1>1. SUFFICES ASSUME ~torn PROVE UncutInv'
  BY DEF UpdateCoverage, CountersExact, CoverageIsReal
<1>2. /\ total_covered_' = total_covered_ \cup Positive(path)
      /\ covered_' = covered_ \cup Positive(path)
      /\ Positive(path) \subseteq BranchIds
      /\ num_covered_' \in Nat /\ total_num_covered_' \in Nat
  BY UpdateFacts
<1>3. /\ total_num_covered_' - total_num_covered_ =
            Cardinality(total_covered_') - Cardinality(total_covered_)
      /\ num_covered_' - num_covered_ =
            Cardinality(covered_') - Cardinality(covered_)
  BY UpdateFacts
<1>4. /\ executed' = executed \cup Positive(path) /\ file' = file
      /\ torn' = torn
  BY DEF UpdateCoverage
<1>5. covered_' \subseteq BranchIds /\ total_covered_' \subseteq BranchIds
  BY <1>2 DEF TypeOK
<1>6. /\ Cardinality(covered_') \in Nat /\ Cardinality(total_covered_') \in Nat
      /\ Cardinality(covered_) \in Nat /\ Cardinality(total_covered_) \in Nat
      /\ num_covered_ \in Nat /\ total_num_covered_ \in Nat
  BY <1>5, FiniteIds DEF TypeOK
<1>7. /\ total_num_covered_ = Cardinality(total_covered_)
      /\ Cardinality(covered_) <= num_covered_
      /\ file.lines = Cardinality(file.ids)
  BY <1>1 DEF CountersExact
<1>8. total_num_covered_' = Cardinality(total_covered_')
  BY <1>2, <1>3, <1>6, <1>7
<1>9. Cardinality(covered_') <= num_covered_'
  BY <1>2, <1>3, <1>6, <1>7
<1>10. CountersExact'
  BY <1>4, <1>7, <1>8, <1>9 DEF CountersExact
<1>11. CoverageIsReal'
  BY <1>1, <1>2, <1>4 DEF CoverageIsReal
<1> QED  BY <1>10, <1>11

LEMMA NextUncut == IInv /\ UncutInv /\ [Next]_vars => UncutInv'
<1> SUFFICES ASSUME IInv, UncutInv, [Next]_vars PROVE UncutInv'
  OBVIOUS
<1> USE DEF UncutInv
<1>1. CASE Search
  <2>1. file.lines \in Nat /\ Cardinality(file.ids) \in Nat
    BY FiniteIds DEF IInv, TypeOK
  <2> QED  BY <1>1, <2>1 DEF Search, CountersExact, CoverageIsReal
<1>2. ASSUME NEW reset \in {FALSE, ResetsCovered}, RunProgram(reset)
      PROVE  UncutInv'
  <2>1. Cardinality({}) = 0 /\ num_covered_ \in Nat
    BY FS_EmptySet DEF IInv, TypeOK
  <2>2. CountersExact'
    <3>1. CASE reset
      BY <1>2, <2>1, <3>1 DEF RunProgram, CountersExact
    <3>2. CASE ~reset
      BY <1>2, <3>2 DEF RunProgram, CountersExact
    <3> QED  BY <3>1, <3>2
  <2> QED  BY <1>2, <2>2 DEF RunProgram, CoverageIsReal
<1>3. ASSUME NEW path \in SUBSET Branches, UpdateCoverage(path)
      PROVE  UncutInv'
  BY <1>3, UpdateUncut
<1>4. CASE OpenFile
  <2>1. Cardinality({}) = 0
    BY FS_EmptySet
  <2> QED
    BY <1>4, <2>1 DEF OpenFile, memory, counters, EmptyFile, CountersExact,
       CoverageIsReal
<1>5. CASE OpenFails \/ Kill
  BY <1>5 DEF OpenFails, Kill, memory, counters, CountersExact, CoverageIsReal
<1>6. CASE CloseFile
  BY <1>6 DEF CloseFile, memory, counters, CountersExact, CoverageIsReal
<1>7. CASE KillWriting
  BY <1>7 DEF KillWriting, CountersExact, CoverageIsReal
<1>8. CASE UNCHANGED vars
  BY <1>8 DEF vars, memory, counters, CountersExact, CoverageIsReal
<1> QED  BY <1>1, <1>2, <1>3, <1>4, <1>5, <1>6, <1>7, <1>8 DEF Next

\* The printed counters are exact until a kill hits the write of the file.
THEOREM CountersAreExact == Spec => []CountersExact
<1>1. Init => IInv /\ UncutInv
  BY InitIInv, InitUncut
<1>2. (IInv /\ UncutInv) /\ [Next]_vars => (IInv /\ UncutInv)'
  BY NextIInv, NextUncut
<1> QED  BY <1>1, <1>2, PTL DEF Spec, UncutInv

\* Nothing is reported or persisted that no execution had, until then.
THEOREM NoGhostCoverage == Spec => []CoverageIsReal
<1>1. Init => IInv /\ UncutInv
  BY InitIInv, InitUncut
<1>2. (IInv /\ UncutInv) /\ [Next]_vars => (IInv /\ UncutInv)'
  BY NextIInv, NextUncut
<1> QED  BY <1>1, <1>2, PTL DEF Spec, UncutInv

-----------------------------------------------------------------------------
(* Sessions implement the ledger.                                          *)

LEMMA StepRecords ==
    ASSUME IInv, [Next]_vars
    PROVE  [Ledger!Next]_<<executed, Known, Saved>>
<1> USE DEF IInv
<1>1. phase \in {"search", "running"} =>
        Branches \cap file.ids = Branches \cap total_covered_
  BY DEF FileCurrent
<1>2. ASSUME NEW path \in SUBSET Branches, UpdateCoverage(path)
      PROVE  /\ Positive(path) \in SUBSET Branches
             /\ Ledger!Record(Positive(path))
  <2>1. /\ Positive(path) \subseteq Branches
        /\ total_covered_' = total_covered_ \cup Positive(path)
    BY <1>2, UpdateFacts
  <2>2. /\ phase = "running" /\ file' = file
        /\ executed' = executed \cup Positive(path)
        /\ phase' \in {"opening", "search"}
    BY <1>2 DEF UpdateCoverage
  <2>3. Known = Saved /\ Saved' = Saved
    BY <1>1, <2>2 DEF Known, Saved
  <2>4. Known' = Known \cup Positive(path)
    BY <2>1, <2>2 DEF Known
  <2> QED  BY <2>1, <2>2, <2>3, <2>4 DEF Ledger!Record
<1>3. CASE Search
  BY <1>3 DEF Search, Known, Saved
<1>4. ASSUME NEW reset \in {FALSE, ResetsCovered}, RunProgram(reset)
      PROVE  UNCHANGED <<executed, Known, Saved>>
  <2>1. /\ phase = "search" /\ phase' \in {"down", "running"}
        /\ UNCHANGED <<executed, file, total_covered_>>
    BY <1>4 DEF RunProgram
  <2> QED  BY <1>1, <2>1 DEF Known, Saved
<1>5. CASE OpenFile
  BY <1>5 DEF OpenFile, memory, Known, Saved, Ledger!Save,
     Ledger!Next
<1>6. CASE OpenFails
  BY <1>6 DEF OpenFails, memory, Known, Saved, Ledger!Crash,
     Ledger!Next
<1>7. CASE CloseFile
  BY <1>7 DEF CloseFile, memory, Known, Saved
<1>8. CASE Kill
  BY <1>8 DEF Kill, memory, Known, Saved, Ledger!Crash,
     Ledger!Next
<1>9. CASE KillWriting
  <2>1. Saved' \in SUBSET Branches /\ Ledger!Damage(Saved')
    BY <1>9 DEF KillWriting, Known, Saved, Ledger!Damage
  <2> QED  BY <2>1 DEF Ledger!Next
<1>10. CASE UNCHANGED vars
  BY <1>10 DEF vars, memory, Known, Saved
<1>11. \A path \in SUBSET Branches : UpdateCoverage(path) => Ledger!Next
  BY <1>2 DEF Ledger!Next
<1> QED
  BY <1>3, <1>4, <1>5, <1>6, <1>7, <1>8, <1>9, <1>10, <1>11
     DEF Next, Ledger!Next

\* Wherever a session is killed, the coverage it keeps in memory and in the
\* file implements CoverageLedger.
THEOREM SessionsKeepLedger == Spec => LedgerSpec
<1>1. Init => IInv /\ Ledger!Init
  BY InitIInv DEF Init, Ledger!Init, EmptyFile, Known, Saved
<1>2. IInv /\ [Next]_vars => IInv'
  BY NextIInv
<1>3. IInv /\ [Next]_vars => [Ledger!Next]_<<executed, Known, Saved>>
  BY StepRecords
<1> QED  BY <1>1, <1>2, <1>3, PTL DEF Spec, LedgerSpec, Ledger!Spec

=============================================================================
