-------------------------- MODULE StrategiesProofs --------------------------
(***************************************************************************)
(* Proofs about the search strategies, for every program under test, depth *)
(* and limit: what an execution records, that predictions are met, that    *)
(* the asserts hold, that the heuristic's walk keeps its distance and that *)
(* a depth-first pass is complete.                                         *)
(***************************************************************************)
EXTENDS Strategies, FiniteSetTheorems, WellFoundedInduction, TLAPS

(* What an execution records.                                              *)

\* A set of numbers has a least member.
LEMMA NatLeast ==
    ASSUME NEW T \in SUBSET Nat, T # {}
    PROVE  \E x \in T : \A y \in T : x <= y
<1>1. PICK x \in T : \A y \in T : <<y, x>> \notin OpToRel(<, Nat)
  BY NatLessThanWellFounded, WFMin
<1>2. \A y \in T : ~(y < x)
  BY <1>1 DEF OpToRel
<1> QED BY <1>2

LEMMA NatSet ==
    ASSUME NEW S, 0 \in S, \A n \in Nat : n \in S => n + 1 \in S
    PROVE  \A n \in Nat : n \in S
<1> SUFFICES ASSUME {n \in Nat : n \notin S} # {} PROVE FALSE
  OBVIOUS
<1>1. PICK x \in {n \in Nat : n \notin S} :
         \A y \in {n \in Nat : n \notin S} : x <= y
  BY NatLeast
<1>2. x - 1 \in Nat /\ x - 1 \in S /\ (x - 1) + 1 = x
  BY <1>1
<1> QED BY <1>1, <1>2

\* The number of members of S up to m.
UpTo(S, m) == {j \in S : j <= m}
Rank(S, m) == Cardinality(UpTo(S, m))

LEMMA RankNext ==
    ASSUME NEW N \in Nat, NEW S, S \subseteq 1..N, NEW m \in Nat
    PROVE  Rank(S, m + 1) = IF m + 1 \in S THEN Rank(S, m) + 1 ELSE Rank(S, m)
<1>0. \A j \in S : j \in Nat /\ j >= 1 /\ j <= N
  OBVIOUS
<1>a. \A k : IsFiniteSet(UpTo(S, k))
  <2>1. IsFiniteSet(1..N)
    BY FS_Interval
  <2> QED BY <2>1, FS_Subset DEF UpTo
<1>1. CASE m + 1 \in S
  <2>1. \A j \in S : j <= m + 1 <=> (j <= m \/ j = m + 1)
    BY <1>0
  <2>2. UpTo(S, m + 1) = UpTo(S, m) \cup {m + 1}
    BY <1>1, <2>1 DEF UpTo
  <2>3. m + 1 \notin UpTo(S, m)
    BY DEF UpTo
  <2> HIDE DEF UpTo
  <2> QED BY <1>a, <1>1, <2>2, <2>3, FS_AddElement DEF Rank
<1>2. CASE m + 1 \notin S
  <2>1. \A j \in S : j <= m + 1 <=> j <= m
    BY <1>0, <1>2
  <2>2. UpTo(S, m + 1) = UpTo(S, m)
    BY <2>1 DEF UpTo
  <2> QED BY <1>2, <2>2 DEF Rank
<1> QED BY <1>1, <1>2

LEMMA RankFacts ==
    ASSUME NEW N \in Nat, NEW S, S \subseteq 1..N
    PROVE  /\ IsFiniteSet(S) /\ Cardinality(S) \in Nat
           /\ \A m \in Nat : Rank(S, m) \in Nat
           /\ Rank(S, 0) = 0 /\ Rank(S, N) = Cardinality(S)
           /\ \A m \in Nat : Rank(S, m + 1) =
                 IF m + 1 \in S THEN Rank(S, m) + 1 ELSE Rank(S, m)
<1>0. \A j \in S : j \in Nat /\ j >= 1 /\ j <= N
  OBVIOUS
<1>1. IsFiniteSet(S)
  <2>1. IsFiniteSet(1..N)
    BY FS_Interval
  <2> QED BY <2>1, FS_Subset
<1>2. \A m : IsFiniteSet(UpTo(S, m))
  BY <1>1, FS_Subset DEF UpTo
<1>3. \A m \in Nat : Rank(S, m) \in Nat
  BY <1>2, FS_CardinalityType DEF Rank
<1>4. Rank(S, 0) = 0
  <2>1. \A j \in S : ~(j <= 0)
    BY <1>0
  <2>2. UpTo(S, 0) = {}
    BY <2>1 DEF UpTo
  <2> QED BY <2>2, FS_EmptySet DEF Rank
<1>5. Rank(S, N) = Cardinality(S)
  <2>1. UpTo(S, N) = S
    BY <1>0 DEF UpTo
  <2> QED BY <2>1 DEF Rank
<1>6. ASSUME NEW m \in Nat
      PROVE  Rank(S, m + 1) = IF m + 1 \in S THEN Rank(S, m) + 1 ELSE Rank(S, m)
  BY RankNext
<1> QED BY <1>1, <1>3, <1>4, <1>5, <1>6, FS_CardinalityType

\* Every rank is taken, and a larger member has a larger rank.
LEMMA RankTaken ==
    ASSUME NEW N \in Nat, NEW S, S \subseteq 1..N,
           NEW n \in 1..Cardinality(S)
    PROVE  \E k \in S : Rank(S, k) = n
<1> DEFINE T == {m \in Nat : Rank(S, m) >= n}
<1>a. Cardinality(S) \in Nat
  BY RankFacts
<1>0. Cardinality(S) \in Nat /\ n \in Nat /\ n >= 1 /\ n <= Cardinality(S)
  BY <1>a
<1>r. /\ \A m \in Nat : Rank(S, m) \in Nat
      /\ Rank(S, 0) = 0 /\ Rank(S, N) = Cardinality(S)
  BY RankFacts
<1>1. N \in T
  BY <1>0, <1>r
<1>2. PICK m \in T : \A l \in T : m <= l
  BY <1>1, NatLeast
<1>3. m \in Nat /\ m # 0
  BY <1>0, <1>2, <1>r
<1>4. m - 1 \in Nat /\ (m - 1) + 1 = m
  BY <1>3
<1>5. m - 1 \notin T
  BY <1>2, <1>3
<1>6. Rank(S, m - 1) \in Nat /\ Rank(S, m - 1) < n
  BY <1>0, <1>4, <1>5, <1>r
<1>7. Rank(S, m) = IF m \in S THEN Rank(S, m - 1) + 1 ELSE Rank(S, m - 1)
  <2>1. Rank(S, (m - 1) + 1)
          = IF (m - 1) + 1 \in S THEN Rank(S, m - 1) + 1 ELSE Rank(S, m - 1)
    BY <1>4, RankNext
  <2> QED BY <1>4, <2>1
<1>8. Rank(S, m) >= n
  BY <1>2
<1> QED BY <1>0, <1>6, <1>7, <1>8

LEMMA RankLess ==
    ASSUME NEW N \in Nat, NEW S, S \subseteq 1..N,
           NEW j \in S, NEW k \in S, j < k
    PROVE  Rank(S, j) < Rank(S, k)
<1>1. IsFiniteSet(S) /\ IsFiniteSet(UpTo(S, k))
  BY RankFacts, FS_Subset DEF UpTo
<1>2. j \in Int /\ k \in Int /\ S \subseteq Int
  OBVIOUS
<1>3. UpTo(S, j) \subseteq UpTo(S, k) /\ k \in UpTo(S, k) /\ k \notin UpTo(S, j)
  <2>1. \A i \in S : i <= j => i <= k
    BY <1>2
  <2>2. k <= k /\ ~(k <= j)
    BY <1>2
  <2> QED BY <2>1, <2>2 DEF UpTo
<1>4. Cardinality(UpTo(S, j)) <= Cardinality(UpTo(S, k))
      /\ Cardinality(UpTo(S, j)) # Cardinality(UpTo(S, k))
  BY <1>1, <1>3, FS_Subset
<1>5. Rank(S, j) \in Nat /\ Rank(S, k) \in Nat
  <2>1. j \in Nat /\ k \in Nat
    OBVIOUS
  <2> QED BY <2>1, RankFacts
<1> QED BY <1>4, <1>5 DEF Rank

\* Ordered lists the members in increasing order, each once.
LEMMA OrderedFacts ==
    ASSUME NEW N \in Nat, NEW S, S \subseteq 1..N
    PROVE  /\ Cardinality(S) \in Nat
           /\ Ordered(S) \in [1..Cardinality(S) -> S]
           /\ \A m, n \in 1..Cardinality(S) : m < n => Ordered(S)[m] < Ordered(S)[n]
           /\ \A k \in S : \E n \in 1..Cardinality(S) : Ordered(S)[n] = k
           /\ \A n \in 1..Cardinality(S) : Rank(S, Ordered(S)[n]) = n
<1> DEFINE c == Cardinality(S)
<1>1. c \in Nat
  BY RankFacts
<1>2. Ordered(S) = [n \in 1..c |-> CHOOSE k \in S : Rank(S, k) = n]
  BY DEF Ordered, Rank, UpTo
<1>3. ASSUME NEW n \in 1..c
      PROVE  Ordered(S)[n] \in S /\ Rank(S, Ordered(S)[n]) = n
  <2>1. \E k \in S : Rank(S, k) = n
    BY RankTaken
  <2>2. Ordered(S)[n] = CHOOSE k \in S : Rank(S, k) = n
    BY <1>2
  <2> QED BY Zenon, <2>1, <2>2
<1>4. ASSUME NEW k \in S, NEW l \in S, Rank(S, k) = Rank(S, l)
      PROVE  k = l
  <2>1. k \in Nat /\ l \in Nat
    OBVIOUS
  <2>a. Rank(S, k) \in Nat
    BY <2>1, RankFacts
  <2>2. ~(Rank(S, k) < Rank(S, k))
    BY <2>a
  <2>3. ~(k < l) /\ ~(l < k)
    BY <1>4, <2>2, RankLess
  <2> QED BY <2>1, <2>3
<1>5. ASSUME NEW m \in 1..c, NEW n \in 1..c, m < n
      PROVE  Ordered(S)[m] < Ordered(S)[n]
  <2> DEFINE a == Ordered(S)[m]
             b == Ordered(S)[n]
  <2>1. a \in S /\ b \in S /\ Rank(S, a) = m /\ Rank(S, b) = n
    BY <1>3
  <2>2. a \in Int /\ b \in Int
    <3>1. \A j \in S : j \in Int
      OBVIOUS
    <3> QED BY <2>1, <3>1
  <2>3. a # b
    BY <1>1, <1>5, <2>1
  <2> HIDE DEF a, b
  <2>4. ~(b < a)
    <3>1. m \in Nat /\ n \in Nat /\ ~(n < m)
      BY <1>1, <1>5
    <3> QED BY <2>1, <3>1, RankLess
  <2> QED BY <2>2, <2>3, <2>4 DEF a, b
<1>6. ASSUME NEW k \in S
      PROVE  \E n \in 1..c : Ordered(S)[n] = k
  <2>0. k \in Nat /\ k >= 1
    OBVIOUS
  <2>1. Rank(S, k) \in Nat
    BY <2>0, RankFacts
  <2>2. Rank(S, k) \in 1..c
    <3>1. k - 1 \in Nat /\ (k - 1) + 1 = k
      BY <2>0
    <3>2. Rank(S, k) = Rank(S, k - 1) + 1 /\ Rank(S, k - 1) \in Nat
      <4>1. Rank(S, (k - 1) + 1)
              = IF (k - 1) + 1 \in S THEN Rank(S, k - 1) + 1 ELSE Rank(S, k - 1)
        BY <3>1, RankFacts
      <4> QED BY <3>1, <4>1, RankFacts
    <3>3. Rank(S, k) <= c
      <4>1. UpTo(S, k) \subseteq S
        BY DEF UpTo
      <4> QED BY <4>1, RankFacts, FS_Subset DEF Rank
    <3> QED BY <1>1, <2>1, <3>2, <3>3
  <2>3. Ordered(S)[Rank(S, k)] \in S /\ Rank(S, Ordered(S)[Rank(S, k)]) = Rank(S, k)
    BY <1>3, <2>2
  <2> QED BY <1>4, <2>2, <2>3
<1> HIDE DEF c
<1>7. Ordered(S) \in [1..c -> S]
  BY <1>2, <1>3
<1> QED BY <1>1, <1>3, <1>5, <1>6, <1>7 DEF c

LEMMA RunFacts ==
    ASSUME NEW p \in Programs, NEW x \in Inputs
    PROVE  /\ Len(p[x]) \in Nat /\ Steps(p, x) = 1..Len(p[x])
           /\ \A k \in Steps(p, x) : p[x][k].holds \subseteq Inputs
                                        /\ p[x][k].symbolic \in BOOLEAN
<1>1. p[x] \in Seq(Range(p[x]))
  BY ProgramsAssumption
<1>2. Len(p[x]) \in Nat /\ DOMAIN p[x] = 1..Len(p[x])
  BY <1>1
<1> QED BY <1>2, ProgramsAssumption DEF Steps

\* What holds of every object: its branches are those of the program, and its
\* constraints have places, on the path if the file was whole.
Recorded(p, e) ==
    /\ e.branches \in Seq(Branches(p)) /\ ToSet(e.branches) \subseteq Feasible(p)
    /\ Len(e.constraints) \in Nat
    /\ Constraints(e) = 1..Len(e.constraints)
    /\ \A i \in Constraints(e) : e.constraints_idx[i] \in Nat \ {0}

LEMMA RunRecorded ==
    ASSUME NEW p \in Programs, NEW x \in Inputs
    PROVE  LET e == Execution(p, x)
               idx == Ordered(Kept(p, x))
               c == Cardinality(Kept(p, x))
           IN /\ e.branches = [k \in 1..Len(p[x]) |-> BranchOf(p, x, k)]
              /\ Len(e.branches) = Len(p[x]) /\ Len(e.branches) \in Nat
              /\ e.branches \in Seq(Branches(p))
              /\ c \in Nat /\ Len(e.constraints) = c /\ Constraints(e) = 1..c
              /\ e.constraints_idx = idx
              /\ e.constraints = [n \in 1..c |-> PredicateOf(p, x, idx[n])]
              /\ Kept(p, x) \subseteq 1..Len(p[x])
<1> DEFINE e == Execution(p, x)
           idx == Ordered(Kept(p, x))
           c == Cardinality(Kept(p, x))
           l == Len(p[x])
<1>1. l \in Nat /\ Steps(p, x) = 1..l
  BY RunFacts
<1>2. Kept(p, x) \subseteq 1..l
  BY <1>1 DEF Kept
<1>3. c \in Nat
  BY <1>1, <1>2, OrderedFacts
<1> HIDE DEF c, l
<1>4. e.branches = [k \in 1..l |-> BranchOf(p, x, k)]
  BY <1>1 DEF Execution
<1>5. \A k \in 1..l : BranchOf(p, x, k) \in Branches(p)
  <2>1. \A k \in 1..l : p[x][k].cond \in Conds(p)
    BY <1>1 DEF Conds
  <2>2. \A k : Taken(p, x, k) \in BOOLEAN
    BY DEF Taken
  <2> QED BY <2>1, <2>2 DEF BranchOf, Branches
<1>6. e.branches \in Seq(Branches(p)) /\ Len(e.branches) = l
  BY <1>1, <1>4, <1>5
<1>7. e.constraints_idx = idx /\ e.constraints = [n \in 1..c |-> PredicateOf(p, x, idx[n])]
  BY DEF Execution, c
<1>8. Len(e.constraints) = c /\ Constraints(e) = 1..c
  BY <1>3, <1>7 DEF Constraints
<1> QED BY <1>1, <1>2, <1>3, <1>4, <1>6, <1>7, <1>8 DEF c, l

\* A constraint holds for the input it was recorded on.
LEMMA PredicateFacts ==
    ASSUME NEW p \in Programs, NEW x \in Inputs, NEW k \in Steps(p, x)
    PROVE  /\ PredicateOf(p, x, k) \subseteq Inputs /\ x \in PredicateOf(p, x, k)
           /\ \A y \in Inputs : y \in PredicateOf(p, x, k)
                 <=> (y \in p[x][k].holds) = Taken(p, x, k)
BY RunFacts DEF PredicateOf, Taken

\* Without repeated or concrete conditionals every place leaves a constraint.
LEMMA AllRecorded ==
    ASSUME NEW p \in Programs, NEW x \in Inputs, NonRepeating(p), Symbolic(p)
    PROVE  LET e == Execution(p, x)
           IN /\ Len(e.constraints) = Len(p[x]) /\ Constraints(e) = 1..Len(p[x])
              /\ Len(e.branches) = Len(p[x])
              /\ \A k \in 1..Len(p[x]) : /\ e.constraints_idx[k] = k
                                         /\ e.constraints[k] = PredicateOf(p, x, k)
<1> DEFINE l == Len(p[x])
           K == Kept(p, x)
<1>1. l \in Nat /\ Steps(p, x) = 1..l
  BY RunFacts
<1>2. ASSUME NEW k \in 1..l
      PROVE  k \in K
  <2>1. p[x][k].symbolic
    BY <1>1 DEF Symbolic
  <2>2. ASSUME NEW j \in 1..(k - 1) PROVE BranchOf(p, x, j) # BranchOf(p, x, k)
    <3>1. j \in 1..l /\ j # k
      BY <1>1
    <3>2. p[x][j].cond # p[x][k].cond
      BY <1>1, <3>1 DEF NonRepeating
    <3> QED BY <3>2 DEF BranchOf
  <2> QED BY <1>1, <2>1, <2>2 DEF Kept
<1>3. K = 1..l
  BY <1>1, <1>2 DEF Kept
<1>4. Cardinality(K) = l
  <2>1. Cardinality(1..l) = IF 1 > l THEN 0 ELSE l - 1 + 1
    BY <1>1, FS_Interval
  <2> QED BY <1>1, <1>3, <2>1
<1>5. ASSUME NEW m \in Nat, m <= l PROVE Rank(K, m) = m
  <2> DEFINE S == {n \in Nat : n <= l => Rank(K, n) = n}
  <2>1. 0 \in S
    BY <1>1, <1>3, RankFacts
  <2>2. ASSUME NEW n \in Nat, n \in S PROVE n + 1 \in S
    <3>1. CASE n + 1 <= l
      <4>1. n + 1 \in K /\ n <= l
        BY <1>1, <1>3, <3>1
      <4>2. Rank(K, n + 1) = Rank(K, n) + 1
        BY <1>1, <1>3, <4>1, RankFacts
      <4>3. Rank(K, n + 1) = n + 1
        BY <2>2, <4>1, <4>2
      <4> QED BY <4>3
    <3> QED BY <3>1
  <2> HIDE DEF S
  <2>3. \A n \in Nat : n \in S
    BY <2>1, <2>2, NatSet
  <2> QED BY <1>5, <2>3 DEF S
<1>6. ASSUME NEW k \in 1..l PROVE Ordered(K)[k] = k
  <2>1. Ordered(K)[k] \in K /\ Rank(K, Ordered(K)[k]) = k
    <3>1. K \subseteq 1..l /\ k \in 1..Cardinality(K)
      BY <1>3, <1>4
    <3>2. /\ Ordered(K) \in [1..Cardinality(K) -> K]
          /\ \A n \in 1..Cardinality(K) : Rank(K, Ordered(K)[n]) = n
      BY <1>1, <3>1, OrderedFacts
    <3> QED BY <3>1, <3>2
  <2>2. Ordered(K)[k] \in Nat /\ Ordered(K)[k] <= l
    BY <1>1, <1>3, <2>1
  <2> QED BY <1>5, <2>1, <2>2
<1> HIDE DEF l, K
<1>7. LET e == Execution(p, x)
      IN /\ Len(e.constraints) = Cardinality(K) /\ Constraints(e) = 1..Cardinality(K)
         /\ Len(e.branches) = l /\ e.constraints_idx = Ordered(K)
         /\ e.constraints = [n \in 1..Cardinality(K) |-> PredicateOf(p, x, Ordered(K)[n])]
  BY RunRecorded DEF l, K
<1> QED BY <1>4, <1>6, <1>7 DEF l

-----------------------------------------------------------------------------
(* What solving an execution gives.                                        *)

\* An input that satisfies the first k predicates of a run goes the same way
\* up to there, and comes to the same conditional next.
LEMMA Together ==
    ASSUME NEW p \in Programs, NEW x \in Inputs, NEW y \in Inputs, NEW k \in Nat,
           k <= Len(p[y]), \A j \in 1..k : x \in PredicateOf(p, y, j)
    PROVE  /\ \A j \in 1..(k + 1) : j \in Steps(p, y)
                  => j \in Steps(p, x) /\ p[x][j] = p[y][j]
           /\ \A j \in 1..k : /\ j \in Steps(p, y) /\ Taken(p, x, j) = Taken(p, y, j)
                              /\ BranchOf(p, x, j) = BranchOf(p, y, j)
                              /\ PredicateOf(p, x, j) = PredicateOf(p, y, j)
<1> DEFINE Good(j) == j \in Steps(p, x) /\ p[x][j] = p[y][j]
           T == {j \in 1..(k + 1) : j \in Steps(p, y) /\ ~Good(j)}
<1>1. /\ Len(p[y]) \in Nat /\ Steps(p, y) = 1..Len(p[y])
      /\ \A j \in 1..k : j \in Steps(p, y)
  BY RunFacts
<1>2. ASSUME NEW j \in 1..k, Good(j)
      PROVE  Taken(p, x, j) = Taken(p, y, j)
  <2>1. (x \in p[y][j].holds) = Taken(p, y, j)
    BY <1>1, PredicateFacts
  <2> QED BY <1>2, <2>1 DEF Taken
<1>3. T = {}
  <2> SUFFICES ASSUME T # {} PROVE FALSE
    OBVIOUS
  <2>1. T \in SUBSET Nat
    OBVIOUS
  <2> HIDE DEF T
  <2>2. PICK j \in T : \A i \in T : j <= i
    BY <2>1, NatLeast
  <2>3. j \in 1..(k + 1) /\ j \in Steps(p, y) /\ ~Good(j)
    BY <2>2 DEF T
  <2>4. ASSUME NEW i \in 1..(j - 1)
        PROVE  i \in Steps(p, x) /\ Taken(p, y, i) = Taken(p, x, i)
    <3>1. i \in 1..k /\ i \in 1..(k + 1) /\ ~(j <= i)
      BY <2>3
    <3>2. i \notin T /\ i \in Steps(p, y)
      BY <1>1, <2>2, <3>1
    <3>3. Good(i)
      BY <3>1, <3>2 DEF T
    <3> QED BY <1>2, <3>1, <3>3
  <2>5. Deterministic(p)
    BY ProgramsAssumption
  <2> QED BY <2>3, <2>4, <2>5 DEF Deterministic
<1>4. ASSUME NEW j \in 1..(k + 1), j \in Steps(p, y) PROVE Good(j)
  BY <1>3, <1>4
<1>5. ASSUME NEW j \in 1..k
      PROVE  /\ j \in Steps(p, y) /\ Taken(p, x, j) = Taken(p, y, j)
             /\ p[x][j] = p[y][j]
  <2>1. j \in 1..(k + 1)
    OBVIOUS
  <2> QED BY <1>1, <1>2, <1>4, <2>1
<1> QED BY <1>4, <1>5 DEF BranchOf, PredicateOf

\* The two predicates of a conditional exclude one another.
LEMMA OtherPredicate ==
    ASSUME NEW p \in Programs, NEW x \in Inputs, NEW y \in Inputs, NEW k \in Nat,
           k \in Steps(p, x), k \in Steps(p, y), p[x][k] = p[y][k],
           x \notin PredicateOf(p, y, k)
    PROVE  /\ Taken(p, x, k) = ~Taken(p, y, k)
           /\ BranchOf(p, x, k) = Paired(BranchOf(p, y, k))
           /\ PredicateOf(p, x, k) = Inputs \ PredicateOf(p, y, k)
<1>1. p[y][k].holds \subseteq Inputs
  BY RunFacts
<1>2. Taken(p, x, k) = ~Taken(p, y, k)
  <2>1. Taken(p, x, k) <=> x \in p[y][k].holds
    BY DEF Taken
  <2>2. CASE Taken(p, y, k)
    <3>1. x \notin p[y][k].holds
      BY <2>2 DEF PredicateOf
    <3> QED BY <2>1, <2>2, <3>1 DEF Taken
  <2>3. CASE ~Taken(p, y, k)
    <3>1. x \in p[y][k].holds
      BY <2>3 DEF PredicateOf
    <3> QED BY <2>1, <2>3, <3>1 DEF Taken
  <2> QED BY <2>2, <2>3
<1>3. BranchOf(p, x, k) = Paired(BranchOf(p, y, k))
  BY <1>2 DEF BranchOf, Paired
<1>4. PredicateOf(p, x, k) = Inputs \ PredicateOf(p, y, k)
  BY <1>1, <1>2 DEF PredicateOf
<1> QED BY <1>2, <1>3, <1>4

\* A solution at the i-th constraint takes the run's path up to there, and the
\* other direction there.
LEMMA SolutionFacts ==
    ASSUME NEW p \in Programs, NEW x \in Inputs, NEW y \in Inputs,
           NonRepeating(p), Symbolic(p),
           NEW i \in Constraints(Execution(p, y)), x \in Solutions(Execution(p, y), i)
    PROVE  /\ i \in 1..Len(p[y]) /\ i \in 1..Len(p[x])
           /\ \A j \in 1..(i - 1) : /\ BranchOf(p, x, j) = BranchOf(p, y, j)
                                    /\ PredicateOf(p, x, j) = PredicateOf(p, y, j)
                                    /\ x \in PredicateOf(p, y, j)
           /\ BranchOf(p, x, i) = Paired(BranchOf(p, y, i))
           /\ PredicateOf(p, x, i) = Inputs \ PredicateOf(p, y, i)
           /\ x \notin PredicateOf(p, y, i)
<1> DEFINE e == Execution(p, y)
           l == Len(p[y])
<1>1. l \in Nat /\ Steps(p, y) = 1..l /\ Len(p[x]) \in Nat /\ Steps(p, x) = 1..Len(p[x])
  BY RunFacts
<1>2. Constraints(e) = 1..l /\ \A k \in 1..l : e.constraints[k] = PredicateOf(p, y, k)
  BY AllRecorded
<1>3. i \in 1..l
  BY <1>2
<1>4. x \notin e.constraints[i] /\ \A j \in 1..(i - 1) : x \in e.constraints[j]
  BY DEF Solutions
<1> HIDE DEF e, l
<1>5. x \notin PredicateOf(p, y, i) /\ \A j \in 1..(i - 1) : x \in PredicateOf(p, y, j)
  <2>1. \A j \in 1..(i - 1) : j \in 1..l
    BY <1>1, <1>3
  <2> QED BY <1>2, <1>3, <1>4, <2>1
<1>6. i - 1 \in Nat /\ (i - 1) + 1 = i /\ i - 1 <= l /\ i \in 1..i /\ i \in Nat
  BY <1>1, <1>3
<1>7. /\ \A j \in 1..((i - 1) + 1) : j \in Steps(p, y)
                  => j \in Steps(p, x) /\ p[x][j] = p[y][j]
      /\ \A j \in 1..(i - 1) : /\ BranchOf(p, x, j) = BranchOf(p, y, j)
                               /\ PredicateOf(p, x, j) = PredicateOf(p, y, j)
  <2> DEFINE m == i - 1
  <2>1. m \in Nat /\ m <= Len(p[y]) /\ \A j \in 1..m : x \in PredicateOf(p, y, j)
    BY <1>5, <1>6 DEF l
  <2> HIDE DEF m
  <2>2. /\ \A j \in 1..(m + 1) : j \in Steps(p, y)
                  => j \in Steps(p, x) /\ p[x][j] = p[y][j]
        /\ \A j \in 1..m : /\ BranchOf(p, x, j) = BranchOf(p, y, j)
                           /\ PredicateOf(p, x, j) = PredicateOf(p, y, j)
    BY <2>1, Together
  <2> QED BY <2>2 DEF m
<1>8. i \in Steps(p, y) /\ i \in Steps(p, x) /\ p[x][i] = p[y][i]
  BY <1>1, <1>3, <1>6, <1>7
<1>9. /\ BranchOf(p, x, i) = Paired(BranchOf(p, y, i))
      /\ PredicateOf(p, x, i) = Inputs \ PredicateOf(p, y, i)
  BY <1>5, <1>6, <1>8, OtherPredicate
<1> QED BY <1>1, <1>3, <1>5, <1>7, <1>8, <1>9 DEF l

\* Where every constraint is recorded, a solution meets the prediction.
LEMMA SolutionPredicted ==
    ASSUME NEW p \in Programs, NEW x \in Inputs, NEW y \in Inputs,
           NonRepeating(p), Symbolic(p),
           NEW i \in Constraints(Execution(p, y)), x \in Solutions(Execution(p, y), i)
    PROVE  CheckPrediction(Execution(p, y), Execution(p, x),
                           Execution(p, y).constraints_idx[i])
<1> DEFINE e == Execution(p, y)
           f == Execution(p, x)
<1>1. /\ i \in 1..Len(p[y]) /\ i \in 1..Len(p[x])
      /\ \A j \in 1..(i - 1) : BranchOf(p, x, j) = BranchOf(p, y, j)
      /\ BranchOf(p, x, i) = Paired(BranchOf(p, y, i))
  BY SolutionFacts
<1>2. e.constraints_idx[i] = i
  BY <1>1, AllRecorded
<1>3. /\ e.branches = [k \in 1..Len(p[y]) |-> BranchOf(p, y, k)] /\ Len(e.branches) = Len(p[y])
      /\ f.branches = [k \in 1..Len(p[x]) |-> BranchOf(p, x, k)] /\ Len(f.branches) = Len(p[x])
      /\ Len(p[x]) \in Nat /\ Len(p[y]) \in Nat
  BY RunRecorded
<1> HIDE DEF e, f
<1>4. \A j \in 1..(i - 1) : j \in 1..Len(p[y]) /\ j \in 1..Len(p[x])
  BY <1>1, <1>3
<1>5. CheckPrediction(e, f, i)
  BY <1>1, <1>3, <1>4 DEF CheckPrediction
<1> QED BY <1>2, <1>5 DEF e, f

\* Of two runs, one has the branches of the other or solves it at some place.
LEMMA SameOrSolution ==
    ASSUME NEW p \in Programs, NEW x \in Inputs, NEW y \in Inputs,
           NonRepeating(p), Symbolic(p)
    PROVE  \/ Execution(p, x).branches = Execution(p, y).branches
           \/ \E i \in 1..Len(p[y]) : /\ x \in Solutions(Execution(p, y), i)
                                      /\ x \notin PredicateOf(p, y, i)
<1> DEFINE e == Execution(p, y)
           l == Len(p[y])
           T == {i \in 1..l : x \notin PredicateOf(p, y, i)}
<1>1. /\ l \in Nat /\ Steps(p, y) = 1..l
      /\ Len(p[x]) \in Nat /\ Steps(p, x) = 1..Len(p[x])
  BY RunFacts
<1>2. \A k \in 1..l : e.constraints[k] = PredicateOf(p, y, k)
  BY AllRecorded
<1> HIDE DEF e, l
<1>3. CASE T # {}
  <2>1. PICK i \in T : \A j \in T : i <= j
    <3>1. T \in SUBSET Nat
      OBVIOUS
    <3> HIDE DEF T
    <3> QED BY <1>3, <3>1, NatLeast
  <2>2. i \in 1..l /\ x \notin PredicateOf(p, y, i)
    BY <2>1
  <2>3. ASSUME NEW j \in 1..(i - 1) PROVE j \in 1..l /\ x \in PredicateOf(p, y, j)
    <3>1. j \in 1..l /\ ~(i <= j)
      BY <1>1, <2>2
    <3> QED BY <2>1, <3>1
  <2>4. x \in Solutions(e, i)
    BY <1>2, <2>2, <2>3 DEF Solutions
  <2> QED BY <2>2, <2>4 DEF e, l
<1>4. CASE T = {}
  <2>1. \A j \in 1..l : x \in PredicateOf(p, y, j)
    BY <1>4
  <2>2. /\ \A j \in 1..(l + 1) : j \in Steps(p, y) => j \in Steps(p, x)
        /\ \A j \in 1..l : /\ Taken(p, x, j) = Taken(p, y, j)
                           /\ BranchOf(p, x, j) = BranchOf(p, y, j)
    BY <1>1, <2>1, Together DEF l
  <2>3. l <= Len(p[x])
    <3>1. CASE l = 0
      BY <1>1, <3>1
    <3>2. CASE l # 0
      <4>1. l \in 1..(l + 1) /\ l \in Steps(p, y)
        BY <1>1, <3>2
      <4>2. l \in Steps(p, x)
        BY <2>2, <4>1
      <4> QED BY <1>1, <4>2
    <3> QED BY <3>1, <3>2
  <2>4. Len(p[x]) <= l
    <3> SUFFICES ASSUME l < Len(p[x]) PROVE FALSE
      BY <1>1
    <3>1. l + 1 \in Steps(p, x) /\ l + 1 \notin Steps(p, y)
      BY <1>1
    <3>2. \A j \in 1..((l + 1) - 1) : j \in Steps(p, y) /\ Taken(p, x, j) = Taken(p, y, j)
      <4>1. (l + 1) - 1 = l
        BY <1>1
      <4> QED BY <1>1, <2>2, <4>1
    <3>3. Deterministic(p)
      BY ProgramsAssumption
    <3> QED BY <3>1, <3>2, <3>3 DEF Deterministic
  <2>5. Len(p[x]) = l
    BY <1>1, <2>3, <2>4
  <2>6. /\ e.branches = [k \in 1..l |-> BranchOf(p, y, k)]
        /\ Execution(p, x).branches = [k \in 1..Len(p[x]) |-> BranchOf(p, x, k)]
    BY RunRecorded DEF e, l
  <2>7. Execution(p, x).branches = e.branches
    BY <2>2, <2>5, <2>6
  <2> QED BY <2>7 DEF e
<1> QED BY <1>3, <1>4

\* Two solutions of a run at the same place are the same run, or one solves
\* the other behind that place.
LEMMA SolutionsBehind ==
    ASSUME NEW p \in Programs, NEW y \in Inputs, NonRepeating(p), Symbolic(p),
           NEW i \in Constraints(Execution(p, y)),
           NEW x \in Inputs, x \in Solutions(Execution(p, y), i),
           NEW z \in Inputs, z \in Solutions(Execution(p, y), i)
    PROVE  \/ Execution(p, z).branches = Execution(p, x).branches
           \/ \E j \in (i + 1)..Len(p[x]) : z \in Solutions(Execution(p, x), j)
<1>1. /\ i \in 1..Len(p[y])
      /\ \A j \in 1..(i - 1) : PredicateOf(p, x, j) = PredicateOf(p, y, j)
      /\ PredicateOf(p, x, i) = Inputs \ PredicateOf(p, y, i)
  BY SolutionFacts
<1>2. /\ \A j \in 1..(i - 1) : z \in PredicateOf(p, y, j)
      /\ z \notin PredicateOf(p, y, i)
  BY SolutionFacts
<1>3. \A j \in 1..i : z \in PredicateOf(p, x, j)
  <2>1. i \in Nat /\ \A j \in 1..i : j \in 1..(i - 1) \/ j = i
    BY <1>1
  <2> QED BY <1>1, <1>2, <2>1
<1>4. CASE \E j \in 1..Len(p[x]) : /\ z \in Solutions(Execution(p, x), j)
                                   /\ z \notin PredicateOf(p, x, j)
  <2>1. PICK j \in 1..Len(p[x]) : /\ z \in Solutions(Execution(p, x), j)
                                  /\ z \notin PredicateOf(p, x, j)
    BY <1>4
  <2>2. j \in (i + 1)..Len(p[x])
    <3>1. j \notin 1..i
      BY <1>3, <2>1
    <3>2. j \in Nat /\ i \in Nat /\ j >= 1 /\ j <= Len(p[x]) /\ Len(p[x]) \in Nat
      BY <1>1, RunFacts
    <3>3. j > i
      BY <3>1, <3>2
    <3> QED BY <3>2, <3>3
  <2> QED BY <2>1, <2>2
<1> QED BY <1>4, SameOrSolution

-----------------------------------------------------------------------------
(* Types, the active calls, and what a run aims at.                        *)

\* Whole executions, the objects cut files may leave, and what a strategy's
\* objects are when runs failed in the ways l.
Execs(p) == {NoExecution} \cup {Execution(p, x) : x \in Inputs}
Objects(p) ==
    {e \in [branches : Seq(Branches(p)), constraints_idx : Seq(Nat \ {0}),
             constraints : Seq(SUBSET Inputs)] :
        ToSet(e.branches) \subseteq Feasible(p)
            /\ Len(e.constraints_idx) = Len(e.constraints)}
Held(p, l) == IF "tail" \in l THEN Objects(p) ELSE Execs(p)

\* What szd_execution holds.
Cut(p) == [branches : {s \in Seq(Branches(p)) : ToSet(s) \subseteq Feasible(p)}]
Files(p, l) == IF "tail" \in l THEN Execs(p) \cup Cut(p) ELSE Execs(p)

Frames(p, l) == [ex : Held(p, l), pos : Nat, bound : Int, force : BOOLEAN]

TypeOK ==
    /\ program \in Programs /\ max_depth_ \in Nat
    /\ pc \in {"reset", "run", "ran", "search", "step", "exit", "abort", "undefined"}
    /\ at \in Nat /\ lost \subseteq {"job", "tail"} /\ file \in Files(program, lost)
    /\ ex \in Held(program, lost) /\ cur_ex \in Held(program, lost)
    /\ walked \in Held(program, lost) /\ lucky \in BOOLEAN
    /\ covered_ \subseteq Branches(program) /\ found \subseteq Branches(program)
    /\ num_iters_ \in Nat
    /\ frames \in Seq(Frames(program, lost)) /\ idxs \subseteq Nat
    /\ count \in Int /\ pos \in Nat
    /\ dist_ \in [Branches(program) -> 0..kInfiniteDistance]

\* Only depth-first search and the heuristic's walk have active calls, a walk
\* keeps a lucky execution only while it lasts, and inputs are forced from an
\* active call wherever there is one.
Calls ==
    /\ strategy \notin {"dfs", "cfg"} => frames = <<>>
    /\ strategy = "dfs" /\ (pc = "search" \/ (pc \in {"run", "ran"} /\ at # 0))
          => frames # <<>>
    /\ pc = "reset" \/ (pc \in {"run", "ran"} /\ at = 0) => frames = <<>>
    /\ frames = <<>> => ~lucky

\* A forced run breaks a constraint of the execution it is solved from, and
\* what is read is the execution of such an input while no run has failed.
Aimed ==
    /\ pc \in {"run", "ran"} /\ at # 0 => at \in Constraints(Source)
    /\ pc = "ran" /\ lost = {} => \E x \in NextInputs : Read = Execution(program, x)

\* The constraints a loop has still to try are those of its execution; hybrid
\* search keeps the old ones when it takes a new execution, until it begins
\* another step.  DoSearch goes on only where every constraint is on the path.
Listed ==
    /\ strategy \in {"cfg", "cfg_baseline"}
            /\ (pc = "search" \/ (pc \in {"run", "ran"} /\ at # 0))
          => idxs \subseteq Constraints(ex) /\ Scorable(ex)
    /\ strategy = "hybrid" /\ (pc = "step" \/ (pc \in {"run", "ran"} /\ at # 0))
          => idxs \subseteq Constraints(ex)
    /\ pos >= 1

Inv == TypeOK /\ Calls /\ Listed /\ Aimed

LEMMA ExecsAreObjects ==
    ASSUME NEW p \in Programs
    PROVE  Execs(p) \subseteq Objects(p)
<1>1. NoExecution \in Objects(p)
  <2>1. ToSet(<<>>) = {}
    BY DEF ToSet
  <2> QED BY <2>1 DEF NoExecution, Objects
<1>2. ASSUME NEW x \in Inputs PROVE Execution(p, x) \in Objects(p)
  <2> DEFINE e == Execution(p, x)
             c == Cardinality(Kept(p, x))
  <2>1. /\ e.branches \in Seq(Branches(p)) /\ ToSet(e.branches) \subseteq Feasible(p)
    BY RunRecorded DEF Feasible
  <2>2. /\ c \in Nat /\ Kept(p, x) \subseteq 1..Len(p[x]) /\ Len(p[x]) \in Nat
        /\ e.constraints_idx = Ordered(Kept(p, x))
        /\ e.constraints = [n \in 1..c |-> PredicateOf(p, x, Ordered(Kept(p, x))[n])]
    BY RunRecorded
  <2>3. /\ Ordered(Kept(p, x)) \in [1..c -> Kept(p, x)]
    BY <2>2, OrderedFacts
  <2> HIDE DEF c
  <2>4. Kept(p, x) \subseteq Nat \ {0}
    BY <2>2
  <2>5. e.constraints_idx \in Seq(Nat \ {0}) /\ Len(e.constraints_idx) = c
    BY <2>2, <2>3, <2>4
  <2>6. \A k \in Kept(p, x) : PredicateOf(p, x, k) \in SUBSET Inputs
    BY RunFacts DEF PredicateOf, Kept
  <2>7. e.constraints \in Seq(SUBSET Inputs) /\ Len(e.constraints) = c
    BY <2>2, <2>3, <2>6
  <2>8. e = [branches |-> e.branches, constraints_idx |-> e.constraints_idx,
             constraints |-> e.constraints]
    BY DEF Execution
  <2> HIDE DEF e
  <2> QED BY <2>1, <2>5, <2>7, <2>8 DEF Objects, e
<1> QED BY <1>1, <1>2 DEF Execs

LEMMA ExecRecorded ==
    ASSUME NEW p \in Programs, NEW h, NEW e \in Held(p, h)
    PROVE  Recorded(p, e)
<1>1. e \in Objects(p)
  BY ExecsAreObjects DEF Held
<1>2. /\ e.branches \in Seq(Branches(p)) /\ e.constraints_idx \in Seq(Nat \ {0})
      /\ e.constraints \in Seq(SUBSET Inputs) /\ ToSet(e.branches) \subseteq Feasible(p)
      /\ Len(e.constraints_idx) = Len(e.constraints)
  BY <1>1 DEF Objects
<1>3. /\ Constraints(e) = 1..Len(e.constraints) /\ Len(e.constraints) \in Nat
  BY <1>2 DEF Constraints
<1>4. \A i \in 1..Len(e.constraints_idx) : e.constraints_idx[i] \in Nat \ {0}
  BY <1>2
<1> QED BY <1>2, <1>3, <1>4 DEF Recorded

\* Without cut files, whole executions are all a strategy holds, and objects
\* of fewer failures are objects of more.
LEMMA HeldFacts ==
    ASSUME NEW p \in Programs, NEW h, NEW l, h \subseteq l
    PROVE  /\ "tail" \notin h => Held(p, h) = Execs(p)
           /\ NoExecution \in Held(p, h)
           /\ \A x \in Inputs : Execution(p, x) \in Held(p, h) /\ Execution(p, x) \in Files(p, h)
           /\ Held(p, h) \subseteq Held(p, l) /\ Files(p, h) \subseteq Files(p, l)
           /\ Frames(p, h) \subseteq Frames(p, l)
<1>1. Held(p, h) \subseteq Held(p, l) /\ Files(p, h) \subseteq Files(p, l)
  BY ExecsAreObjects DEF Held, Files
<1>2. Execs(p) \subseteq Held(p, h) /\ Execs(p) \subseteq Files(p, h)
  BY ExecsAreObjects DEF Held, Files
<1>3. Frames(p, h) \subseteq Frames(p, l)
  BY <1>1 DEF Frames
<1> QED BY <1>1, <1>2, <1>3 DEF Held, Execs

\* What is read of a file, and that a whole one is read as it is.
LEMMA ReadFacts ==
    ASSUME NEW p \in Programs, NEW h, NEW f \in Files(p, h), NEW e \in Held(p, h)
    PROVE  /\ ReadInto(f, e) \in Held(p, h)
           /\ \A x \in Inputs : f = Execution(p, x) => ReadInto(f, e) = f
<1>1. ASSUME NEW g \in Execs(p) PROVE ~IsCut(g)
  <2>1. CASE g = NoExecution
    BY <2>1 DEF IsCut, NoExecution
  <2>2. CASE \E x \in Inputs : g = Execution(p, x)
    BY <2>2 DEF IsCut, Execution
  <2> QED BY <2>1, <2>2 DEF Execs
<1>2. CASE f \in Execs(p)
  <2>1. ReadInto(f, e) = f
    BY <1>1, <1>2 DEF ReadInto
  <2>2. f \in Held(p, h)
    BY <1>2, ExecsAreObjects DEF Held
  <2> QED BY <2>1, <2>2
<1>3. CASE f \notin Execs(p)
  <2>1. "tail" \in h /\ f \in Cut(p)
    BY <1>3 DEF Files
  <2>2. f.branches \in Seq(Branches(p)) /\ ToSet(f.branches) \subseteq Feasible(p)
    BY <2>1 DEF Cut
  <2>3. DOMAIN f = {"branches"}
    BY <2>1 DEF Cut
  <2>4. IsCut(f)
    BY <2>3 DEF IsCut
  <2>5. e \in Objects(p)
    BY <2>1 DEF Held
  <2> DEFINE r == [e EXCEPT !.branches = f.branches]
  <2>6. r \in Objects(p)
    BY <2>2, <2>5 DEF Objects
  <2>7. ReadInto(f, e) \in Held(p, h)
    BY <2>1, <2>4, <2>6 DEF ReadInto, Held
  <2>8. \A x \in Inputs : f # Execution(p, x)
    BY <1>3 DEF Execs
  <2> QED BY <2>7, <2>8
<1> QED BY <1>2, <1>3

LEMMA LastFacts ==
    ASSUME NEW S, NEW s \in Seq(S), s # <<>>
    PROVE  /\ Len(s) \in Nat /\ Len(s) > 0 /\ Last(s) = s[Len(s)] /\ Last(s) \in S
           /\ Front(s) \in Seq(S) /\ Len(Front(s)) = Len(s) - 1
           /\ \A n \in 1..(Len(s) - 1) : Front(s)[n] = s[n]
<1> DEFINE n == Len(s)
<1>1. n \in Nat /\ n # 0 /\ DOMAIN s = 1..n
  OBVIOUS
<1>2. \A i \in 1..n : s[i] \in S
  BY <1>1
<1>3. Last(s) = s[n] /\ Front(s) = SubSeq(s, 1, n - 1)
  BY DEF Last, Front
<1> HIDE DEF n
<1>4. n \in 1..n /\ n - 1 \in Nat /\ \A i \in 1..(n - 1) : i \in 1..n
  BY <1>1
<1>5. Last(s) \in S
  BY <1>2, <1>3, <1>4
<1>6. Front(s) = [i \in 1..(n - 1) |-> s[i]]
  BY <1>1, <1>3, <1>4
<1>7. Front(s) \in Seq(S) /\ Len(Front(s)) = n - 1
  BY <1>2, <1>4, <1>6
<1> QED BY <1>1, <1>3, <1>5, <1>6, <1>7 DEF n

LEMMA WithLastFacts ==
    ASSUME NEW S, NEW s \in Seq(S), s # <<>>, NEW f \in S
    PROVE  LET t == [s EXCEPT ![Len(s)] = f]
           IN /\ t \in Seq(S) /\ Len(t) = Len(s) /\ t # <<>> /\ t[Len(s)] = f /\ Last(t) = f
              /\ \A n \in 1..(Len(s) - 1) : t[n] = s[n]
<1> DEFINE n == Len(s)
           t == [s EXCEPT ![n] = f]
<1>1. n \in Nat /\ n # 0 /\ DOMAIN s = 1..n /\ \A i \in 1..n : s[i] \in S
  OBVIOUS
<1> HIDE DEF n
<1>2. DOMAIN t = 1..n /\ t[n] = f /\ \A i \in 1..(n - 1) : t[i] = s[i] /\ i \in 1..n
  BY <1>1
<1>3. \A i \in 1..n : t[i] \in S
  BY <1>1
<1>4. t = [i \in 1..n |-> t[i]]
  BY <1>2
<1> HIDE DEF t
<1>5. t \in Seq(S) /\ Len(t) = n
  BY <1>1, <1>3, <1>4
<1>6. t # <<>> /\ Last(t) = f
  BY <1>1, <1>2, <1>5 DEF Last
<1> QED BY <1>2, <1>5, <1>6 DEF t, n

LEMMA AppendFacts ==
    ASSUME NEW S, NEW s \in Seq(S), NEW f \in S
    PROVE  LET t == Append(s, f)
           IN /\ t \in Seq(S) /\ Len(t) = Len(s) + 1 /\ t # <<>> /\ t[Len(s) + 1] = f
              /\ Last(t) = f /\ \A n \in 1..Len(s) : t[n] = s[n]
BY DEF Last

LEMMA FrameTyped ==
    ASSUME NEW p, NEW h, NEW e \in Held(p, h), NEW i \in Nat, NEW b \in Int
    PROVE  Frame(e, i, b) \in Frames(p, h)
BY DEF Frame, Frames

LEMMA TopTyped ==
    ASSUME TypeOK, frames # <<>>
    PROVE  /\ Top \in Frames(program, lost) /\ Top.ex \in Held(program, lost) /\ Top.pos \in Nat
           /\ Top.bound \in Int /\ Top.force \in BOOLEAN
           /\ Source = Top.ex
           /\ \A i \in Nat : [Top EXCEPT !.pos = i] \in Frames(program, lost)
           /\ \A i \in Nat, b \in Int :
                 [Top EXCEPT !.pos = i, !.bound = b] \in Frames(program, lost)
           /\ \A f \in BOOLEAN : [Top EXCEPT !.force = f] \in Frames(program, lost)
<1>1. Top \in Frames(program, lost)
  BY LastFacts DEF TypeOK, Top
<1> QED BY <1>1 DEF Frames, Source, Top

LEMMA SourceTyped ==
    ASSUME TypeOK
    PROVE  /\ Source \in Held(program, lost) /\ Recorded(program, Source)
           /\ \A i : Solutions(Source, i) \subseteq Inputs
<1>1. Source \in Held(program, lost)
  BY TopTyped DEF TypeOK, Source
<1> QED BY <1>1, ExecRecorded DEF Solutions, TypeOK

-----------------------------------------------------------------------------
(* The distances that DoSearch scores with.                                *)

\* The first n + 1 members of the sequence U, G[U], G[G[U]], ...
Upto(A, U, G, n) ==
    {f \in [0..n -> A] : f[0] = U /\ \A k \in 0..(n - 1) : f[k + 1] = G[f[k]]}

LEMMA UptoExists ==
    ASSUME NEW A, NEW U \in A, NEW G \in [A -> A]
    PROVE  \A n \in Nat : Upto(A, U, G, n) # {}
<1> DEFINE S == {n \in Nat : Upto(A, U, G, n) # {}}
<1>1. 0 \in S
  <2>1. [k \in 0..0 |-> U] \in Upto(A, U, G, 0)
    BY DEF Upto
  <2> QED BY <2>1
<1>2. ASSUME NEW n \in Nat, n \in S PROVE n + 1 \in S
  <2>1. PICK f \in [0..n -> A] :
           f[0] = U /\ \A k \in 0..(n - 1) : f[k + 1] = G[f[k]]
    BY <1>2 DEF Upto
  <2> DEFINE h == [k \in 0..(n + 1) |-> IF k <= n THEN f[k] ELSE G[f[n]]]
  <2>2. h \in [0..(n + 1) -> A]
    <3>1. n \in 0..n
      OBVIOUS
    <3>2. \A k \in 0..(n + 1) : k <= n => k \in 0..n
      OBVIOUS
    <3> QED BY <2>1, <3>1, <3>2
  <2>3. h[0] = U
    BY <2>1
  <2>4. ASSUME NEW k \in 0..((n + 1) - 1) PROVE h[k + 1] = G[h[k]]
    <3>1. k \in 0..(n + 1) /\ k + 1 \in 0..(n + 1) /\ h[k] = f[k]
      OBVIOUS
    <3>2. CASE k < n
      <4>1. k \in 0..(n - 1) /\ k + 1 <= n
        BY <3>2
      <4>2. h[k + 1] = f[k + 1]
        BY <3>1, <4>1
      <4> QED BY <2>1, <3>1, <4>1, <4>2
    <3>3. CASE k = n
      <4>1. ~(k + 1 <= n)
        BY <3>3
      <4>2. h[k + 1] = G[f[n]]
        BY <3>1, <4>1
      <4> QED BY <3>1, <3>3, <4>2
    <3> QED BY <3>2, <3>3
  <2> HIDE DEF h
  <2>5. h \in Upto(A, U, G, n + 1)
    BY <2>2, <2>3, <2>4 DEF Upto
  <2> QED BY <2>5
<1> HIDE DEF S
<1>3. \A n \in Nat : n \in S
  BY <1>1, <1>2, NatSet
<1> QED BY <1>3 DEF S


\* DistancesFrom unfolds: W[n] holds the branches within n edges of one outside
\* covered, and a distance counts the n that are too few.
LEMMA DistancesUnfold ==
    ASSUME NEW p \in Programs, NEW covered
    PROVE  \E W :
              /\ W[0] = Branches(p) \ covered
              /\ \A n \in 1..(kInfiniteDistance - 1) :
                    W[n] = W[n - 1] \cup
                             {e[1] : e \in {g \in Cfg(p) : g[2] \in W[n - 1]}}
              /\ DistancesFrom(p, covered, kInfiniteDistance)
                   = [b \in Branches(p) |-> Cardinality(
                        {n \in 0..(kInfiniteDistance - 1) : b \notin W[n]})]
<1> DEFINE K == kInfiniteDistance
           B == Branches(p) \ covered
           edges == Cfg(p)
           Before(S) == S \cup {e[1] : e \in {g \in edges : g[2] \in S}}
           A == SUBSET (B \cup {e[1] : e \in edges})
           G == [S \in A |-> Before(S)]
           W == CHOOSE f : f = [n \in 0..(K - 1) |-> IF n = 0 THEN B ELSE Before(f[n - 1])]
           Out(b) == {n \in 0..(K - 1) : b \notin W[n]}
<1>1. K \in Nat /\ K > 0
  BY StrategiesAssumption
<1>2. DistancesFrom(p, covered, K) = [b \in Branches(p) |-> Cardinality(Out(b))]
  BY DEF DistancesFrom
<1>3. W[0] = B /\ \A n \in 1..(K - 1) : W[n] = Before(W[n - 1])
  <2>1. B \in A /\ G \in [A -> A]
    OBVIOUS
  <2>2. K - 1 \in Nat
    BY <1>1
  <2> HIDE DEF A, G, B
  <2>3. PICK f \in [0..(K - 1) -> A] :
           f[0] = B /\ \A k \in 0..((K - 1) - 1) : f[k + 1] = G[f[k]]
    <3>1. Upto(A, B, G, K - 1) # {}
      BY <2>1, <2>2, UptoExists
    <3> QED BY <3>1 DEF Upto
  <2>4. ASSUME NEW k \in 0..(K - 1)
        PROVE  f[k] = IF k = 0 THEN B ELSE Before(f[k - 1])
    <3>1. CASE k = 0
      BY <2>3, <3>1
    <3>2. CASE k # 0
      <4>1. k - 1 \in 0..((K - 1) - 1) /\ (k - 1) + 1 = k /\ k - 1 \in 0..(K - 1)
        BY <1>1, <3>2
      <4>2. f[(k - 1) + 1] = G[f[k - 1]] /\ f[k - 1] \in A
        BY <2>3, <4>1
      <4>3. G[f[k - 1]] = Before(f[k - 1])
        BY <4>2 DEF G
      <4> HIDE DEF Before
      <4> QED BY <3>2, <4>1, <4>2, <4>3
    <3> QED BY <3>1, <3>2
  <2> HIDE DEF Before
  <2>5. f = [k \in 0..(K - 1) |-> IF k = 0 THEN B ELSE Before(f[k - 1])]
    BY <2>3, <2>4
  <2>6. W = [k \in 0..(K - 1) |-> IF k = 0 THEN B ELSE Before(W[k - 1])]
    BY Zenon, <2>5
  <2> HIDE DEF W
  <2>7. 0 \in 0..(K - 1) /\ \A n \in 1..(K - 1) : n \in 0..(K - 1) /\ n # 0
    BY <1>1
  <2> QED BY <2>6, <2>7
<1> HIDE DEF W
<1> QED BY <1>2, <1>3

\* The first n + 1 counts have that many members.
LEMMA CountBelow ==
    ASSUME NEW n \in Nat
    PROVE  IsFiniteSet(0..(n - 1)) /\ Cardinality(0..(n - 1)) = n
<1>1. 0 \in Int /\ n - 1 \in Int
  OBVIOUS
<1>2. IsFiniteSet(0..(n - 1))
      /\ Cardinality(0..(n - 1)) = IF 0 > n - 1 THEN 0 ELSE (n - 1) - 0 + 1
  BY <1>1, FS_Interval
<1> QED BY <1>2

\* A distance of zero is that of a branch outside covered.
LEMMA DistancesFacts ==
    ASSUME NEW p \in Programs, NEW covered
    PROVE  LET d == DistancesFrom(p, covered, kInfiniteDistance)
           IN /\ d \in [Branches(p) -> 0..kInfiniteDistance]
              /\ \A b \in Branches(p) : d[b] = 0 => b \notin covered
<1> DEFINE K == kInfiniteDistance
           d == DistancesFrom(p, covered, K)
<1>1. K \in Nat /\ K > 0
  BY StrategiesAssumption
<1>2. PICK W : /\ W[0] = Branches(p) \ covered
               /\ d = [b \in Branches(p) |-> Cardinality(
                         {n \in 0..(K - 1) : b \notin W[n]})]
  BY DistancesUnfold
<1> DEFINE Out(b) == {n \in 0..(K - 1) : b \notin W[n]}
<1>3. ASSUME NEW b
      PROVE  /\ IsFiniteSet(Out(b)) /\ Cardinality(Out(b)) \in 0..K
  <2>1. Out(b) \subseteq 0..(K - 1)
    OBVIOUS
  <2> HIDE DEF Out
  <2>2. IsFiniteSet(Out(b)) /\ Cardinality(Out(b)) <= K
    BY <1>1, <2>1, CountBelow, FS_Subset
  <2>3. Cardinality(Out(b)) \in Nat
    BY <2>2, FS_CardinalityType
  <2> QED BY <1>1, <2>2, <2>3
<1>4. ASSUME NEW b \in Branches(p), Cardinality(Out(b)) = 0
      PROVE  b \notin covered
  <2>1. Out(b) = {}
    <3> HIDE DEF Out
    <3> QED BY <1>3, <1>4, FS_EmptySet
  <2>2. b \in W[0]
    <3>1. 0 \in 0..(K - 1)
      BY <1>1
    <3> QED BY <2>1, <3>1
  <2> QED BY <1>2, <2>2
<1>5. d = [b \in Branches(p) |-> Cardinality(Out(b))]
  BY <1>2
<1> HIDE DEF Out, d
<1>6. d \in [Branches(p) -> 0..K] /\ \A b \in Branches(p) : d[b] = 0 => b \notin covered
  BY <1>3, <1>4, <1>5
<1> QED BY <1>6 DEF d

\* The equations that UpdateBranchDistances leaves behind when it returns the
\* distances d (what BranchDistances has as Shortest, over the branches of p).
SolvesShortest(p, covered, d) ==
    \A b \in Branches(p) :
        /\ d[b] = 0 <=> b \in Branches(p) \ covered
        /\ d[b] \in 1..(kInfiniteDistance - 1) =>
              \E c \in Branches(p) : <<b, c>> \in Cfg(p) /\ d[b] = d[c] + 1
        /\ \A c \in Branches(p) :
              <<b, c>> \in Cfg(p) /\ d[c] + 1 < kInfiniteDistance =>
                  d[b] <= d[c] + 1

\* The distances the strategies are modelled with are those that the search of
\* UpdateBranchDistances returns (concolic_search.cc:1434-1477): the equations
\* it solves have no other solution.
THEOREM DistancesAreSearched ==
    ASSUME NEW p \in Programs, NEW covered,
           NEW d \in [Branches(p) -> 0..kInfiniteDistance],
           SolvesShortest(p, covered, d)
    PROVE  d = DistancesFrom(p, covered, kInfiniteDistance)
<1> DEFINE K == kInfiniteDistance
           B == Branches(p)
           E == Cfg(p)
<1>1. K \in Nat /\ K > 0
  BY StrategiesAssumption
<1>2. \A b \in B :
         /\ d[b] = 0 <=> b \in B \ covered
         /\ d[b] \in 1..(K - 1) => \E c \in B : <<b, c>> \in E /\ d[b] = d[c] + 1
         /\ \A c \in B : <<b, c>> \in E /\ d[c] + 1 < K => d[b] <= d[c] + 1
  BY DEF SolvesShortest
<1>3. E \subseteq B \X B
  <2>1. ASSUME NEW x \in Inputs, NEW k \in 1..(Len(p[x]) - 1), NEW a \in BOOLEAN
        PROVE  <<BranchOf(p, x, k), <<p[x][k + 1].cond, a>>>> \in B \X B
    <3>1. p[x] \in Seq(Range(p[x]))
      BY ProgramsAssumption
    <3>2. k \in Steps(p, x) /\ k + 1 \in Steps(p, x)
      BY <3>1 DEF Steps
    <3>3. p[x][k].cond \in Conds(p) /\ p[x][k + 1].cond \in Conds(p)
      BY <3>2 DEF Conds
    <3>4. Taken(p, x, k) \in BOOLEAN
      BY DEF Taken
    <3> QED BY <3>3, <3>4 DEF Branches, BranchOf
  <2> QED BY <2>1 DEF Cfg
<1>4. PICK W : /\ W[0] = B \ covered
               /\ \A n \in 1..(K - 1) :
                     W[n] = W[n - 1] \cup {e[1] : e \in {g \in E : g[2] \in W[n - 1]}}
               /\ DistancesFrom(p, covered, K)
                    = [b \in B |-> Cardinality({n \in 0..(K - 1) : b \notin W[n]})]
  BY DistancesUnfold
<1> HIDE DEF B, E, K
<1>t. \A b \in B : d[b] \in 0..K
  BY DEF B, K
<1> DEFINE S == {n \in Nat : n < K => \A b : b \in W[n] <=> b \in B /\ d[b] <= n}
<1>5. 0 \in S
  BY <1>t, <1>1, <1>2, <1>4
<1>6. ASSUME NEW n \in Nat, n \in S PROVE n + 1 \in S
  <2> SUFFICES ASSUME n + 1 < K, NEW b
               PROVE  b \in W[n + 1] <=> b \in B /\ d[b] <= n + 1
    OBVIOUS
  <2>1. \A c : c \in W[n] <=> c \in B /\ d[c] <= n
    BY <1>1, <1>6
  <2>2. W[n + 1] = W[n] \cup {e[1] : e \in {g \in E : g[2] \in W[n]}}
    <3>1. n + 1 \in 1..(K - 1) /\ (n + 1) - 1 = n
      BY <1>1
    <3> QED BY <1>4, <3>1
  <2>3. b \in W[n + 1] <=> b \in W[n] \/ \E c \in W[n] : <<b, c>> \in E
    <3> DEFINE P == {e[1] : e \in {g \in E : g[2] \in W[n]}}
    <3>1. ASSUME NEW c \in W[n], <<b, c>> \in E PROVE b \in P
      <4>1. <<b, c>>[1] = b /\ <<b, c>>[2] = c
        OBVIOUS
      <4> QED BY <3>1, <4>1
    <3>2. ASSUME b \in P PROVE \E c \in W[n] : <<b, c>> \in E
      <4>1. PICK e \in E : e[2] \in W[n] /\ b = e[1]
        BY <3>2
      <4>2. e = <<e[1], e[2]>>
        BY <1>3, <4>1
      <4> QED BY <4>1, <4>2
    <3> HIDE DEF P
    <3>3. W[n + 1] = W[n] \cup P
      BY <2>2 DEF P
    <3> QED BY <3>1, <3>2, <3>3
  <2>4. ASSUME NEW c \in W[n], <<b, c>> \in E PROVE b \in B /\ d[b] <= n + 1
    <3>1. c \in B /\ d[c] <= n /\ b \in B
      BY <1>3, <2>1, <2>4
    <3>2. d[c] \in Nat /\ d[b] \in Nat /\ d[c] + 1 < K
      BY <1>t, <1>1, <3>1
    <3>3. d[b] <= d[c] + 1
      BY <1>2, <2>4, <3>1, <3>2
    <3> QED BY <3>1, <3>2, <3>3
  <2>5. ASSUME b \in B, d[b] = n + 1 PROVE \E c \in W[n] : <<b, c>> \in E
    <3>1. d[b] \in 1..(K - 1)
      BY <1>1, <2>5
    <3>2. PICK c \in B : <<b, c>> \in E /\ d[b] = d[c] + 1
      BY <1>2, <2>5, <3>1
    <3>3. d[c] <= n
      BY <1>t, <2>5, <3>2
    <3> QED BY <2>1, <3>2, <3>3
  <2>6. b \in B => (d[b] <= n + 1 <=> d[b] <= n \/ d[b] = n + 1)
    BY <1>t
  <2> QED BY <2>1, <2>3, <2>4, <2>5, <2>6
<1> HIDE DEF S
<1>7. \A n \in Nat : n \in S
  BY <1>5, <1>6, NatSet
<1>8. ASSUME NEW b \in B
      PROVE  Cardinality({n \in 0..(K - 1) : b \notin W[n]}) = d[b]
  <2>1. d[b] \in Nat /\ d[b] <= K
    BY <1>t, <1>1
  <2>2. \A n \in 0..(K - 1) : b \notin W[n] <=> n < d[b]
    <3> TAKE n \in 0..(K - 1)
    <3>1. n \in Nat /\ n < K /\ n \in S
      BY <1>1, <1>7
    <3>2. b \in W[n] <=> d[b] <= n
      BY <3>1 DEF S
    <3> QED BY <2>1, <3>1, <3>2
  <2>3. {n \in 0..(K - 1) : b \notin W[n]} = 0..(d[b] - 1)
    BY <1>1, <2>1, <2>2
  <2> QED BY <2>1, <2>3, CountBelow
<1>9. DistancesFrom(p, covered, K) = [b \in B |-> d[b]]
  BY <1>4, <1>8
<1> QED BY <1>9 DEF B, K

-----------------------------------------------------------------------------
(* Types and active calls are kept.                                        *)

LEMMA Limits ==
    /\ {MaxIters, Tries, StepSize, LocalSteps, ScoredIters, kInfiniteDistance} \subseteq Nat
    /\ kInfiniteDistance > 0 /\ UintSize \in Nat /\ UintSize > kInfiniteDistance
    /\ StepSize > 0 /\ LocalSteps > 0
BY StrategiesAssumption

LEMMA ExecPlaces ==
    ASSUME NEW p \in Programs, NEW h, NEW e \in Held(p, h)
    PROVE  /\ Constraints(e) \subseteq Nat /\ Len(e.constraints) \in Nat
           /\ ToSet(e.branches) \subseteq Branches(p)
<1>1. Recorded(p, e)
  BY ExecRecorded
<1>2. Constraints(e) \subseteq Nat /\ Len(e.constraints) \in Nat
  BY <1>1 DEF Recorded
<1>3. \A k \in DOMAIN e.branches : e.branches[k] \in Branches(p)
  BY <1>1 DEF Recorded
<1> QED BY <1>2, <1>3 DEF ToSet

LEMMA DoSearchKeeps ==
    ASSUME TypeOK, UNCHANGED commandLine, NEW e \in Held(program, lost), DoSearch(e)
    PROVE  /\ ex' = e /\ idxs' \subseteq Nat /\ count' \in Nat /\ frames' = <<>>
           /\ cur_ex' = NoExecution /\ walked' = NoExecution /\ lucky' = FALSE
           /\ pos' = pos /\ pc' \in {"search", "undefined"} /\ at' = at
BY Limits, ExecPlaces DEF DoSearch, Goto, commandLine, TypeOK

\* Cutting an execution's file leaves some of its branches.
LEMMA BeginningTyped ==
    ASSUME NEW p \in Programs, NEW x \in Inputs, NEW n \in 0..(Len(p[x]) - 1)
    PROVE  Beginning(Execution(p, x), n) \in Cut(p)
<1> DEFINE s == Execution(p, x).branches
<1>1. s \in Seq(Branches(p)) /\ Len(s) = Len(p[x]) /\ ToSet(s) \subseteq Feasible(p)
  BY RunRecorded DEF Feasible
<1> HIDE DEF s
<1>2. n \in Nat /\ n <= Len(s)
  BY <1>1
<1>3. /\ SubSeq(s, 1, n) \in Seq(Branches(p)) /\ Len(SubSeq(s, 1, n)) = n
      /\ \A i \in 1..n : SubSeq(s, 1, n)[i] = s[i] /\ i \in 1..Len(s)
  BY <1>1, <1>2
<1>4. ToSet(SubSeq(s, 1, n)) \subseteq ToSet(s)
  BY <1>1, <1>3 DEF ToSet
<1>5. Beginning(Execution(p, x), n) = [branches |-> SubSeq(s, 1, n)]
  BY DEF Beginning, s
<1> QED BY <1>1, <1>3, <1>4, <1>5 DEF Cut

\* What a job may leave in szd_execution.
LEMMA LaunchTypes ==
    ASSUME TypeOK, Launch
    PROVE  /\ lost \subseteq lost' /\ lost' \subseteq {"job", "tail"}
           /\ file' \in Files(program, lost')
           /\ lost' = {} => \E x \in NextInputs : file' = Execution(program, x)
<1>0. NextInputs \subseteq Inputs /\ program \in Programs
  BY SourceTyped DEF NextInputs, TypeOK
<1>1. CASE UNCHANGED lost /\ \E x \in NextInputs : file' = Execution(program, x)
  BY <1>0, <1>1, HeldFacts DEF TypeOK
<1>2. CASE lost' = lost \cup {"job"} /\ UNCHANGED file
  <2>1. lost \subseteq lost' /\ lost' # {}
    BY <1>2
  <2> QED BY <1>0, <1>2, <2>1, HeldFacts DEF TypeOK
<1>3. CASE /\ lost' = lost \cup {"tail"}
           /\ \E x \in NextInputs : \E n \in 0..(Len(program[x]) - 1) :
                 file' = Beginning(Execution(program, x), n)
  BY <1>0, <1>3, BeginningTyped DEF Files, TypeOK
<1> QED BY <1>1, <1>2, <1>3 DEF Launch

LEMMA SharedTypes ==
    ASSUME TypeOK, Calls, Listed, Aimed, Reset \/ RunProgram \/ Exit \/ RandomInput
    PROVE  TypeOK' /\ Calls'
<1>1. CASE Reset
  BY <1>1 DEF Reset, TypeOK, Calls, commandLine, loop
<1>2. CASE RunProgram
  <2>0. /\ UNCHANGED <<commandLine, at, frames, idxs, count, pos, dist_, walked, lucky>>
        /\ pc = "run" /\ pc' = "ran" /\ num_iters_' = num_iters_ + 1 /\ Launch
        /\ ex' = (IF at = 0 THEN ReadInto(file', ex) ELSE ex)
        /\ cur_ex' = (IF at = 0 THEN cur_ex ELSE ReadInto(file', cur_ex))
        /\ covered_' = covered_ \cup ToSet(Read'.branches)
        /\ found' = covered_' \ covered_
    BY <1>2 DEF RunProgram
  <2>1. /\ lost \subseteq lost' /\ lost' \subseteq {"job", "tail"}
        /\ file' \in Files(program, lost')
    BY <2>0, LaunchTypes
  <2>2. /\ Held(program, lost) \subseteq Held(program, lost')
        /\ Frames(program, lost) \subseteq Frames(program, lost')
    BY <2>1, HeldFacts DEF TypeOK
  <2>3. ex' \in Held(program, lost') /\ cur_ex' \in Held(program, lost')
    BY <2>0, <2>1, <2>2, ReadFacts DEF TypeOK
  <2>4. Read' \in Held(program, lost')
    BY <2>3 DEF Read
  <2>5. ToSet(Read'.branches) \subseteq Branches(program)
    BY <2>4, ExecPlaces DEF TypeOK
  <2>6. covered_' \subseteq Branches(program) /\ found' \subseteq Branches(program)
    BY <2>0, <2>5 DEF TypeOK
  <2>7. num_iters_' \in Nat
    BY <2>0 DEF TypeOK
  <2>8. frames' \in Seq(Frames(program, lost'))
    <3>1. \A S, T : S \subseteq T => Seq(S) \subseteq Seq(T)
      OBVIOUS
    <3> QED BY <2>0, <2>2, <3>1 DEF TypeOK
  <2>9. TypeOK'
    BY <2>0, <2>1, <2>2, <2>3, <2>6, <2>7, <2>8 DEF TypeOK, commandLine
  <2> QED BY <2>0, <2>9 DEF Calls, commandLine
<1>3. CASE Exit
  BY <1>3 DEF Exit, TypeOK, Calls, commandLine, loop
<1>4. CASE RandomInput
  BY <1>4 DEF RandomInput, Within, TypeOK, Calls, commandLine, loop, job
<1> QED BY <1>1, <1>2, <1>3, <1>4

LEMMA DfsTypes ==
    ASSUME TypeOK, Calls, Listed, Aimed, Dfs
    PROVE  TypeOK' /\ Calls'
<1>0. /\ UNCHANGED <<commandLine, job>> /\ strategy = "dfs" /\ pc \in {"ran", "search"}
      /\ pc' \in {"run", "search"}
  BY DEF Dfs, DfsStart, DfsForce, DfsUnsolvable, DfsRecurse, DfsReturn, Within, Goto, ForceAt
<1>1. CASE DfsStart
  <2>1. Frame(ex, 1, max_depth_) \in Frames(program, lost)
    BY FrameTyped DEF TypeOK
  <2>2. <<Frame(ex, 1, max_depth_)>> \in Seq(Frames(program, lost))
        /\ <<Frame(ex, 1, max_depth_)>> # <<>>
    BY <2>1
  <2> QED BY <1>0, <1>1, <2>2 DEF DfsStart, TypeOK, Calls, commandLine, job, Goto
<1>2. CASE DfsForce
  <2>1. frames # <<>> /\ Top.ex \in Held(program, lost)
    BY <1>2, TopTyped DEF Calls, DfsForce, Within
  <2>2. at' \in Nat /\ at' # 0
    <3>1. Recorded(program, Top.ex)
      BY <2>1, ExecRecorded DEF TypeOK
    <3> QED BY <1>2, <3>1 DEF DfsForce, ForceAt, DfsLoop, Recorded
  <2> QED BY <1>0, <1>2, <2>1, <2>2
         DEF DfsForce, ForceAt, TypeOK, Calls, commandLine, job, loop
<1>3. CASE DfsUnsolvable
  <2>1. frames # <<>> /\ Top.pos \in Nat
    BY <1>3, TopTyped DEF Calls, DfsUnsolvable, Within
  <2>a. Top.pos + 1 \in Nat
    BY <2>1
  <2>2. [Top EXCEPT !.pos = Top.pos + 1] \in Frames(program, lost)
    BY <2>1, <2>a, TopTyped
  <2>3. frames' \in Seq(Frames(program, lost)) /\ frames' # <<>>
    BY <1>3, <2>1, <2>2, WithLastFacts DEF DfsUnsolvable, WithTop, TypeOK
  <2> QED BY <1>0, <1>3, <2>3 DEF DfsUnsolvable, TypeOK, Calls, commandLine, job, Goto
<1>4. CASE DfsRecurse
  <2>1. frames # <<>> /\ Top.pos \in Nat /\ Top.bound \in Int
    <3>1. strategy = "dfs" /\ pc = "ran" /\ at > 0
      BY <1>4 DEF DfsRecurse, Within
    <3>2. at # 0
      BY <3>1 DEF TypeOK
    <3> QED BY <3>1, <3>2, TopTyped DEF Calls
  <2>a. Top.pos + 1 \in Nat /\ Top.bound - 1 \in Int /\ at + 1 \in Nat
    BY <2>1 DEF TypeOK
  <2>2. /\ [Top EXCEPT !.pos = Top.pos + 1] \in Frames(program, lost)
        /\ [Top EXCEPT !.pos = Top.pos + 1, !.bound = Top.bound - 1] \in Frames(program, lost)
        /\ Frame(cur_ex, at + 1, Top.bound - 1) \in Frames(program, lost)
    BY <2>1, <2>a, TopTyped, FrameTyped DEF TypeOK
  <2>3. /\ WithTop([Top EXCEPT !.pos = Top.pos + 1]) \in Seq(Frames(program, lost)) \ {<<>>}
        /\ WithTop([Top EXCEPT !.pos = Top.pos + 1, !.bound = Top.bound - 1])
              \in Seq(Frames(program, lost)) \ {<<>>}
    BY <2>1, <2>2, WithLastFacts DEF WithTop, TypeOK
  <2>4. frames' \in Seq(Frames(program, lost)) /\ frames' # <<>>
    BY <1>4, <2>2, <2>3, AppendFacts DEF DfsRecurse
  <2>5. cur_ex' \in Held(program, lost)
    BY <1>4, HeldFacts DEF DfsRecurse, TypeOK
  <2> QED BY <1>0, <1>4, <2>4, <2>5 DEF DfsRecurse, TypeOK, Calls, commandLine, job, Goto
<1>5. CASE DfsReturn
  <2>1. frames # <<>>
    BY <1>5 DEF Calls, DfsReturn, Within
  <2>a. cur_ex' \in Held(program, lost)
    <3>1. Top.ex \in Held(program, lost) /\ NoExecution \in Held(program, lost)
      BY <2>1, TopTyped, HeldFacts DEF TypeOK
    <3> QED BY <1>5, <3>1 DEF DfsReturn
  <2>2. CASE Len(frames) > 1
    <3>1. frames' = Front(frames)
      BY <1>5, <2>2 DEF DfsReturn
    <3>2. frames' \in Seq(Frames(program, lost)) /\ frames' # <<>>
      <4>1. Front(frames) \in Seq(Frames(program, lost)) /\ Len(Front(frames)) = Len(frames) - 1
            /\ Len(frames) \in Nat
        BY <2>1, LastFacts DEF TypeOK
      <4> QED BY <2>2, <3>1, <4>1
    <3> QED BY <1>0, <1>5, <2>a, <3>2 DEF DfsReturn, TypeOK, Calls, commandLine, job, Goto
  <2>3. CASE ~(Len(frames) > 1)
    <3>1. Frame(ex, 1, max_depth_) \in Frames(program, lost)
      BY FrameTyped DEF TypeOK
    <3>2. frames' = <<Frame(ex, 1, max_depth_)>>
      BY <1>5, <2>3 DEF DfsReturn
    <3>3. frames' \in Seq(Frames(program, lost)) /\ frames' # <<>>
      BY <3>1, <3>2
    <3> QED BY <1>0, <1>5, <2>a, <3>3 DEF DfsReturn, TypeOK, Calls, commandLine, job, Goto
  <2> QED BY <2>2, <2>3
<1> QED BY <1>1, <1>2, <1>3, <1>4, <1>5 DEF Dfs

LEMMA ForcedPlace ==
    ASSUME NEW p \in Programs, NEW h, NEW e \in Held(p, h), NEW i \in Constraints(e)
    PROVE  i \in Nat /\ i # 0
BY ExecRecorded DEF Recorded

\* A strategy without active calls only changes its own loop.
LEMMA PlainTypes ==
    ASSUME TypeOK, Calls, UNCHANGED <<commandLine, job, frames, lucky, walked, dist_>>,
           strategy \notin {"dfs", "cfg"}, idxs' \subseteq Nat,
           ex' \in Held(program, lost), cur_ex' \in Held(program, lost),
           count' \in Int, pos' \in Nat, at' \in Nat,
           pc' \in {"reset", "run", "search", "step", "abort", "undefined"}
    PROVE  TypeOK' /\ Calls'
<1>1. frames' = <<>> /\ ~lucky'
  BY DEF Calls
<1>2. TypeOK'
  BY DEF TypeOK, commandLine, job
<1> QED BY <1>1, <1>2 DEF Calls, commandLine

LEMMA RandomTypes ==
    ASSUME TypeOK, Calls, Listed, Aimed, Random
    PROVE  TypeOK' /\ Calls'
<1>1. /\ UNCHANGED <<commandLine, job, frames, lucky, walked, dist_>> /\ strategy = "random"
      /\ idxs' = idxs /\ pos' = pos
  BY DEF Random, RandomRan, SolveRandomBranch, SolveRandomBranchFails, RandomReset,
         Within, loop
<1>2. count' \in Int
  BY DEF Random, RandomRan, SolveRandomBranch, SolveRandomBranchFails, RandomReset,
         TypeOK, loop
<1>3. ex' \in Held(program, lost) /\ cur_ex' \in Held(program, lost)
  BY DEF Random, RandomRan, SolveRandomBranch, SolveRandomBranchFails, RandomReset,
         TypeOK, loop, Swap
<1>4. at' \in Nat /\ pc' \in {"reset", "run", "search"}
  <2>1. CASE SolveRandomBranch
    <3>1. PICK i \in Constraints(ex) : ForceAt(ex, i)
      BY <2>1 DEF SolveRandomBranch
    <3> QED BY <3>1, ForcedPlace DEF ForceAt, TypeOK
  <2>2. CASE RandomRan \/ SolveRandomBranchFails \/ RandomReset
    BY <2>2 DEF RandomRan, SolveRandomBranchFails, RandomReset, Goto, TypeOK
  <2> QED BY <2>1, <2>2 DEF Random
<1>5. idxs' \subseteq Nat /\ pos' \in Nat /\ strategy \notin {"dfs", "cfg"}
  BY <1>1 DEF TypeOK
<1> QED BY <1>1, <1>2, <1>3, <1>4, <1>5, PlainTypes

LEMMA UniformTypes ==
    ASSUME TypeOK, Calls, Listed, Aimed, Uniform
    PROVE  TypeOK' /\ Calls'
<1>1. /\ UNCHANGED <<commandLine, job, frames, lucky, walked, dist_>>
      /\ strategy = "uniform_random" /\ idxs' = idxs
  BY DEF Uniform, UniformStart, UniformForce, UniformPass, UniformRan, UniformAgain, Within
<1>2. count' \in Int
  BY DEF Uniform, UniformStart, UniformForce, UniformPass, UniformRan, UniformAgain, TypeOK
<1>3. ex' \in Held(program, lost) /\ cur_ex' \in Held(program, lost) /\ pos' \in Nat
  BY DEF Uniform, UniformStart, UniformForce, UniformPass, UniformRan, UniformAgain, TypeOK,
         Swap
<1>4. at' \in Nat /\ pc' \in {"run", "search"}
  <2>1. CASE UniformForce
    <3>1. pos \in Constraints(ex) /\ ForceAt(ex, pos)
      BY <2>1 DEF UniformForce, UniformLoop
    <3> QED BY <3>1 DEF ForceAt, TypeOK
  <2>2. CASE UniformStart \/ UniformPass \/ UniformRan \/ UniformAgain
    BY <2>2 DEF UniformStart, UniformPass, UniformRan, UniformAgain, Goto, TypeOK
  <2> QED BY <2>1, <2>2 DEF Uniform
<1>5. idxs' \subseteq Nat /\ strategy \notin {"dfs", "cfg"}
  BY <1>1 DEF TypeOK
<1> QED BY <1>1, <1>2, <1>3, <1>4, <1>5, PlainTypes

LEMMA HybridTypes ==
    ASSUME TypeOK, Calls, Listed, Aimed, Hybrid
    PROVE  TypeOK' /\ Calls'
<1>1. /\ UNCHANGED <<commandLine, job, frames, lucky, walked, dist_>> /\ strategy = "hybrid"
  BY DEF Hybrid, HybridStart, BeginStep, StepForce, StepUnsolvable, HybridRan,
         NextLocalSearch, HybridReset, Within, loop
<1>2. count' \in Int /\ pos' \in Nat
  BY Limits DEF Hybrid, HybridStart, BeginStep, StepForce, StepUnsolvable, HybridRan,
         NextLocalSearch, HybridReset, TypeOK, loop
<1>3. ex' \in Held(program, lost) /\ cur_ex' \in Held(program, lost)
  <2>1. NoExecution \in Held(program, lost)
    BY HeldFacts DEF TypeOK
  <2> QED BY <2>1 DEF Hybrid, HybridStart, BeginStep, StepForce, StepUnsolvable, HybridRan,
         NextLocalSearch, HybridReset, TypeOK, loop, TakeStep
<1>4. idxs' \subseteq Nat
  <2>1. CASE BeginStep
    <3>1. StepRange \subseteq Nat
      BY DEF StepRange, TypeOK
    <3> QED BY <2>1, <3>1 DEF BeginStep
  <2> QED BY <2>1 DEF Hybrid, HybridStart, StepForce, StepUnsolvable, HybridRan,
         NextLocalSearch, HybridReset, TypeOK, loop
<1>5. at' \in Nat /\ pc' \in {"reset", "run", "search", "step", "abort"}
  <2>1. CASE StepForce
    BY <2>1 DEF StepForce, ForceAt, TypeOK
  <2>2. CASE HybridStart \/ BeginStep \/ StepUnsolvable \/ HybridRan
             \/ NextLocalSearch \/ HybridReset
    BY <2>2 DEF HybridStart, BeginStep, StepUnsolvable, HybridRan,
         NextLocalSearch, HybridReset, Goto, TypeOK
  <2> QED BY <2>1, <2>2 DEF Hybrid
<1>6. strategy \notin {"dfs", "cfg"}
  BY <1>1
<1> QED BY <1>1, <1>2, <1>3, <1>4, <1>5, <1>6, PlainTypes

LEMMA ScoredTypes ==
    ASSUME TypeOK, Calls, Listed, Aimed, NEW name \in {"cfg_baseline", "cfg"}, Scored(name)
    PROVE  TypeOK' /\ Calls'
<1>1. /\ UNCHANGED <<commandLine, job, ex, frames, lucky, walked, pos, dist_>>
      /\ frames = <<>> /\ strategy = name
  BY DEF Scored, ScoredForce, ScoredUnsolvable, ScoredReset, ScoredLoop, Within, loop
<1>2. count' \in Int /\ idxs' \subseteq Nat
  <2>1. count' \in {count, count - 1}
    BY DEF Scored, ScoredForce, ScoredUnsolvable, ScoredReset, loop
  <2>2. idxs' \subseteq idxs
    BY DEF Scored, ScoredForce, ScoredUnsolvable, ScoredReset, loop
  <2> QED BY <2>1, <2>2 DEF TypeOK
<1>3. at' \in Nat /\ pc' \in {"reset", "run", "search"}
  <2>1. CASE ScoredForce(name)
    BY <2>1 DEF ScoredForce, ForceAt, TypeOK
  <2>2. CASE ScoredUnsolvable(name) \/ ScoredReset(name)
    BY <2>2 DEF ScoredUnsolvable, ScoredReset, Goto, TypeOK
  <2> QED BY <2>1, <2>2 DEF Scored
<1>a. cur_ex' \in Held(program, lost)
  <2>1. cur_ex' \in {cur_ex, NoExecution}
    BY DEF Scored, ScoredForce, ScoredUnsolvable, ScoredReset, loop
  <2> QED BY <2>1, HeldFacts DEF TypeOK
<1>4. TypeOK'
  BY <1>1, <1>2, <1>3, <1>a DEF TypeOK, commandLine, job
<1> QED BY <1>1, <1>4 DEF Calls, commandLine

LEMMA ReadTyped == ASSUME TypeOK PROVE Read \in Held(program, lost)
BY DEF TypeOK, Read

LEMMA BaselineTypes ==
    ASSUME TypeOK, Calls, Listed, Aimed, BaselineRan
    PROVE  TypeOK' /\ Calls'
<1>1. /\ UNCHANGED <<commandLine, job, dist_>> /\ strategy = "cfg_baseline"
      /\ \/ DoSearch(Read)
         \/ Goto("search") /\ UNCHANGED <<ex, cur_ex, frames, idxs, count, pos, walked, lucky>>
  BY DEF BaselineRan, Within
<1>2. frames = <<>> /\ ~lucky /\ NoExecution \in Held(program, lost)
  BY <1>1, HeldFacts DEF Calls, TypeOK
<1>3. /\ frames' = <<>> /\ lucky' = FALSE /\ ex' \in Held(program, lost) /\ idxs' \subseteq Nat
      /\ cur_ex' \in Held(program, lost) /\ walked' \in Held(program, lost)
      /\ count' \in Int /\ pos' = pos /\ at' = at /\ pc' \in {"search", "undefined"}
  <2>1. CASE DoSearch(Read)
    <3>1. /\ ex' = Read /\ idxs' \subseteq Nat /\ count' \in Nat /\ frames' = <<>>
          /\ cur_ex' = NoExecution /\ walked' = NoExecution /\ lucky' = FALSE
          /\ pos' = pos /\ pc' \in {"search", "undefined"} /\ at' = at
      BY <1>1, <2>1, ReadTyped, DoSearchKeeps
    <3>2. count' \in Int /\ ex' \in Held(program, lost)
      BY <3>1, ReadTyped
    <3> QED BY <1>2, <3>1, <3>2
  <2>2. CASE Goto("search") /\ UNCHANGED <<ex, cur_ex, frames, idxs, count, pos, walked, lucky>>
    BY <1>2, <2>2 DEF Goto, TypeOK
  <2> QED BY <1>1, <2>1, <2>2
<1>4. <<>> \in Seq(Frames(program, lost))
  OBVIOUS
<1>5. TypeOK'
  BY <1>1, <1>3, <1>4 DEF TypeOK, commandLine, job
<1> QED BY <1>1, <1>3, <1>5 DEF Calls, commandLine

\* The branch on the other side of a constraint that is on the path.
LEMMA ForcedBranch ==
    ASSUME NEW p \in Programs, NEW h, NEW e \in Held(p, h), Scorable(e),
           NEW i \in Constraints(e)
    PROVE  /\ e.constraints_idx[i] \in 1..Len(e.branches)
           /\ BranchAt(e, i) \in Branches(p) /\ Paired(BranchAt(e, i)) \in Branches(p)
<1>1. e.branches \in Seq(Branches(p))
  BY ExecRecorded DEF Recorded
<1>2. e.constraints_idx[i] \in 1..Len(e.branches)
  BY <1>1 DEF Scorable
<1>3. BranchAt(e, i) \in Branches(p)
  BY <1>1, <1>2 DEF BranchAt
<1> QED BY <1>2, <1>3 DEF Paired, Branches

LEMMA ForcedTyped ==
    ASSUME TypeOK, Listed, Aimed, CfgForced
    PROVE  /\ at \in Constraints(ex) /\ at # 0
           /\ Paired(BranchAt(ex, at)) \in Branches(program)
           /\ ForcedDistance \in 0..kInfiniteDistance
           /\ ex.constraints_idx[at] \in Nat
<1>1. pc = "ran" /\ at > 0 /\ frames = <<>> /\ at \in Nat /\ strategy = "cfg"
  BY DEF CfgForced, Within, TypeOK
<1>2. at # 0
  BY <1>1
<1>3. at \in Constraints(ex)
  BY <1>1, <1>2 DEF Aimed, Source
<1>a. Scorable(ex)
  BY <1>1, <1>2 DEF Listed
<1>4. ex.constraints_idx[at] \in 1..Len(ex.branches) /\ Paired(BranchAt(ex, at)) \in Branches(program)
  BY <1>3, <1>a, ForcedBranch DEF TypeOK
<1> QED BY <1>2, <1>3, <1>4 DEF TypeOK, ForcedDistance

LEMMA DecrementedTyped ==
    ASSUME TypeOK, frames # <<>>
    PROVE  Decremented \in 0..(UintSize - 1) /\ Decremented \in Int
<1>1. Top.bound \in Int /\ UintSize \in Nat /\ UintSize > 0
  <2>1. Top.bound \in Int
    BY TopTyped
  <2>2. UintSize \in Nat /\ kInfiniteDistance \in Nat /\ UintSize > kInfiniteDistance
    BY Limits
  <2> QED BY <2>1, <2>2
<1> DEFINE b == Top.bound - 1
<1>2. b \in Int
  BY <1>1
<1> HIDE DEF b
<1>3. b % UintSize \in 0..(UintSize - 1)
  BY <1>1, <1>2
<1> QED BY <1>1, <1>3 DEF b, Decremented

LEMMA SucceedTypes ==
    ASSUME TypeOK, UNCHANGED <<commandLine, job>>, NEW e \in Held(program, lost), Succeed(e),
           strategy = "cfg"
    PROVE  TypeOK' /\ Calls'
<1>1. dist_' = DistancesFrom(program, covered_, kInfiniteDistance) /\ DoSearch(e)
  BY DEF Succeed, UpdateBranchDistances
<1>2. dist_' \in [Branches(program) -> 0..kInfiniteDistance]
  BY <1>1, DistancesFacts DEF TypeOK
<1>3. /\ ex' = e /\ idxs' \subseteq Nat /\ count' \in Nat /\ frames' = <<>>
      /\ cur_ex' = NoExecution /\ walked' = NoExecution /\ lucky' = FALSE
      /\ pos' = pos /\ pc' \in {"search", "undefined"} /\ at' = at
  BY <1>1, DoSearchKeeps
<1>4. <<>> \in Seq(Frames(program, lost)) /\ NoExecution \in Held(program, lost)
  BY HeldFacts DEF TypeOK
<1>5. /\ ex' \in Held(program, lost) /\ cur_ex' \in Held(program, lost)
      /\ walked' \in Held(program, lost) /\ lucky' \in BOOLEAN
      /\ count' \in Int /\ pos' \in Nat /\ at' \in Nat
      /\ frames' \in Seq(Frames(program, lost))
  <2>1. pos \in Nat /\ at \in Nat
    BY DEF TypeOK
  <2>2. lucky' \in BOOLEAN
    BY <1>3
  <2> QED BY <1>3, <1>4, <2>1, <2>2
<1>6. TypeOK'
  BY <1>2, <1>3, <1>5 DEF TypeOK, commandLine, job
<1> QED BY <1>3, <1>6 DEF Calls, commandLine

\* The heuristic's search goes on with other calls.
LEMMA WalkTypes ==
    ASSUME TypeOK, Calls, UNCHANGED <<commandLine, job, ex, idxs, count, pos, dist_>>,
           strategy = "cfg", frames' \in Seq(Frames(program, lost)), lucky' \in BOOLEAN,
           frames' = <<>> => ~lucky', at' \in Nat,
           cur_ex' \in Held(program, lost), walked' \in Held(program, lost),
           pc' \in {"search", "abort"} \/ (pc' = "run" /\ at' # 0)
    PROVE  TypeOK' /\ Calls'
<1>1. TypeOK'
  BY DEF TypeOK, commandLine, job
<1> QED BY <1>1 DEF Calls, commandLine

LEMMA ReturnTypes ==
    ASSUME TypeOK, Calls, UNCHANGED <<commandLine, job>>, strategy = "cfg",
           frames # <<>>, Return
    PROVE  TypeOK' /\ Calls'
<1>1. CASE Len(frames) = 1 /\ lucky
  <2>1. Succeed(walked) /\ walked \in Held(program, lost)
    BY <1>1 DEF Return, TypeOK
  <2> QED BY <2>1, SucceedTypes
<1>2. CASE ~(Len(frames) = 1 /\ lucky)
  <2>1. frames' = Front(frames) /\ Goto("search")
        /\ UNCHANGED <<ex, idxs, count, pos, dist_, walked, lucky>>
    BY <1>2 DEF Return
  <2>2. Front(frames) \in Seq(Frames(program, lost)) /\ Len(Front(frames)) = Len(frames) - 1
        /\ Len(frames) \in Nat
    BY LastFacts DEF TypeOK
  <2>3. frames' = <<>> => ~lucky'
    BY <1>2, <2>1, <2>2
  <2>4. pc' = "search" /\ at' \in Nat /\ lucky' \in BOOLEAN
    BY <2>1 DEF Goto, TypeOK
  <2>5. cur_ex' \in Held(program, lost) /\ walked' \in Held(program, lost)
    BY <1>2, <2>1, HeldFacts DEF Return, TypeOK
  <2> QED BY <2>1, <2>2, <2>3, <2>4, <2>5, WalkTypes
<1> QED BY <1>1, <1>2

LEMMA CfgTypes ==
    ASSUME TypeOK, Calls, Listed, Aimed, CfgHeuristic
    PROVE  TypeOK' /\ Calls'
<1>1. CASE Scored("cfg")
  BY <1>1, ScoredTypes
<1>2. CASE CfgStart
  <2>1. /\ UNCHANGED <<commandLine, job>> /\ strategy = "cfg" /\ DoSearch(ex)
        /\ pc = "ran" /\ at = 0
    BY <1>2 DEF CfgStart, Within
  <2>2. dist_' \in [Branches(program) -> 0..kInfiniteDistance]
    BY <1>2, DistancesFacts DEF TypeOK, CfgStart, UpdateBranchDistances
  <2>3. /\ ex' = ex /\ idxs' \subseteq Nat /\ count' \in Nat /\ frames' = <<>>
        /\ cur_ex' = NoExecution /\ walked' = NoExecution /\ lucky' = FALSE
        /\ pos' = pos /\ pc' \in {"search", "undefined"} /\ at' = at
    BY <2>1, DoSearchKeeps DEF TypeOK
  <2>4. <<>> \in Seq(Frames(program, lost)) /\ NoExecution \in Held(program, lost)
    BY HeldFacts DEF TypeOK
  <2>5. /\ ex' \in Held(program, lost) /\ cur_ex' \in Held(program, lost)
        /\ walked' \in Held(program, lost) /\ lucky' \in BOOLEAN
        /\ count' \in Int /\ pos' \in Nat /\ at' \in Nat
        /\ frames' \in Seq(Frames(program, lost))
    <3>1. pos \in Nat /\ at \in Nat /\ ex \in Held(program, lost)
      BY DEF TypeOK
    <3>2. lucky' \in BOOLEAN
      BY <2>3
    <3> QED BY <2>3, <2>4, <3>1, <3>2
  <2>6. TypeOK'
    BY <2>1, <2>2, <2>3, <2>5 DEF TypeOK, commandLine, job
  <2> QED BY <2>1, <2>3, <2>6 DEF Calls, commandLine
<1>3. CASE CfgSucceeds
  <2>1. UNCHANGED <<commandLine, job>> /\ strategy = "cfg" /\ Succeed(cur_ex)
    BY <1>3 DEF CfgSucceeds, CfgForced, Within
  <2> QED BY <2>1, SucceedTypes DEF TypeOK
<1>4. CASE CfgMispredicts
  <2>1. /\ UNCHANGED <<commandLine, job, ex, idxs, count, pos, dist_>> /\ strategy = "cfg"
        /\ UNCHANGED <<frames, lucky, cur_ex, walked>> /\ pc' = "search" /\ at' = at
    BY <1>4 DEF CfgMispredicts, CfgForced, Within, Continue, Goto
  <2>2. /\ frames' \in Seq(Frames(program, lost)) /\ lucky' \in BOOLEAN /\ at' \in Nat
        /\ (frames' = <<>> => ~lucky')
        /\ cur_ex' \in Held(program, lost) /\ walked' \in Held(program, lost)
    BY <2>1 DEF TypeOK, Calls
  <2> QED BY <2>1, <2>2, WalkTypes
<1>5. CASE CfgWalk
  <2>1. CfgForced /\ UNCHANGED <<commandLine, job>> /\ strategy = "cfg" /\ frames = <<>>
    BY <1>5 DEF CfgWalk, CfgForced, Within
  <2>2. ForcedDistance \in 0..kInfiniteDistance /\ ex.constraints_idx[at] \in Nat
    BY <2>1, ForcedTyped
  <2>3. <<Frame(cur_ex, ex.constraints_idx[at], ForcedDistance - 1)>> \in Seq(Frames(program, lost))
    <3>1. ForcedDistance - 1 \in Int
      BY <2>2
    <3>2. Frame(cur_ex, ex.constraints_idx[at], ForcedDistance - 1) \in Frames(program, lost)
      BY <2>2, <3>1, FrameTyped DEF TypeOK
    <3> QED BY <3>2
  <2>4. CASE ForcedDistance > 0
    <3>1. /\ frames' = <<Frame(cur_ex, ex.constraints_idx[at], ForcedDistance - 1)>>
          /\ walked' = cur_ex /\ lucky' = (found # {}) /\ cur_ex' = NoExecution
          /\ Goto("search") /\ UNCHANGED <<ex, idxs, count, pos, dist_>>
      BY <1>5, <2>4 DEF CfgWalk
    <3>2. /\ frames' \in Seq(Frames(program, lost)) /\ frames' # <<>> /\ lucky' \in BOOLEAN
          /\ pc' = "search" /\ at' \in Nat
          /\ cur_ex' \in Held(program, lost) /\ walked' \in Held(program, lost)
      BY <2>3, <3>1, HeldFacts DEF Goto, TypeOK
    <3> QED BY <2>1, <3>1, <3>2, WalkTypes
  <2>5. CASE ~(ForcedDistance > 0)
    <3>1. /\ UNCHANGED <<ex, idxs, count, pos, dist_, frames, lucky, cur_ex, walked>>
          /\ pc' \in {"search", "abort"} /\ at' = at
      BY <1>5, <2>5 DEF CfgWalk, Continue, Goto, loop
    <3>2. /\ frames' \in Seq(Frames(program, lost)) /\ lucky' \in BOOLEAN /\ at' \in Nat
          /\ (frames' = <<>> => ~lucky')
          /\ cur_ex' \in Held(program, lost) /\ walked' \in Held(program, lost)
      BY <3>1 DEF TypeOK, Calls
    <3> QED BY <2>1, <3>1, <3>2, WalkTypes
  <2> QED BY <2>4, <2>5
<1>6. CASE WalkOn
  <2>1. /\ UNCHANGED <<commandLine, job, ex, idxs, count, pos, dist_, lucky, cur_ex, walked>>
        /\ strategy = "cfg" /\ frames # <<>> /\ pc' = "search" /\ at' = at
        /\ frames' = Append(WithTop([Top EXCEPT !.force = TRUE]),
                            Frame(Top.ex, Top.pos + 1, Decremented))
    BY <1>6 DEF WalkOn, Walking, Within, Goto
  <2>2. /\ Top.ex \in Held(program, lost) /\ Top.pos + 1 \in Nat /\ Decremented \in Int
        /\ [Top EXCEPT !.force = TRUE] \in Frames(program, lost)
    <3>1. /\ Top.ex \in Held(program, lost) /\ Top.pos \in Nat
          /\ [Top EXCEPT !.force = TRUE] \in Frames(program, lost)
      BY <2>1, TopTyped
    <3>2. Top.pos + 1 \in Nat
      BY <3>1
    <3> QED BY <2>1, <3>1, <3>2, DecrementedTyped
  <2>3. WithTop([Top EXCEPT !.force = TRUE]) \in Seq(Frames(program, lost))
    BY <2>1, <2>2, WithLastFacts DEF WithTop, TypeOK
  <2>4. Frame(Top.ex, Top.pos + 1, Decremented) \in Frames(program, lost)
    BY <2>2, FrameTyped
  <2>5. frames' \in Seq(Frames(program, lost)) /\ frames' # <<>>
    BY <2>1, <2>3, <2>4, AppendFacts
  <2>6. /\ lucky' \in BOOLEAN /\ at' \in Nat
        /\ cur_ex' \in Held(program, lost) /\ walked' \in Held(program, lost)
    BY <2>1 DEF TypeOK
  <2> QED BY <2>1, <2>5, <2>6, WalkTypes
<1>7. CASE WalkForce
  <2>1. /\ UNCHANGED <<commandLine, job, loop>> /\ strategy = "cfg" /\ frames # <<>>
        /\ \E c \in FollowingConstraints : ForceAt(Top.ex, c)
    BY <1>7 DEF WalkForce, Walking, Within
  <2>2. PICK c \in Constraints(Top.ex) : ForceAt(Top.ex, c)
    BY <2>1 DEF FollowingConstraints
  <2>3. pc' = "run" /\ at' \in Nat /\ at' # 0
    <3>1. Top.ex \in Held(program, lost)
      BY <2>1, TopTyped
    <3> QED BY <2>2, <3>1, ForcedPlace DEF ForceAt, TypeOK
  <2>4. /\ UNCHANGED <<ex, idxs, count, pos, dist_, frames, lucky>>
        /\ frames' \in Seq(Frames(program, lost)) /\ lucky' \in BOOLEAN /\ frames' # <<>>
        /\ cur_ex' \in Held(program, lost) /\ walked' \in Held(program, lost)
    BY <2>1 DEF loop, TypeOK
  <2> QED BY <2>1, <2>3, <2>4, WalkTypes
<1>8. CASE WalkReturn
  BY <1>8, ReturnTypes DEF WalkReturn, Walking, Within
<1>9. CASE WalkRan
  <2>1. UNCHANGED <<commandLine, job>> /\ strategy = "cfg" /\ frames # <<>>
    BY <1>9 DEF WalkRan, Within
  <2>2. CASE found # {}
    <3>1. Succeed(cur_ex)
      BY <1>9, <2>2 DEF WalkRan
    <3> QED BY <2>1, <3>1, SucceedTypes DEF TypeOK
  <2>3. CASE found = {} /\ ~Predicted
    <3>1. Return
      BY <1>9, <2>3 DEF WalkRan
    <3> QED BY <2>1, <3>1, ReturnTypes
  <2>4. CASE found = {} /\ Predicted
    <3>1. /\ frames' = WithTop(Frame(cur_ex, Top.pos + 1, Decremented))
          /\ pc' = "search" /\ at' = at /\ cur_ex' = NoExecution
          /\ UNCHANGED <<ex, idxs, count, pos, dist_, walked, lucky>>
      BY <1>9, <2>4 DEF WalkRan, Goto
    <3>2. Frame(cur_ex, Top.pos + 1, Decremented) \in Frames(program, lost)
      <4>1. Top.pos + 1 \in Nat /\ Decremented \in Int
        <5>1. Top.pos \in Nat
          BY <2>1, TopTyped
        <5>2. Top.pos + 1 \in Nat
          BY <5>1
        <5> QED BY <2>1, <5>2, DecrementedTyped
      <4> QED BY <4>1, FrameTyped DEF TypeOK
    <3>3. frames' \in Seq(Frames(program, lost)) /\ frames' # <<>>
      BY <2>1, <3>1, <3>2, WithLastFacts DEF WithTop, TypeOK
    <3>4. /\ lucky' \in BOOLEAN /\ at' \in Nat
          /\ cur_ex' \in Held(program, lost) /\ walked' \in Held(program, lost)
      BY <3>1, HeldFacts DEF TypeOK
    <3> QED BY <2>1, <3>1, <3>3, <3>4, WalkTypes
  <2> QED BY <2>2, <2>3, <2>4
<1> QED BY <1>1, <1>2, <1>3, <1>4, <1>5, <1>6, <1>7, <1>8, <1>9 DEF CfgHeuristic

LEMMA NextKeeps == ASSUME Next PROVE UNCHANGED commandLine
<1>1. CASE Reset \/ RunProgram \/ Exit \/ RandomInput
  BY <1>1 DEF Reset, RunProgram, Exit, RandomInput, Within
<1>2. CASE Dfs \/ Random \/ Uniform
  BY <1>2 DEF Dfs, DfsStart, DfsForce, DfsUnsolvable, DfsRecurse, DfsReturn, Random, RandomRan,
     SolveRandomBranch, SolveRandomBranchFails, RandomReset, Uniform, UniformStart,
     UniformForce, UniformPass, UniformRan, UniformAgain, Within
<1>3. CASE Hybrid
  BY <1>3 DEF Hybrid, HybridStart, BeginStep, StepForce, StepUnsolvable, HybridRan,
     NextLocalSearch, HybridReset, Within
<1>4. CASE Scored("cfg_baseline") \/ Scored("cfg") \/ BaselineRan
  BY <1>4 DEF Scored, ScoredForce, ScoredUnsolvable, ScoredReset, ScoredLoop, BaselineRan, Within
<1>5. CASE CfgStart \/ CfgSucceeds \/ CfgMispredicts \/ CfgWalk
  BY <1>5 DEF CfgStart, CfgSucceeds, CfgMispredicts, CfgWalk, CfgForced, Within
<1>6. CASE WalkOn \/ WalkForce \/ WalkReturn \/ WalkRan
  BY <1>6 DEF WalkOn, WalkForce, WalkReturn, WalkRan, Walking, Within
<1> QED BY <1>1, <1>2, <1>3, <1>4, <1>5, <1>6 DEF Next, CfgHeuristic

\* Only a run changes how runs failed.
LEMMA LostGrows == ASSUME TypeOK, Next PROVE lost \subseteq lost'
<1>1. CASE Reset \/ Exit \/ RandomInput
  BY <1>1 DEF Reset, Exit, RandomInput, Within, job
<1>2. CASE Dfs \/ Random \/ Uniform
  BY <1>2 DEF Dfs, DfsStart, DfsForce, DfsUnsolvable, DfsRecurse, DfsReturn, Random, RandomRan,
     SolveRandomBranch, SolveRandomBranchFails, RandomReset, Uniform, UniformStart,
     UniformForce, UniformPass, UniformRan, UniformAgain, Within, job
<1>3. CASE Hybrid
  BY <1>3 DEF Hybrid, HybridStart, BeginStep, StepForce, StepUnsolvable, HybridRan,
     NextLocalSearch, HybridReset, Within, job
<1>4. CASE Scored("cfg_baseline") \/ Scored("cfg") \/ BaselineRan
  BY <1>4 DEF Scored, ScoredForce, ScoredUnsolvable, ScoredReset, ScoredLoop, BaselineRan,
     Within, job
<1>5. CASE CfgStart \/ CfgSucceeds \/ CfgMispredicts \/ CfgWalk
  BY <1>5 DEF CfgStart, CfgSucceeds, CfgMispredicts, CfgWalk, CfgForced, Within, job
<1>6. CASE WalkOn \/ WalkForce \/ WalkReturn \/ WalkRan
  BY <1>6 DEF WalkOn, WalkForce, WalkReturn, WalkRan, Walking, Within, job
<1>7. CASE RunProgram
  BY <1>7, LaunchTypes DEF RunProgram
<1> QED BY <1>1, <1>2, <1>3, <1>4, <1>5, <1>6, <1>7 DEF Next, CfgHeuristic

LEMMA ActionStrategy ==
    /\ RandomInput => strategy = "random_input"
    /\ Dfs => strategy = "dfs"
    /\ Random => strategy = "random"
    /\ Uniform => strategy = "uniform_random"
    /\ Hybrid => strategy = "hybrid"
    /\ BaselineRan => strategy = "cfg_baseline"
    /\ \A name : Scored(name) => strategy = name
    /\ CfgHeuristic => strategy = "cfg"
<1>1. \A name : Scored(name) => strategy = name
  BY DEF Scored, ScoredForce, ScoredUnsolvable, ScoredReset, ScoredLoop, Within
<1>2. Dfs => strategy = "dfs"
  BY DEF Dfs, DfsStart, DfsForce, DfsUnsolvable, DfsRecurse, DfsReturn, Within
<1>3. Random => strategy = "random"
  BY DEF Random, RandomRan, SolveRandomBranch, SolveRandomBranchFails, RandomReset, Within
<1>4. Uniform => strategy = "uniform_random"
  BY DEF Uniform, UniformStart, UniformForce, UniformPass, UniformRan, UniformAgain, Within
<1>5. Hybrid => strategy = "hybrid"
  BY DEF Hybrid, HybridStart, BeginStep, StepForce, StepUnsolvable, HybridRan,
     NextLocalSearch, HybridReset, Within
<1>6. CfgHeuristic => strategy = "cfg"
  BY <1>1 DEF CfgHeuristic, CfgStart, CfgSucceeds, CfgMispredicts, CfgWalk, CfgForced,
     WalkOn, WalkForce, WalkReturn, WalkRan, Walking, Within
<1>7. /\ RandomInput => strategy = "random_input"
      /\ BaselineRan => strategy = "cfg_baseline"
  BY DEF RandomInput, BaselineRan, Within
<1> QED BY <1>1, <1>2, <1>3, <1>4, <1>5, <1>6, <1>7

LEMMA InitInv == Init => Inv
<1> SUFFICES ASSUME Init PROVE Inv
  OBVIOUS
<1>1. max_depth_ \in Nat
  BY StrategiesAssumption DEF Init
<1>2. dist_ \in [Branches(program) -> 0..kInfiniteDistance]
  BY Limits DEF Init
<1>3. NoExecution \in Held(program, lost) /\ <<>> \in Seq(Frames(program, lost))
  BY HeldFacts DEF Init
<1>4. /\ program \in Programs /\ pc = "reset" /\ at = 0 /\ ex = NoExecution
      /\ cur_ex = NoExecution /\ covered_ = {} /\ found = {} /\ num_iters_ = 0
      /\ file = NoExecution /\ lost = {} /\ frames = <<>> /\ idxs = {} /\ count = 0 /\ pos = 1
      /\ walked = NoExecution /\ lucky = FALSE
  BY DEF Init
<1>d. /\ lost \subseteq {"job", "tail"} /\ lucky \in BOOLEAN
      /\ file \in Files(program, lost)
  BY <1>4 DEF Files, Execs
<1>a. at \in Nat /\ num_iters_ \in Nat /\ count \in Int /\ pos \in Nat
  BY <1>4
<1>b. ex \in Held(program, lost) /\ cur_ex \in Held(program, lost) /\ walked \in Held(program, lost)
      /\ frames \in Seq(Frames(program, lost))
  BY <1>3, <1>4
<1>c. covered_ \subseteq Branches(program) /\ found \subseteq Branches(program)
      /\ idxs \subseteq Nat
  BY <1>4
<1>5. TypeOK
  BY <1>1, <1>2, <1>4, <1>a, <1>b, <1>c, <1>d DEF TypeOK
<1>6. Calls /\ Aimed /\ Listed
  BY <1>4 DEF Calls, Aimed, Listed
<1> QED BY <1>5, <1>6 DEF Inv

\* A forced run aims at a constraint of the execution it is solved from.
LEMMA ForcedAimed ==
    ASSUME NEW e, NEW i \in Constraints(e), ForceAt(e, i), Source' = e
    PROVE  Aimed'
BY DEF ForceAt, Aimed

LEMMA SameSource ==
    ASSUME UNCHANGED <<ex, frames>>
    PROVE  Source' = Source
BY DEF Source

\* Where the program is not run, nothing but a forced run is aimed.
LEMMA NotAimed ==
    ASSUME pc' \notin {"run", "ran"} \/ (pc' = "run" /\ at' = 0)
    PROVE  Aimed'
BY DEF Aimed

LEMMA AimedStep ==
    ASSUME TypeOK, Calls, Listed, Aimed, Next
    PROVE  Aimed'
<1>1. CASE RunProgram
  <2>1. /\ pc = "run" /\ at' = at /\ frames' = frames /\ program' = program /\ Launch
        /\ ex' = (IF at = 0 THEN ReadInto(file', ex) ELSE ex)
        /\ cur_ex' = (IF at = 0 THEN cur_ex ELSE ReadInto(file', cur_ex))
    BY <1>1 DEF RunProgram, commandLine
  <2>2. at # 0 => Source' = Source
    BY <2>1, SameSource
  <2>3. NextInputs' = NextInputs
    BY <2>1, <2>2 DEF NextInputs
  <2>4. ASSUME lost' = {} PROVE \E x \in NextInputs : Read' = Execution(program, x)
    <3>1. PICK x \in NextInputs : file' = Execution(program, x)
      BY <2>1, <2>4, LaunchTypes
    <3>2. /\ lost \subseteq lost' /\ file' \in Files(program, lost')
          /\ Held(program, lost) \subseteq Held(program, lost')
      BY <2>1, LaunchTypes, HeldFacts DEF TypeOK
    <3>3. x \in Inputs /\ program \in Programs
      BY SourceTyped DEF NextInputs, TypeOK
    <3>4. ReadInto(file', ex) = file' /\ ReadInto(file', cur_ex) = file'
      BY <3>1, <3>2, <3>3, ReadFacts DEF TypeOK
    <3> QED BY <2>1, <3>1, <3>4 DEF Read
  <2>5. at # 0 => at \in Constraints(Source)
    BY <2>1 DEF Aimed
  <2> QED BY <2>1, <2>2, <2>3, <2>4, <2>5 DEF Aimed
<1>2. CASE Reset \/ RandomInput
  BY <1>2, NotAimed DEF Reset, RandomInput
<1>3. CASE Exit
  BY <1>3, NotAimed DEF Exit
<1>4. CASE Dfs
  <2>1. CASE DfsForce
    <3>1. frames # <<>> /\ UNCHANGED <<ex, frames>>
      BY <2>1 DEF Calls, DfsForce, Within, loop
    <3>2. Source' = Top.ex
      BY <3>1, SameSource, TopTyped
    <3> QED BY <2>1, <3>2, ForcedAimed DEF DfsForce, DfsLoop
  <2>2. CASE DfsStart \/ DfsUnsolvable \/ DfsRecurse \/ DfsReturn
    <3>1. pc' = "search"
      BY <2>2 DEF DfsStart, DfsUnsolvable, DfsRecurse, DfsReturn, Goto
    <3> QED BY <3>1, NotAimed
  <2> QED BY <1>4, <2>1, <2>2 DEF Dfs
<1>5. CASE Random
  <2>1. CASE SolveRandomBranch
    <3>1. UNCHANGED <<ex, frames>> /\ strategy = "random"
      BY <2>1 DEF SolveRandomBranch, Within
    <3>2. Source' = ex
      BY <3>1, SameSource DEF Calls, Source
    <3> QED BY <2>1, <3>2, ForcedAimed DEF SolveRandomBranch
  <2>2. CASE RandomRan \/ SolveRandomBranchFails \/ RandomReset
    BY <2>2, NotAimed DEF RandomRan, SolveRandomBranchFails, RandomReset, Goto
  <2> QED BY <1>5, <2>1, <2>2 DEF Random
<1>6. CASE Uniform
  <2>1. CASE UniformForce
    <3>1. UNCHANGED <<ex, frames>> /\ strategy = "uniform_random"
      BY <2>1 DEF UniformForce, Within
    <3>2. Source' = ex
      BY <3>1, SameSource DEF Calls, Source
    <3> QED BY <2>1, <3>2, ForcedAimed DEF UniformForce, UniformLoop
  <2>2. CASE UniformStart \/ UniformPass \/ UniformRan \/ UniformAgain
    <3>1. pc' = "search"
      BY <2>2 DEF UniformStart, UniformPass, UniformRan, UniformAgain, Goto
    <3> QED BY <3>1, NotAimed
  <2> QED BY <1>6, <2>1, <2>2 DEF Uniform
<1>7. CASE Scored("cfg_baseline") \/ Scored("cfg")
  <2>1. PICK name \in {"cfg_baseline", "cfg"} : Scored(name)
    BY <1>7
  <2>2. CASE ScoredForce(name)
    <3>1. UNCHANGED <<ex, frames>> /\ frames = <<>>
      BY <2>2 DEF ScoredForce, ScoredLoop
    <3>2. Source' = ex
      BY <3>1, SameSource DEF Source
    <3>3. PICK i \in idxs : IsNext(i) /\ ForceAt(ex, i)
      BY <2>2 DEF ScoredForce
    <3>4. i \in Constraints(ex)
      BY <2>2, <3>3 DEF ScoredForce, ScoredLoop, Within, Listed
    <3> QED BY <3>2, <3>3, <3>4, ForcedAimed
  <2>3. CASE ScoredUnsolvable(name) \/ ScoredReset(name)
    BY <2>3, NotAimed DEF ScoredUnsolvable, ScoredReset, Goto
  <2> QED BY <2>1, <2>2, <2>3 DEF Scored
<1>8. CASE Hybrid
  <2>1. CASE StepForce
    <3>1. UNCHANGED <<ex, frames>> /\ strategy = "hybrid" /\ pc = "step"
      BY <2>1 DEF StepForce, Within
    <3>2. Source' = ex
      BY <3>1, SameSource DEF Calls, Source
    <3>3. PICK i \in idxs : ForceAt(ex, i)
      BY <2>1 DEF StepForce
    <3>4. i \in Constraints(ex)
      BY <3>1, <3>3 DEF Listed
    <3> QED BY <3>2, <3>3, <3>4, ForcedAimed
  <2>2. CASE HybridStart \/ BeginStep \/ StepUnsolvable \/ HybridRan
             \/ NextLocalSearch \/ HybridReset
    <3>1. pc' \in {"search", "step", "reset", "abort"}
      BY <2>2 DEF HybridStart, BeginStep, StepUnsolvable, HybridRan,
         NextLocalSearch, HybridReset, Goto
    <3> QED BY <3>1, NotAimed
  <2> QED BY <1>8, <2>1, <2>2 DEF Hybrid
<1>9. CASE BaselineRan \/ CfgStart \/ CfgSucceeds \/ CfgMispredicts \/ CfgWalk
            \/ WalkOn \/ WalkReturn \/ WalkRan
  <2>1. pc' \in {"search", "abort", "undefined"}
    BY <1>9 DEF BaselineRan, CfgStart, CfgSucceeds, CfgMispredicts, CfgWalk, WalkOn,
       WalkReturn, WalkRan, Return, Succeed, DoSearch, Continue, Goto
  <2> QED BY <2>1, NotAimed
<1>10. CASE WalkForce
  <2>1. frames # <<>> /\ UNCHANGED <<ex, frames>>
    BY <1>10 DEF WalkForce, Walking, loop
  <2>2. Source' = Top.ex
    BY <2>1, SameSource, TopTyped
  <2>3. PICK c \in Constraints(Top.ex) : ForceAt(Top.ex, c)
    BY <1>10 DEF WalkForce, FollowingConstraints
  <2> QED BY <2>2, <2>3, ForcedAimed
<1> QED
  BY <1>1, <1>2, <1>3, <1>4, <1>5, <1>6, <1>7, <1>8, <1>9, <1>10 DEF Next, CfgHeuristic

LEMMA TypesStep ==
    ASSUME TypeOK, Calls, Listed, Aimed, Next
    PROVE  TypeOK' /\ Calls'
<1>1. CASE Reset \/ RunProgram \/ Exit \/ RandomInput
  BY <1>1, SharedTypes
<1>2. CASE Scored("cfg_baseline")
  BY <1>2, ScoredTypes
<1> QED
  BY <1>1, <1>2, DfsTypes, RandomTypes, UniformTypes, HybridTypes, BaselineTypes, CfgTypes
     DEF Next

LEMMA ListedStep ==
    ASSUME TypeOK, Calls, Listed, Aimed, Next
    PROVE  Listed'
<1>1. CASE Hybrid
  <2>1. strategy = "hybrid" /\ strategy' = strategy /\ pos >= 1
    BY <1>1 DEF Hybrid, HybridStart, BeginStep, StepForce, StepUnsolvable, HybridRan,
       NextLocalSearch, HybridReset, Within, commandLine, Listed
  <2>2. pos' >= 1
    <3>1. pos' = pos \/ pos' = 1 \/ pos' = pos + StepSize
      BY <1>1 DEF Hybrid, HybridStart, BeginStep, StepForce, StepUnsolvable, HybridRan,
         NextLocalSearch, HybridReset, loop
    <3>2. StepSize \in Nat /\ pos \in Nat
      BY Limits DEF TypeOK
    <3> QED BY <2>1, <3>1, <3>2
  <2>3. CASE BeginStep
    <3>1. StepRange \subseteq Constraints(ex)
      <4>1. Recorded(program, ex)
        BY ExecRecorded DEF TypeOK
      <4>2. /\ Constraints(ex) = 1..Len(ex.constraints) /\ Len(ex.constraints) \in Nat
        BY <4>1 DEF Recorded
      <4> DEFINE l == Len(ex.constraints)
                 m == Min({pos + StepSize - 1, l})
      <4>3. m <= l /\ m \in Int
        <5> DEFINE a == pos + StepSize - 1
        <5>1. a \in Int /\ l \in Int
          BY <4>2, Limits DEF TypeOK
        <5> HIDE DEF a, l
        <5>2. \E x \in {a, l} : \A y \in {a, l} : x <= y
          <6>1. a <= l \/ l <= a
            BY <5>1
          <6>2. a <= a /\ l <= l
            BY <5>1
          <6> QED BY <6>1, <6>2
        <5>3. m = CHOOSE x \in {a, l} : \A y \in {a, l} : x <= y
          BY DEF Min, a
        <5> HIDE DEF m
        <5>4. m \in {a, l} /\ \A y \in {a, l} : m <= y
          BY Zenon, <5>2, <5>3
        <5> QED BY <5>1, <5>4
      <4> HIDE DEF m, l
      <4>4. pos..m \subseteq 1..l
        <5>1. pos \in Nat /\ l \in Nat
          BY <4>2 DEF TypeOK, l
        <5> QED BY <2>1, <4>3, <5>1
      <4> QED BY <4>2, <4>4 DEF StepRange, m, l
    <3> QED BY <2>1, <2>2, <2>3, <3>1 DEF BeginStep, Listed
  <2>4. CASE StepForce \/ StepUnsolvable
    <3>1. idxs' \subseteq idxs /\ ex' = ex /\ pc = "step"
      BY <2>4 DEF StepForce, StepUnsolvable, Within
    <3> QED BY <2>1, <2>2, <3>1 DEF Listed
  <2>5. CASE HybridRan
    <3>1. \/ pc' = "search"
          \/ ex' = ex /\ idxs' = idxs /\ pc = "ran" /\ at > 0
      BY <2>5 DEF HybridRan, Within, Goto
    <3>2. at > 0 => at # 0
      BY DEF TypeOK
    <3> QED BY <2>1, <2>2, <3>1, <3>2 DEF Listed
  <2>6. CASE HybridStart \/ NextLocalSearch \/ HybridReset
    <3>1. pc' \in {"search", "reset"}
      BY <2>6 DEF HybridStart, NextLocalSearch, HybridReset, Goto
    <3> QED BY <2>1, <2>2, <3>1 DEF Listed
  <2> QED BY <1>1, <2>3, <2>4, <2>5, <2>6 DEF Hybrid
<1>2. CASE ~Hybrid /\ ~CfgHeuristic /\ ~BaselineRan /\ ~Scored("cfg_baseline")
  <2>1. pos' = pos \/ pos' = 1 \/ pos' = pos + 1
    BY <1>2 DEF Next, Random, RandomRan, SolveRandomBranch, SolveRandomBranchFails,
       RandomReset, Uniform, UniformStart, UniformForce, UniformPass, UniformRan, UniformAgain,
       Dfs, DfsStart, DfsForce, DfsUnsolvable, DfsRecurse, DfsReturn, Reset, RunProgram, Exit,
       RandomInput, loop
  <2>2. pos' >= 1
    BY <2>1 DEF Listed, TypeOK
  <2>3. CASE Reset \/ RunProgram \/ Exit \/ RandomInput
    <3>1. idxs' = idxs /\ pc' \notin {"step", "search"}
          /\ (pc' \in {"run", "ran"} /\ at' # 0 => at # 0 /\ pc = "run" /\ ex' = ex)
      BY <2>3 DEF Reset, RunProgram, Exit, RandomInput, loop
    <3> QED BY <2>2, <3>1, NextKeeps DEF Listed, Scorable, commandLine
  <2>4. CASE Dfs \/ Random \/ Uniform
    <3>1. strategy \in {"dfs", "random", "uniform_random"}
      BY <2>4, ActionStrategy
    <3>2. strategy' = strategy
      BY NextKeeps DEF commandLine
    <3> QED BY <2>2, <3>1, <3>2 DEF Listed
  <2> QED BY <1>2, <2>3, <2>4 DEF Next
<1>3. CASE CfgHeuristic \/ BaselineRan \/ Scored("cfg_baseline")
  <2> DEFINE Active == pc = "search" \/ (pc = "ran" /\ at # 0)
  <2>1. strategy \in {"cfg", "cfg_baseline"} /\ strategy' = strategy /\ pos >= 1
        /\ (Active => idxs \subseteq Constraints(ex) /\ Scorable(ex))
    BY <1>3, ActionStrategy, NextKeeps DEF commandLine, Listed
  <2>a. at > 0 => at # 0
    BY DEF TypeOK
  <2>2. ASSUME NEW e, DoSearch(e)
        PROVE  Listed'
    <3>1. ex' = e /\ idxs' = Constraints(ex') /\ pos' = pos
          /\ pc' = IF Scorable(e) THEN "search" ELSE "undefined"
      BY <2>2 DEF DoSearch, Goto
    <3>2. pc' = "search" => Scorable(ex)'
      BY <3>1 DEF Scorable
    <3>3. pc' \in {"search", "undefined"}
      BY <3>1
    <3> QED BY <2>1, <3>1, <3>2, <3>3 DEF Listed
  <2>3. ASSUME idxs' \subseteq idxs, UNCHANGED <<ex, pos>>, Active
        PROVE  Listed'
    BY <2>1, <2>3 DEF Listed, Scorable
  <2>4. ASSUME Return, Active
        PROVE  Listed'
    BY <2>2, <2>3, <2>4 DEF Return, Succeed
  <2>5. CASE Scored("cfg_baseline") \/ Scored("cfg")
    <3>1. idxs' \subseteq idxs /\ UNCHANGED <<ex, pos>> /\ pc = "search"
      BY <2>5 DEF Scored, ScoredForce, ScoredUnsolvable, ScoredReset, ScoredLoop, Within, loop
    <3> QED BY <2>3, <3>1
  <2>6. CASE BaselineRan \/ CfgStart \/ CfgSucceeds \/ CfgMispredicts
    <3>1. \/ \E e : DoSearch(e)
          \/ pc = "ran" /\ (at # 0 \/ at > 0) /\ UNCHANGED <<ex, idxs, pos>>
      BY <2>6 DEF BaselineRan, CfgStart, CfgSucceeds, CfgMispredicts, CfgForced, Within,
         Succeed, Continue
    <3> QED BY <2>a, <2>2, <2>3, <3>1
  <2>7. CASE CfgWalk
    <3>1. idxs' = idxs /\ UNCHANGED <<ex, pos>> /\ pc = "ran" /\ at > 0
      BY <2>7 DEF CfgWalk, CfgForced, Within, Continue, loop
    <3> QED BY <2>a, <2>3, <3>1
  <2>8. CASE WalkOn \/ WalkForce
    <3>1. idxs' = idxs /\ UNCHANGED <<ex, pos>> /\ pc = "search"
      BY <2>8 DEF WalkOn, WalkForce, Walking, Within, loop
    <3> QED BY <2>3, <3>1
  <2>9. CASE WalkReturn
    <3>1. Return /\ pc = "search"
      BY <2>9 DEF WalkReturn, Walking, Within
    <3> QED BY <2>4, <3>1
  <2>10. CASE WalkRan
    <3>0. pc = "ran" /\ at # 0
      BY <2>a, <2>10 DEF WalkRan, Within
    <3>1. CASE found # {}
      BY <2>2, <2>10, <3>1 DEF WalkRan, Succeed
    <3>2. CASE found = {} /\ ~Predicted
      BY <2>4, <2>10, <3>0, <3>2 DEF WalkRan
    <3>3. CASE found = {} /\ Predicted
      <4>1. idxs' = idxs /\ UNCHANGED <<ex, pos>>
        BY <2>10, <3>3 DEF WalkRan
      <4> QED BY <2>3, <3>0, <4>1
    <3> QED BY <3>1, <3>2, <3>3
  <2> QED
    BY <1>3, <2>5, <2>6, <2>7, <2>8, <2>9, <2>10 DEF CfgHeuristic
<1> QED
  BY <1>1, <1>2, <1>3

LEMMA Invariant == Spec => []Inv
<1>1. ASSUME Inv, [Next]_vars PROVE Inv'
  <2>1. CASE Next
    BY <1>1, <2>1, TypesStep, ListedStep, AimedStep DEF Inv
  <2>2. CASE UNCHANGED vars
    <3>1. UNCHANGED <<program, strategy, max_depth_, pc, at, ex, cur_ex, file, covered_,
                      found, num_iters_, lost, frames, idxs, count, pos, dist_, walked, lucky>>
      BY <2>2 DEF vars, commandLine, job, loop
    <3>2. Source' = Source /\ NextInputs' = NextInputs /\ Read' = Read
      BY <3>1 DEF Source, NextInputs, Read
    <3>3. TypeOK'
      BY <1>1, <3>1 DEF Inv, TypeOK
    <3>4. Calls' /\ Listed'
      BY <1>1, <3>1 DEF Inv, Calls, Listed, Scorable
    <3>5. Aimed'
      BY <1>1, <3>1, <3>2 DEF Inv, Aimed
    <3> QED BY <3>3, <3>4, <3>5 DEF Inv
  <2> QED BY <1>1, <2>1, <2>2
<1> QED BY <1>1, InitInv, PTL DEF Spec

LEMMA MeetsPrediction == ASSUME Inv PROVE PredictionsHold
<1> SUFFICES ASSUME pc = "ran", at > 0, lost = {}, NonRepeating(program), Symbolic(program)
             PROVE  Predicted
  BY DEF PredictionsHold
<1>1. at # 0 /\ TypeOK /\ Aimed
  BY DEF Inv, TypeOK
<1>2. at \in Constraints(Source) /\ program \in Programs
  BY <1>1 DEF Aimed, TypeOK
<1>3. PICK x \in Inputs : x \in Solutions(Source, at) /\ cur_ex = Execution(program, x)
  <2>a. Read = cur_ex
    BY <1>1 DEF Read
  <2>1. NextInputs = Solutions(Source, at) /\ NextInputs \subseteq Inputs
    BY <1>1 DEF NextInputs, Solutions
  <2> QED BY <1>1, <2>a, <2>1 DEF Aimed
<1>4. PICK y \in Inputs : Source = Execution(program, y)
  <2>1. Source # NoExecution
    BY <1>2 DEF NoExecution, Constraints
  <2>2. Held(program, lost) = Execs(program)
    BY <1>2, HeldFacts
  <2> QED BY <1>1, <2>1, <2>2, SourceTyped DEF Execs
<1> QED BY <1>2, <1>3, <1>4, SolutionPredicted DEF Predicted

\* Where every conditional is evaluated once and recorded, every forced run
\* that leaves an execution meets the prediction, whatever the strategy.
THEOREM PredictionsMet == Spec => []PredictionsHold
BY Invariant, MeetsPrediction, PTL

-----------------------------------------------------------------------------
(* The heuristic's walk.                                                   *)

\* The coverage before the last run, while its outcome is looked at.
Before == IF pc = "ran" THEN covered_ \ found ELSE covered_

\* While DoSearch goes on, a branch at distance zero is not covered, unless a
\* lucky run is kept.  A run on empty inputs is made with no coverage.
Fresh ==
    /\ pc \in {"run", "ran"} /\ at = 0 => Before = {}
    /\ (pc = "search" \/ (pc \in {"run", "ran"} /\ at # 0)) /\ ~lucky
          => \A b \in Branches(program) : dist_[b] = 0 => b \notin Before

\* A walk goes along covered branches, within its distance.
NearCall(f, covered, luck) ==
    /\ f.pos \in 1..Len(f.ex.branches)
    /\ ToSet(f.ex.branches) \subseteq covered
    /\ ~luck => f.bound \in 0..(kInfiniteDistance - 1)

Near == \A n \in DOMAIN frames : NearCall(frames[n], Before, lucky)

\* A run within a walk forces the branch that follows.
ForcedNear ==
    pc \in {"run", "ran"} /\ at # 0 /\ frames # <<>>
        => MayForce /\ at \in FollowingConstraints

\* What a run found is on the path it left, and that path is covered.
Seen ==
    pc = "ran" => found \subseteq ToSet(Read.branches) /\ ToSet(Read.branches) \subseteq covered_

WalkInv == strategy = "cfg" => Fresh /\ Near /\ ForcedNear /\ Seen

LEMMA TopNear ==
    ASSUME TypeOK, Near, frames # <<>>
    PROVE  /\ Len(frames) \in DOMAIN frames /\ Top = frames[Len(frames)]
           /\ Top.pos \in 1..Len(Top.ex.branches)
           /\ ToSet(Top.ex.branches) \subseteq Before
           /\ ~lucky => Top.bound \in 0..(kInfiniteDistance - 1)
<1>1. frames \in Seq(Frames(program, lost))
  BY DEF TypeOK
<1>2. Len(frames) \in DOMAIN frames
  BY <1>1
<1>3. Top = frames[Len(frames)]
  BY DEF Top, Last
<1> QED BY <1>2, <1>3 DEF Near, NearCall

LEMMA InSet == ASSUME NEW s, NEW i \in DOMAIN s PROVE s[i] \in ToSet(s)
BY DEF ToSet

\* The branch that follows the top call's, and its other direction.
LEMMA FollowingFacts ==
    ASSUME TypeOK, Near, frames # <<>>, ~AtEnd
    PROVE  /\ Top.pos + 1 \in 1..Len(Top.ex.branches)
           /\ Following \in Branches(program) /\ Following \in Before
           /\ Paired(Following) \in Branches(program)
<1>1. Top.pos \in 1..Len(Top.ex.branches) /\ ToSet(Top.ex.branches) \subseteq Before
  BY TopNear
<1>2. Recorded(program, Top.ex)
  BY TopTyped, ExecRecorded DEF TypeOK
<1>3. Top.ex.branches \in Seq(Branches(program)) /\ Len(Top.ex.branches) \in Nat
  BY <1>2 DEF Recorded
<1>4. Top.pos + 1 \in 1..Len(Top.ex.branches)
  <2> DEFINE l == Len(Top.ex.branches)
             k == Top.pos
  <2>1. l \in Nat /\ k \in 1..l /\ k # l
    BY <1>1, <1>3 DEF AtEnd
  <2> HIDE DEF l, k
  <2>2. k + 1 \in 1..l
    BY <2>1
  <2> QED BY <2>2 DEF l, k
<1>5. Top.pos + 1 \in DOMAIN Top.ex.branches
  BY <1>3, <1>4
<1>6. Following \in Branches(program) /\ Following \in ToSet(Top.ex.branches)
  BY <1>3, <1>5, InSet DEF Following
<1> QED BY <1>1, <1>4, <1>6 DEF Paired, Branches

\* A distance within the bound of a walk without luck leaves the walk one step.
LEMMA BoundAbove ==
    ASSUME TypeOK, Near, frames # <<>>, ~lucky,
           NEW b \in Branches(program), dist_[b] # 0, dist_[b] <= Top.bound
    PROVE  Decremented \in 0..(kInfiniteDistance - 1)
<1>1. Top.bound \in 0..(kInfiniteDistance - 1) /\ dist_[b] \in 0..kInfiniteDistance
  BY TopNear DEF TypeOK
<1>2. kInfiniteDistance \in Nat /\ UintSize \in Nat /\ UintSize > kInfiniteDistance
  BY Limits
<1> DEFINE c == Top.bound - 1
<1>3. c \in 0..(kInfiniteDistance - 1) /\ c < UintSize /\ c \in Nat
  BY <1>1, <1>2
<1> HIDE DEF c
<1>4. c % UintSize = c
  BY <1>2, <1>3
<1> QED BY <1>3, <1>4 DEF c, Decremented

\* A run that meets its prediction takes the other direction of the constraint.
LEMMA PredictedBranch ==
    ASSUME TypeOK, at \in Constraints(Source), Predicted
    PROVE  LET k == Source.constraints_idx[at]
           IN /\ k \in 1..Len(cur_ex.branches)
              /\ cur_ex.branches[k] = Paired(Source.branches[k])
              /\ Paired(Source.branches[k]) \in ToSet(cur_ex.branches)
<1> DEFINE k == Source.constraints_idx[at]
<1>1. Recorded(program, cur_ex) /\ Recorded(program, Source)
  BY SourceTyped, ExecRecorded DEF TypeOK
<1>2. k \in Nat \ {0} /\ Len(cur_ex.branches) \in Nat
      /\ DOMAIN cur_ex.branches = 1..Len(cur_ex.branches)
  BY <1>1 DEF Recorded
<1>3. k <= Len(cur_ex.branches) /\ cur_ex.branches[k] = Paired(Source.branches[k])
  BY DEF Predicted, CheckPrediction
<1> HIDE DEF k
<1>4. k \in 1..Len(cur_ex.branches)
  BY <1>2, <1>3
<1>5. k \in DOMAIN cur_ex.branches
  BY <1>2, <1>4
<1>6. cur_ex.branches[k] \in ToSet(cur_ex.branches)
  BY <1>5, InSet
<1> QED BY <1>3, <1>4, <1>6 DEF k

LEMMA SucceedWalk ==
    ASSUME TypeOK, UNCHANGED <<commandLine, job>>, NEW e \in Held(program, lost), Succeed(e)
    PROVE  WalkInv'
<1>1. dist_' = DistancesFrom(program, covered_, kInfiniteDistance) /\ DoSearch(e)
  BY DEF Succeed, UpdateBranchDistances
<1>2. \A b \in Branches(program) : dist_'[b] = 0 => b \notin covered_
  BY <1>1, DistancesFacts DEF TypeOK
<1>3. frames' = <<>> /\ pc' \in {"search", "undefined"} /\ covered_' = covered_ /\ program' = program
  BY <1>1 DEF DoSearch, Goto, job, commandLine
<1>4. Fresh'
  BY <1>2, <1>3 DEF Fresh, Before
<1>5. Near' /\ ForcedNear' /\ Seen'
  BY <1>3 DEF Near, ForcedNear, Seen
<1> QED BY <1>4, <1>5 DEF WalkInv

\* Where the search goes on with the distances it has.
LEMMA SearchGoesOn ==
    ASSUME TypeOK, strategy = "cfg", WalkInv, UNCHANGED <<commandLine, job, dist_>>,
           pc' = "search", pc = "search" \/ (pc = "ran" /\ at # 0),
           ~lucky' => ~lucky /\ (pc = "ran" => found = {}),
           \A n \in DOMAIN frames' : NearCall(frames'[n], covered_, lucky')
    PROVE  WalkInv'
<1>1. covered_' = covered_ /\ found' = found /\ program' = program
  BY DEF job, commandLine
<1>2. Before' = covered_
  BY <1>1 DEF Before
<1>3. Fresh'
  <2>1. ASSUME ~lucky'
        PROVE  Before = covered_ /\ \A b \in Branches(program) : dist_[b] = 0 => b \notin Before
    BY <2>1 DEF Before, WalkInv, Fresh
  <2> QED BY <1>1, <1>2, <2>1 DEF Fresh
<1>4. Near'
  BY <1>2 DEF Near
<1>5. ForcedNear' /\ Seen'
  BY DEF ForcedNear, Seen
<1> QED BY <1>3, <1>4, <1>5 DEF WalkInv

LEMMA CallKept ==
    ASSUME NEW f, NEW c, NEW d, NEW l, NEW m, NearCall(f, c, l), c \subseteq d,
           ~m => ~l
    PROVE  NearCall(f, d, m)
BY DEF NearCall

LEMMA BeforeGrows == Before \subseteq covered_
BY DEF Before

LEMMA ReturnWalk ==
    ASSUME TypeOK, strategy = "cfg", WalkInv, UNCHANGED <<commandLine, job>>,
           frames # <<>>, Return, pc = "search" \/ (pc = "ran" /\ at # 0 /\ found = {})
    PROVE  WalkInv'
<1>1. CASE Len(frames) = 1 /\ lucky
  <2>1. Succeed(walked) /\ walked \in Held(program, lost)
    BY <1>1 DEF Return, TypeOK
  <2> QED BY <2>1, SucceedWalk
<1>2. CASE ~(Len(frames) = 1 /\ lucky)
  <2>1. frames' = Front(frames) /\ pc' = "search" /\ lucky' = lucky /\ dist_' = dist_
    BY <1>2 DEF Return, Goto
  <2>2. ASSUME NEW n \in DOMAIN frames' PROVE NearCall(frames'[n], covered_, lucky')
    <3> DEFINE l == Len(frames)
    <3>1. frames \in Seq(Frames(program, lost)) /\ l \in Nat
      BY DEF TypeOK
    <3>2. Front(frames) \in Seq(Frames(program, lost)) /\ Len(Front(frames)) = l - 1
          /\ \A i \in 1..(l - 1) : Front(frames)[i] = frames[i]
      BY <3>1, LastFacts
    <3>3. DOMAIN frames' = 1..(l - 1)
      BY <2>1, <3>2
    <3>4. n \in DOMAIN frames /\ frames'[n] = frames[n]
      BY <2>1, <3>1, <3>2, <3>3
    <3>5. NearCall(frames[n], Before, lucky)
      BY <3>4 DEF WalkInv, Near
    <3> QED BY <2>1, <3>4, <3>5, CallKept, BeforeGrows
  <2> QED BY <2>1, <2>2, SearchGoesOn
<1> QED BY <1>1, <1>2

LEMMA CfgWalkStep ==
    ASSUME TypeOK, Calls, Listed, Aimed, strategy = "cfg", WalkInv, CfgWalk
    PROVE  WalkInv' /\ pc' # "abort"
<1>0. Fresh /\ Near /\ Seen
  BY DEF WalkInv
<1>1. /\ CfgForced /\ UNCHANGED <<commandLine, job>> /\ frames = <<>> /\ pc = "ran"
      /\ Predicted /\ ~FoundWithin(ForcedDistance) /\ ~lucky
  BY DEF CfgWalk, CfgForced, Within, Calls
<1> DEFINE k == ex.constraints_idx[at]
           b == Paired(BranchAt(ex, at))
<1>2. /\ at \in Constraints(ex) /\ at # 0 /\ b \in Branches(program)
      /\ ForcedDistance = dist_[b] /\ ForcedDistance \in 0..kInfiniteDistance
  BY <1>1, ForcedTyped DEF ForcedDistance
<1>a. Read = cur_ex
  BY <1>2 DEF Read
<1>3. k \in 1..Len(cur_ex.branches) /\ cur_ex.branches[k] = b /\ b \in ToSet(cur_ex.branches)
  <2>1. Source = ex
    BY <1>1 DEF Source
  <2>2. at \in Constraints(Source)
    BY <1>2, <2>1
  <2> QED BY <1>1, <2>1, <2>2, PredictedBranch DEF BranchAt
<1>4. b \in covered_
  BY <1>0, <1>1, <1>3, <1>a DEF Seen
<1>5. Len(cur_ex.branches) \in Nat
  <2>1. Recorded(program, cur_ex)
    BY ExecRecorded DEF TypeOK
  <2> QED BY <2>1 DEF Recorded
<1>6. b \notin found
  <2> SUFFICES ASSUME b \in found PROVE FALSE
    OBVIOUS
  <2> DEFINE l == Len(cur_ex.branches)
             c == k + ForcedDistance
  <2>1. k \in 1..l /\ l \in Nat /\ c \in Nat /\ k <= c
    BY <1>2, <1>3, <1>5
  <2>2. Min({c, l}) = CHOOSE x \in {c, l} : \A y \in {c, l} : x <= y
    BY DEF Min
  <2> HIDE DEF c, l, k
  <2>3. \E x \in {c, l} : \A y \in {c, l} : x <= y
    <3>1. (c <= l \/ l <= c) /\ c <= c /\ l <= l
      BY <2>1
    <3> QED BY <3>1
  <2> DEFINE m == Min({c, l})
  <2>4. m \in {c, l}
    <3> HIDE DEF m
    <3>1. m = CHOOSE x \in {c, l} : \A y \in {c, l} : x <= y
      BY <2>2 DEF m
    <3> QED BY Zenon, <2>3, <3>1
  <2> HIDE DEF m
  <2>5. k \in k..m
    BY <2>1, <2>4
  <2>6. cur_ex.branches[k] \in found
    BY <1>3 DEF k
  <2> QED BY <1>1, <2>5, <2>6 DEF FoundWithin, m, c, l, k
<1>7. dist_[b] # 0
  <2>1. b \in Before
    BY <1>1, <1>4, <1>6 DEF Before
  <2> QED BY <1>0, <1>1, <1>2, <2>1 DEF Fresh
<1>8. ForcedDistance > 0 /\ ForcedDistance - 1 \in 0..(kInfiniteDistance - 1)
  <2>1. kInfiniteDistance \in Nat
    BY Limits
  <2> QED BY <1>2, <1>7, <2>1
<1>9. /\ frames' = <<Frame(cur_ex, k, ForcedDistance - 1)>> /\ pc' = "search"
      /\ lucky' = (found # {}) /\ dist_' = dist_
  BY <1>8 DEF CfgWalk, Goto
<1>10. ~lucky' => found = {}
  BY <1>9
<1>11. ASSUME NEW n \in DOMAIN frames' PROVE NearCall(frames'[n], covered_, lucky')
  <2>1. frames'[n] = Frame(cur_ex, k, ForcedDistance - 1)
    BY <1>9
  <2>2. /\ Frame(cur_ex, k, ForcedDistance - 1).pos = k
        /\ Frame(cur_ex, k, ForcedDistance - 1).ex = cur_ex
        /\ Frame(cur_ex, k, ForcedDistance - 1).bound = ForcedDistance - 1
    BY DEF Frame
  <2>3. ToSet(cur_ex.branches) \subseteq covered_
    BY <1>0, <1>1, <1>a DEF Seen
  <2> HIDE DEF k
  <2> QED BY <1>3, <1>8, <2>1, <2>2, <2>3 DEF NearCall
<1>12. WalkInv'
  BY <1>1, <1>2, <1>9, <1>10, <1>11, SearchGoesOn
<1> QED BY <1>9, <1>12

LEMMA WalkOnStep ==
    ASSUME TypeOK, strategy = "cfg", WalkInv, WalkOn
    PROVE  WalkInv'
<1>0. Fresh /\ Near
  BY DEF WalkInv
<1>1. /\ UNCHANGED <<commandLine, job, dist_, lucky>> /\ pc = "search" /\ pc' = "search"
      /\ frames # <<>> /\ ~AtEnd /\ dist_[Following] <= Top.bound
      /\ frames' = Append(WithTop([Top EXCEPT !.force = TRUE]),
                          Frame(Top.ex, Top.pos + 1, Decremented))
  BY DEF WalkOn, Walking, Within, Goto, MayWalkOn
<1> DEFINE top == [Top EXCEPT !.force = TRUE]
           call == Frame(Top.ex, Top.pos + 1, Decremented)
           l == Len(frames)
           t == WithTop(top)
<1>2. Top.pos + 1 \in 1..Len(Top.ex.branches) /\ Following \in Branches(program) /\ Following \in Before
  BY <1>0, <1>1, FollowingFacts
<1>3. /\ l \in DOMAIN frames /\ Top = frames[l] /\ NearCall(Top, Before, lucky)
  BY <1>0, <1>1, TopNear DEF Near
<1>4. NearCall(top, Before, lucky)
  <2>1. Top \in Frames(program, lost)
    BY <1>1, TopTyped
  <2>2. top.pos = Top.pos /\ top.ex = Top.ex /\ top.bound = Top.bound
    BY <2>1 DEF Frames
  <2> HIDE DEF top
  <2> QED BY <1>3, <2>2 DEF NearCall
<1>5. NearCall(call, Before, lucky)
  <2>1. ASSUME ~lucky PROVE Decremented \in 0..(kInfiniteDistance - 1)
    <3>1. dist_[Following] # 0
      BY <1>0, <1>1, <1>2, <2>1 DEF Fresh
    <3> QED BY <1>0, <1>1, <1>2, <2>1, <3>1, BoundAbove
  <2>2. call.pos = Top.pos + 1 /\ call.ex = Top.ex /\ call.bound = Decremented
    BY DEF Frame
  <2> HIDE DEF call
  <2> QED BY <1>2, <1>3, <2>1, <2>2 DEF NearCall
<1>6. frames \in Seq(Frames(program, lost)) /\ top \in Frames(program, lost)
      /\ call \in Frames(program, lost) /\ l \in Nat
  <2>1. Top.pos \in Nat /\ Top.ex \in Held(program, lost) /\ top \in Frames(program, lost)
    BY <1>1, TopTyped
  <2>2. Top.pos + 1 \in Nat
    BY <2>1
  <2>3. Decremented \in Int
    BY <1>1, DecrementedTyped
  <2>4. call \in Frames(program, lost)
    BY <2>1, <2>2, <2>3, FrameTyped
  <2>5. frames \in Seq(Frames(program, lost)) /\ l \in Nat
    BY DEF TypeOK
  <2> QED BY <2>1, <2>4, <2>5
<1> HIDE DEF top, call
<1>7. /\ t \in Seq(Frames(program, lost)) /\ Len(t) = l /\ t[l] = top
      /\ \A n \in 1..(l - 1) : t[n] = frames[n]
  BY <1>1, <1>6, WithLastFacts DEF WithTop
<1>8. frames' = Append(t, call)
  BY <1>1 DEF top, call
<1> HIDE DEF t
<1>9. /\ Append(t, call) \in Seq(Frames(program, lost)) /\ Len(Append(t, call)) = Len(t) + 1
      /\ Append(t, call)[Len(t) + 1] = call /\ \A n \in 1..Len(t) : Append(t, call)[n] = t[n]
  BY <1>6, <1>7, AppendFacts
<1>10. DOMAIN frames' = 1..(l + 1) /\ frames'[l + 1] = call /\ \A n \in 1..l : frames'[n] = t[n]
  BY <1>7, <1>8, <1>9
<1>11. ASSUME NEW n \in DOMAIN frames' PROVE NearCall(frames'[n], Before, lucky)
  <2>1. CASE n = l + 1
    BY <1>5, <1>10, <2>1
  <2>2. CASE n = l
    <3>1. n \in 1..l
      BY <1>10, <1>6, <1>3, <2>2
    <3> QED BY <1>4, <1>7, <1>10, <2>2, <3>1
  <2>3. CASE n # l /\ n # l + 1
    <3>1. n \in 1..(l - 1) /\ n \in 1..l /\ n \in DOMAIN frames
      BY <1>6, <1>10, <2>3
    <3>2. frames'[n] = frames[n]
      BY <1>7, <1>10, <3>1
    <3> QED BY <1>0, <3>1, <3>2 DEF Near
  <2> QED BY <2>1, <2>2, <2>3
<1>12. ASSUME NEW n \in DOMAIN frames' PROVE NearCall(frames'[n], covered_, lucky')
  <2>1. NearCall(frames'[n], Before, lucky) /\ lucky' = lucky
    BY <1>1, <1>11
  <2> QED BY <2>1, CallKept, BeforeGrows
<1> QED BY <1>1, <1>12, SearchGoesOn

LEMMA WalkRanStep ==
    ASSUME TypeOK, Calls, Aimed, strategy = "cfg", WalkInv, WalkRan
    PROVE  WalkInv'
<1>0. Fresh /\ Near /\ Seen /\ ForcedNear
  BY DEF WalkInv
<1>1. UNCHANGED <<commandLine, job>> /\ pc = "ran" /\ at # 0 /\ frames # <<>>
  BY DEF WalkRan, Within, TypeOK
<1>2. CASE found # {}
  <2>1. Succeed(cur_ex)
    BY <1>2 DEF WalkRan
  <2> QED BY <1>1, <2>1, SucceedWalk DEF TypeOK
<1>3. CASE found = {} /\ ~Predicted
  <2>1. Return
    BY <1>3 DEF WalkRan
  <2> QED BY <1>1, <1>3, <2>1, ReturnWalk
<1>4. CASE found = {} /\ Predicted
  <2> DEFINE call == Frame(cur_ex, Top.pos + 1, Decremented)
             l == Len(frames)
  <2>1. /\ frames' = WithTop(call) /\ pc' = "search" /\ dist_' = dist_ /\ lucky' = lucky
    BY <1>4 DEF WalkRan, Goto
  <2>2. /\ ~AtEnd /\ dist_[Paired(Following)] <= Top.bound /\ at \in Constraints(Source)
        /\ Source.constraints_idx[at] = Top.pos + 1 /\ Source = Top.ex
    <3>1. Source = Top.ex
      BY <1>1, TopTyped
    <3>2. MayForce /\ at \in FollowingConstraints
      BY <1>0, <1>1 DEF ForcedNear
    <3>3. at \in Constraints(Top.ex) /\ Top.ex.constraints_idx[at] = Top.pos + 1
      BY <3>2 DEF FollowingConstraints
    <3> QED BY <3>1, <3>2, <3>3 DEF MayForce
  <2>3. Top.pos + 1 \in 1..Len(cur_ex.branches) /\ Paired(Following) \in ToSet(cur_ex.branches)
    BY <1>4, <2>2, PredictedBranch DEF Following
  <2>4. ToSet(cur_ex.branches) \subseteq Before /\ Before = covered_
    <3>1. Read = cur_ex
      BY <1>1 DEF Read
    <3> QED BY <1>0, <1>1, <1>4, <3>1 DEF Seen, Before
  <2>5. ASSUME ~lucky PROVE Decremented \in 0..(kInfiniteDistance - 1)
    <3>1. Paired(Following) \in Branches(program)
      BY <1>0, <1>1, <2>2, FollowingFacts
    <3>2. dist_[Paired(Following)] # 0
      BY <1>0, <1>1, <2>3, <2>4, <2>5, <3>1 DEF Fresh
    <3> QED BY <1>0, <1>1, <2>2, <2>5, <3>1, <3>2, BoundAbove
  <2>6. NearCall(call, covered_, lucky)
    <3>1. call.pos = Top.pos + 1 /\ call.ex = cur_ex /\ call.bound = Decremented
      BY DEF Frame
    <3> HIDE DEF call
    <3> QED BY <2>3, <2>4, <2>5, <3>1 DEF NearCall
  <2>7. call \in Frames(program, lost) /\ frames \in Seq(Frames(program, lost)) /\ l \in Nat
    <3>1. Top.pos \in Nat
      BY <1>1, TopTyped
    <3>2. Top.pos + 1 \in Nat
      BY <3>1
    <3>3. Decremented \in Int
      BY <1>1, DecrementedTyped
    <3>4. frames \in Seq(Frames(program, lost)) /\ l \in Nat /\ cur_ex \in Held(program, lost)
      BY DEF TypeOK
    <3> QED BY <3>2, <3>3, <3>4, FrameTyped
  <2> HIDE DEF call
  <2>8. /\ frames' \in Seq(Frames(program, lost)) /\ Len(frames') = l /\ frames'[l] = call
        /\ \A n \in 1..(l - 1) : frames'[n] = frames[n]
    BY <1>1, <2>1, <2>7, WithLastFacts DEF WithTop
  <2>9. ASSUME NEW n \in DOMAIN frames' PROVE NearCall(frames'[n], covered_, lucky')
    <3>1. CASE n = l
      BY <2>1, <2>6, <2>8, <3>1
    <3>2. CASE n # l
      <4>1. n \in 1..l
        BY <2>8
      <4>2. n \in 1..(l - 1) /\ n \in DOMAIN frames
        BY <2>7, <3>2, <4>1
      <4> QED BY <1>0, <2>1, <2>4, <2>8, <4>2 DEF Near
    <3> QED BY <3>1, <3>2
  <2> QED BY <1>1, <1>4, <2>1, <2>9, SearchGoesOn
<1> QED BY <1>2, <1>3, <1>4

LEMMA WalkStep ==
    ASSUME TypeOK, Calls, Listed, Aimed, WalkInv, Next
    PROVE  WalkInv'
<1> SUFFICES ASSUME strategy = "cfg" PROVE WalkInv'
  BY NextKeeps DEF WalkInv, commandLine
<1>0. Fresh /\ Near /\ Seen /\ ForcedNear
  BY DEF WalkInv
<1>1. CASE Reset
  <2>1. /\ frames' = <<>> /\ pc' = "run" /\ at' = 0 /\ covered_' = {}
    BY <1>1 DEF Reset, Calls, loop
  <2>2. Fresh' /\ Near' /\ ForcedNear' /\ Seen'
    BY <2>1 DEF Fresh, Near, ForcedNear, Seen, Before
  <2> QED BY <2>2 DEF WalkInv
<1>2. CASE RunProgram
  <2>1. /\ pc = "run" /\ pc' = "ran" /\ at' = at /\ found' = covered_' \ covered_
        /\ covered_' = covered_ \cup ToSet(Read'.branches)
        /\ UNCHANGED <<frames, lucky, dist_, program>>
    BY <1>2 DEF RunProgram, commandLine, loop
  <2>2. Before' = covered_ /\ Before = covered_
    BY <2>1 DEF Before
  <2>3. Fresh' /\ Near'
    BY <1>0, <2>1, <2>2 DEF Fresh, Near
  <2>4. ForcedNear'
    BY <1>0, <2>1 DEF ForcedNear, MayForce, MayWalkOn, AtEnd, Following, Top,
       FollowingConstraints
  <2>5. Seen'
    BY <2>1 DEF Seen
  <2> QED BY <2>3, <2>4, <2>5 DEF WalkInv
<1>3. CASE Exit
  <2>1. /\ pc = "run" /\ pc' = "exit" /\ covered_' = covered_ /\ UNCHANGED <<frames, lucky>>
    BY <1>3 DEF Exit, loop
  <2>2. Before' = Before
    BY <2>1 DEF Before
  <2> QED BY <1>0, <2>1, <2>2 DEF WalkInv, Fresh, Near, ForcedNear, Seen
<1>4. CASE Scored("cfg")
  <2>1. /\ UNCHANGED <<commandLine, job, frames, lucky, dist_>> /\ frames = <<>>
        /\ pc = "search" /\ pc' \in {"run", "search", "reset"}
    BY <1>4 DEF Scored, ScoredForce, ScoredUnsolvable, ScoredReset, ScoredLoop, Within, loop,
       ForceAt, Goto
  <2>2. pc' = "run" => at' # 0
    <3>1. CASE ScoredForce("cfg")
      <4>1. PICK i \in idxs : ForceAt(ex, i)
        BY <3>1 DEF ScoredForce
      <4>2. i \in Constraints(ex)
        BY <2>1 DEF Listed
      <4> QED BY <4>1, <4>2, ForcedPlace DEF ForceAt, TypeOK
    <3>2. CASE ScoredUnsolvable("cfg") \/ ScoredReset("cfg")
      BY <3>2 DEF ScoredUnsolvable, ScoredReset, Goto
    <3> QED BY <1>4, <3>1, <3>2 DEF Scored
  <2>3. Before' = Before /\ program' = program
    BY <2>1 DEF Before, job, commandLine
  <2>4. Fresh'
    BY <1>0, <2>1, <2>2, <2>3 DEF Fresh
  <2>5. Near' /\ ForcedNear' /\ Seen'
    BY <2>1 DEF Near, ForcedNear, Seen
  <2> QED BY <2>4, <2>5 DEF WalkInv
<1>5. CASE CfgStart
  <2>1. /\ UNCHANGED <<commandLine, job>> /\ DoSearch(ex) /\ pc = "ran" /\ at = 0
    BY <1>5 DEF CfgStart, Within
  <2>2. CASE found # {}
    BY <1>5, <2>1, <2>2, SucceedWalk DEF CfgStart, Succeed, TypeOK
  <2>3. CASE found = {}
    <3>1. covered_ = {}
      BY <1>0, <2>1, <2>3 DEF Fresh, Before
    <3>2. frames' = <<>> /\ pc' \in {"search", "undefined"} /\ covered_' = {}
      BY <2>1, <3>1 DEF DoSearch, Goto, job
    <3>3. Fresh' /\ Near' /\ ForcedNear' /\ Seen'
      BY <3>2 DEF Fresh, Near, ForcedNear, Seen, Before
    <3> QED BY <3>3 DEF WalkInv
  <2> QED BY <2>2, <2>3
<1>6. CASE CfgSucceeds
  BY <1>6, SucceedWalk DEF CfgSucceeds, CfgForced, Within, TypeOK
<1>7. CASE CfgMispredicts
  <2>1. /\ UNCHANGED <<commandLine, job, dist_, frames, lucky>> /\ pc = "ran" /\ at # 0
        /\ found = {} /\ pc' = "search" /\ frames = <<>>
    BY <1>7 DEF CfgMispredicts, CfgForced, Within, Continue, Goto, TypeOK
  <2>2. \A n \in DOMAIN frames' : NearCall(frames'[n], covered_, lucky')
    BY <2>1
  <2> QED BY <2>1, <2>2, SearchGoesOn
<1>8. CASE CfgWalk
  BY <1>8, CfgWalkStep
<1>9. CASE WalkOn
  BY <1>9, WalkOnStep
<1>10. CASE WalkForce
  <2>1. /\ UNCHANGED <<commandLine, job, loop>> /\ pc = "search" /\ pc' = "run" /\ frames # <<>>
        /\ MayForce /\ at' \in FollowingConstraints
    BY <1>10 DEF WalkForce, Walking, Within, ForceAt
  <2>2. at' # 0
    <3>1. Top.ex \in Held(program, lost)
      BY <2>1, TopTyped
    <3> QED BY <2>1, <3>1, ForcedPlace DEF FollowingConstraints, TypeOK
  <2>3. Before' = Before /\ UNCHANGED <<program, frames, lucky, dist_, ex>>
    BY <2>1 DEF Before, job, loop, commandLine
  <2>4. Fresh' /\ Near'
    BY <1>0, <2>1, <2>2, <2>3 DEF Fresh, Near
  <2>5. ForcedNear'
    BY <2>1, <2>3 DEF ForcedNear, MayForce, MayWalkOn, AtEnd, Following, Top,
       FollowingConstraints
  <2>6. Seen'
    BY <2>1 DEF Seen
  <2> QED BY <2>4, <2>5, <2>6 DEF WalkInv
<1>11. CASE WalkReturn
  BY <1>11, ReturnWalk DEF WalkReturn, Walking, Within
<1>12. CASE WalkRan
  BY <1>12, WalkRanStep
<1> QED
  BY <1>1, <1>2, <1>3, <1>4, <1>5, <1>6, <1>7, <1>8, <1>9, <1>10, <1>11, <1>12, ActionStrategy
     DEF Next, CfgHeuristic

LEMMA WalkInvariant == Spec => []WalkInv
<1>1. Init => WalkInv
  BY DEF Init, WalkInv, Fresh, Near, ForcedNear, Seen, Before
<1>2. ASSUME Inv, WalkInv, [Next]_vars PROVE WalkInv'
  <2>1. CASE Next
    BY <1>2, <2>1, WalkStep DEF Inv
  <2>2. CASE UNCHANGED vars
    <3>1. UNCHANGED <<program, strategy, pc, at, ex, cur_ex, covered_, found, frames, dist_, lucky>>
      BY <2>2 DEF vars, commandLine, job, loop
    <3> QED BY <1>2, <3>1 DEF WalkInv, Fresh, Near, ForcedNear, Seen, Read, Before, MayForce, MayWalkOn,
               AtEnd, Following, Top, FollowingConstraints
  <2> QED BY <1>2, <2>1, <2>2
<1> QED BY <1>1, <1>2, Invariant, PTL DEF Spec

LEMMA WalkIsBounded == ASSUME Inv, WalkInv PROVE WalkBounded
<1> SUFFICES ASSUME strategy = "cfg", frames # <<>>, ~lucky,
                    NEW n \in DOMAIN frames
             PROVE  frames[n].bound < kInfiniteDistance
  BY DEF WalkBounded
<1>1. frames[n].bound \in 0..(kInfiniteDistance - 1)
  BY DEF WalkInv, Near, NearCall
<1> QED BY <1>1, Limits

\* A walk that does not start from a lucky run forces only branches nearer
\* than the one it started from, on every program.
THEOREM WalksAreBounded == Spec => []WalkBounded
BY Invariant, WalkInvariant, WalkIsBounded, PTL

-----------------------------------------------------------------------------
(* The local searches of hybrid search.                                    *)

\* Without repeated conditionals, a run that meets the prediction leaves at
\* least as many constraints as stand up to the one that was broken.
LEMMA PredictedPlaces ==
    ASSUME NEW p \in Programs, NEW x \in Inputs, NEW y \in Inputs, NonRepeating(p),
           NEW i \in Constraints(Execution(p, y)),
           CheckPrediction(Execution(p, y), Execution(p, x),
                           Execution(p, y).constraints_idx[i])
    PROVE  i \in Constraints(Execution(p, x))
<1> DEFINE k == Execution(p, y).constraints_idx[i]
           X == Kept(p, x)
           Y == Kept(p, y)
<1>1. /\ Len(p[x]) \in Nat /\ Steps(p, x) = 1..Len(p[x])
      /\ Len(p[y]) \in Nat /\ Steps(p, y) = 1..Len(p[y])
  BY RunFacts
<1>2. /\ Constraints(Execution(p, y)) = 1..Cardinality(Y)
      /\ Execution(p, y).constraints_idx = Ordered(Y) /\ Y \subseteq 1..Len(p[y])
      /\ Execution(p, y).branches = [j \in 1..Len(p[y]) |-> BranchOf(p, y, j)]
      /\ Len(Execution(p, y).branches) = Len(p[y])
  BY RunRecorded
<1>3. /\ Constraints(Execution(p, x)) = 1..Cardinality(X) /\ X \subseteq 1..Len(p[x])
      /\ Execution(p, x).branches = [j \in 1..Len(p[x]) |-> BranchOf(p, x, j)]
      /\ Len(Execution(p, x).branches) = Len(p[x])
  BY RunRecorded
<1>4. k \in Y /\ Rank(Y, k) = i
  <2>1. i \in 1..Cardinality(Y)
    BY <1>2
  <2>2. /\ Ordered(Y) \in [1..Cardinality(Y) -> Y]
        /\ \A n \in 1..Cardinality(Y) : Rank(Y, Ordered(Y)[n]) = n
    BY <1>1, <1>2, OrderedFacts
  <2> QED BY <1>2, <2>1, <2>2
<1>5. /\ k \in 1..Len(p[y]) /\ k \in 1..Len(p[x])
      /\ \A j \in 1..(k - 1) : BranchOf(p, x, j) = BranchOf(p, y, j)
  <2>1. k \in 1..Len(p[y])
    BY <1>2, <1>4
  <2>2. /\ k <= Len(Execution(p, x).branches)
        /\ \A j \in 1..(k - 1) : Execution(p, x).branches[j] = Execution(p, y).branches[j]
    BY DEF CheckPrediction
  <2> HIDE DEF k
  <2>3. \A j \in 1..(k - 1) : j \in 1..Len(p[x]) /\ j \in 1..Len(p[y])
    BY <1>1, <1>3, <2>1, <2>2
  <2>4. k \in 1..Len(p[x])
    BY <1>1, <1>3, <2>1, <2>2
  <2> QED BY <1>2, <1>3, <2>1, <2>2, <2>3, <2>4
<1> HIDE DEF k
<1>6. ASSUME NEW j \in 1..k PROVE j \in Steps(p, x) /\ j \in Steps(p, y) /\ p[x][j] = p[y][j]
  <2>1. j \in Steps(p, y)
    BY <1>1, <1>5
  <2>2. ASSUME NEW n \in 1..(j - 1)
        PROVE  n \in Steps(p, x) /\ Taken(p, y, n) = Taken(p, x, n)
    <3>1. n \in 1..(k - 1) /\ n \in Steps(p, x)
      BY <1>1, <1>5
    <3>2. BranchOf(p, x, n) = BranchOf(p, y, n)
      BY <1>5, <3>1
    <3> QED BY <3>1, <3>2 DEF BranchOf
  <2>3. Deterministic(p)
    BY ProgramsAssumption
  <2> QED BY <2>1, <2>2, <2>3 DEF Deterministic
<1>7. ASSUME NEW z \in Inputs
      PROVE  Kept(p, z) = {j \in Steps(p, z) : p[z][j].symbolic}
  <2>1. ASSUME NEW j \in Steps(p, z), NEW n \in 1..(j - 1)
        PROVE  BranchOf(p, z, n) # BranchOf(p, z, j)
    <3>1. n \in Steps(p, z) /\ n # j
      BY RunFacts
    <3>2. p[z][n].cond # p[z][j].cond
      BY <3>1 DEF NonRepeating
    <3> QED BY <3>2 DEF BranchOf
  <2> QED BY <2>1 DEF Kept
<1>8. UpTo(Y, k) \subseteq X
  <2> SUFFICES ASSUME NEW j \in Y, j <= k PROVE j \in X
    BY DEF UpTo
  <2>1. j \in 1..k
    BY <1>1, <1>2, <1>5
  <2> QED BY <1>6, <1>7, <2>1
<1>9. Cardinality(UpTo(Y, k)) <= Cardinality(X) /\ Cardinality(X) \in Nat
  <2>1. IsFiniteSet(X) /\ Cardinality(X) \in Nat
    BY <1>1, <1>3, RankFacts
  <2> QED BY <1>8, <2>1, FS_Subset
<1>10. i \in Nat /\ i >= 1 /\ i <= Cardinality(X)
  <2>1. Cardinality(Y) \in Nat
    BY <1>1, <1>2, RankFacts
  <2>2. i \in Nat /\ i >= 1
    BY <1>2, <2>1
  <2> QED BY <1>4, <1>9, <2>2 DEF Rank
<1> QED BY <1>3, <1>9, <1>10

\* Without cut files, a local search has a constraint at its start, and tries
\* none before it.
LocalInv ==
    strategy = "hybrid" /\ NonRepeating(program) /\ "tail" \notin lost =>
        /\ pc = "step" \/ (pc \in {"run", "ran"} /\ at # 0)
              => pos \in Constraints(ex) /\ \A i \in idxs : i >= pos
        /\ pc \in {"run", "ran"} /\ at # 0 => at >= pos
        /\ pc = "search" /\ count # 0 => pos \in Constraints(ex)

LEMMA LocalStep ==
    ASSUME TypeOK, Calls, Listed, Aimed, LocalInv, Next
    PROVE  /\ LocalInv'
           /\ pc' = "abort" /\ strategy = "hybrid"
                => ~NonRepeating(program) \/ "tail" \in lost'
<1> SUFFICES ASSUME strategy = "hybrid", NonRepeating(program), "tail" \notin lost'
             PROVE  LocalInv' /\ pc' # "abort"
  BY NextKeeps DEF LocalInv, commandLine
<1>t. "tail" \notin lost /\ Held(program, lost) = Execs(program)
  <2>1. "tail" \notin lost
    BY LostGrows
  <2> QED BY <2>1, HeldFacts DEF TypeOK
<1>0. /\ pc = "step" \/ (pc \in {"run", "ran"} /\ at # 0)
            => pos \in Constraints(ex) /\ \A i \in idxs : i >= pos
      /\ pc \in {"run", "ran"} /\ at # 0 => at >= pos
      /\ pc = "search" /\ count # 0 => pos \in Constraints(ex)
  BY <1>t DEF LocalInv
<1>1. CASE Reset
  BY <1>1 DEF Reset, LocalInv
<1>2. CASE RunProgram
  <2>1. pc = "run" /\ pc' = "ran" /\ at' = at /\ UNCHANGED <<idxs, count, pos>>
        /\ (at # 0 => ex' = ex)
    BY <1>2 DEF RunProgram
  <2> QED BY <1>0, <2>1 DEF LocalInv
<1>3. CASE Exit
  BY <1>3 DEF Exit, LocalInv
<1>4. CASE HybridStart
  <2>1. pc' = "search" /\ count' = 0
    BY <1>4 DEF HybridStart, Goto
  <2> QED BY <2>1 DEF LocalInv
<1>5. CASE BeginStep
  <2>1. pos \in Constraints(ex)
    BY <1>0, <1>5 DEF BeginStep, Within
  <2>2. pos \in StepRange
    <3>1. Recorded(program, ex)
      BY ExecRecorded DEF TypeOK
    <3>2. Len(ex.constraints) \in Nat /\ pos \in 1..Len(ex.constraints)
      BY <2>1, <3>1 DEF Recorded
    <3> DEFINE l == Len(ex.constraints)
               a == pos + StepSize - 1
               m == Min({a, l})
    <3>3. StepSize \in Nat /\ StepSize > 0
      BY Limits
    <3>4. pos \in Nat /\ l \in Nat /\ a \in Nat /\ pos <= a /\ pos <= l
      BY <3>2, <3>3
    <3>5. m = CHOOSE x \in {a, l} : \A y \in {a, l} : x <= y
      BY DEF Min
    <3> HIDE DEF a, l, m
    <3>6. \E x \in {a, l} : \A y \in {a, l} : x <= y
      <4>1. (a <= l \/ l <= a) /\ a <= a /\ l <= l
        BY <3>4
      <4> QED BY <4>1
    <3>7. m \in {a, l}
      BY Zenon, <3>5, <3>6
    <3>8. pos \in pos..m
      BY <3>4, <3>7
    <3> QED BY <3>8 DEF StepRange, m, a, l
  <2>3. pc' = "step" /\ idxs' = StepRange /\ ex' = ex /\ pos' = pos
    BY <1>5, <2>2 DEF BeginStep, Goto
  <2>4. \A i \in StepRange : i >= pos
    BY DEF StepRange, TypeOK
  <2> QED BY <2>1, <2>3, <2>4 DEF LocalInv
<1>6. CASE StepForce
  <2>1. /\ pc = "step" /\ pc' = "run" /\ at' \in idxs /\ idxs' \subseteq idxs
        /\ UNCHANGED <<ex, pos>>
    BY <1>6 DEF StepForce, Within, ForceAt
  <2> QED BY <1>0, <2>1 DEF LocalInv
<1>7. CASE StepUnsolvable
  <2>1. /\ pc = "step" /\ pc' = "step" /\ idxs' \subseteq idxs /\ UNCHANGED <<ex, pos>>
    BY <1>7 DEF StepUnsolvable, Within, Goto
  <2> QED BY <1>0, <2>1 DEF LocalInv
<1>8. CASE HybridRan
  <2>1. pc = "ran" /\ at # 0 /\ UNCHANGED <<idxs, pos>>
    BY <1>8 DEF HybridRan, Within, TypeOK
  <2>2. CASE ~Predicted
    <3>1. pc' = "step" /\ ex' = ex
      BY <1>8, <2>2 DEF HybridRan, Goto
    <3> QED BY <1>0, <2>1, <3>1 DEF LocalInv
  <2>3. CASE Predicted
    <3>1. pc' = "search" /\ ex' = cur_ex
      BY <1>8, <2>3 DEF HybridRan, Goto, TakeStep
    <3>2. Source = ex /\ at \in Constraints(ex)
      BY <2>1 DEF Calls, Aimed, Source
    <3>3. PICK y \in Inputs : ex = Execution(program, y)
      BY <1>t, <3>2 DEF TypeOK, Execs, NoExecution, Constraints
    <3>4. PICK x \in Inputs : cur_ex = Execution(program, x)
      <4>1. ex.constraints_idx[at] \in 1..Len(cur_ex.branches)
        BY <2>3, <3>2, PredictedBranch
      <4>2. cur_ex # NoExecution
        BY <4>1 DEF NoExecution
      <4> QED BY <1>t, <4>2 DEF TypeOK, Execs
    <3>5. at \in Constraints(cur_ex)
      BY <2>3, <3>2, <3>3, <3>4, PredictedPlaces DEF Predicted, TypeOK
    <3>6. pos \in Constraints(cur_ex)
      <4>1. Recorded(program, cur_ex)
        BY ExecRecorded DEF TypeOK
      <4>2. Constraints(cur_ex) = 1..Len(cur_ex.constraints) /\ Len(cur_ex.constraints) \in Nat
        BY <4>1 DEF Recorded
      <4>3. pos \in Nat /\ pos >= 1 /\ at >= pos
        BY <1>0, <2>1 DEF TypeOK, Listed
      <4> QED BY <3>5, <4>2, <4>3
    <3> QED BY <2>1, <3>1, <3>6 DEF LocalInv
  <2> QED BY <2>2, <2>3
<1>9. CASE NextLocalSearch
  <2>1. pc' = "search" /\ count' = 0
    BY <1>9 DEF NextLocalSearch, Goto
  <2> QED BY <2>1 DEF LocalInv
<1>10. CASE HybridReset
  BY <1>10 DEF HybridReset, Goto, LocalInv
<1> QED
  BY <1>1, <1>2, <1>3, <1>4, <1>5, <1>6, <1>7, <1>8, <1>9, <1>10, ActionStrategy
     DEF Next, Hybrid

LEMMA LocalInvariant == Spec => []LocalInv
<1>1. Init => LocalInv
  BY DEF Init, LocalInv
<1>2. ASSUME Inv, LocalInv, [Next]_vars PROVE LocalInv'
  <2>1. CASE Next
    BY <1>2, <2>1, LocalStep DEF Inv
  <2>2. CASE UNCHANGED vars
    BY <1>2, <2>2 DEF LocalInv, vars, commandLine, job, loop
  <2> QED BY <1>2, <2>1, <2>2
<1> QED BY <1>1, <1>2, Invariant, PTL DEF Spec

\* Only RandomStep and DoSearch assert anything.
LEMMA OthersGoOn ==
    ASSUME TypeOK, Next, pc' = "abort"
    PROVE  strategy = "hybrid" \/ (strategy = "cfg" /\ CfgWalk)
<1>1. CASE Reset \/ RunProgram \/ Exit \/ RandomInput
  BY <1>1 DEF Reset, RunProgram, Exit, RandomInput
<1>2. CASE Dfs \/ Random \/ Uniform
  BY <1>2 DEF Dfs, DfsStart, DfsForce, DfsUnsolvable, DfsRecurse, DfsReturn, Random, RandomRan,
     SolveRandomBranch, SolveRandomBranchFails, RandomReset, Uniform, UniformStart,
     UniformForce, UniformPass, UniformRan, UniformAgain, Goto, ForceAt
<1>3. CASE Scored("cfg_baseline") \/ Scored("cfg") \/ BaselineRan
  BY <1>3 DEF Scored, ScoredForce, ScoredUnsolvable, ScoredReset, BaselineRan, DoSearch,
     Goto, ForceAt
<1>4. CASE CfgStart \/ CfgSucceeds \/ CfgMispredicts \/ WalkOn \/ WalkForce \/ WalkReturn
           \/ WalkRan
  BY <1>4 DEF CfgStart, CfgSucceeds, CfgMispredicts, WalkOn, WalkForce, WalkReturn, WalkRan,
     Return, Succeed, DoSearch, Continue, Goto, ForceAt
<1> QED BY <1>1, <1>2, <1>3, <1>4, ActionStrategy DEF Next, CfgHeuristic

\* The asserts of the driver hold, but that of RandomStep on programs that
\* repeat a conditional or after a file was cut in its branches.
THEOREM AssertsNeverFail == Spec => []AssertsHold
<1>1. Init => AssertsHold
  BY DEF Init, AssertsHold
<1>2. ASSUME Inv, WalkInv, LocalInv, AssertsHold, [Next]_vars PROVE AssertsHold'
  <2>1. CASE Next
    <3>1. program' = program /\ strategy' = strategy
      BY <2>1, NextKeeps DEF commandLine
    <3>2. ASSUME pc' = "abort", strategy = "cfg", CfgWalk PROVE FALSE
      BY <1>2, <3>2, CfgWalkStep DEF Inv
    <3>3. pc' = "abort" => strategy = "hybrid"
      BY <1>2, <2>1, <3>2, OthersGoOn DEF Inv
    <3>4. pc' = "abort" => ~NonRepeating(program) \/ "tail" \in lost'
      BY <1>2, <2>1, <3>3, LocalStep DEF Inv
    <3> QED BY <3>1, <3>3, <3>4 DEF AssertsHold
  <2>2. CASE UNCHANGED vars
    BY <1>2, <2>2 DEF AssertsHold, vars, commandLine, job
  <2> QED BY <1>2, <2>1, <2>2
<1> QED BY <1>1, <1>2, Invariant, WalkInvariant, LocalInvariant, PTL DEF Spec

-----------------------------------------------------------------------------
(* Depth-first search.                                                     *)

\* What the completeness of depth-first search assumes.
Deep(p, m) ==
    NonRepeating(p) /\ Symbolic(p) /\ \A x \in Inputs : Len(p[x]) < m

\* The coverage c has every run that forces e's i-th constraint.
Handled(p, e, i, c) == \A z \in Solutions(e, i) : ToSet(Execution(p, z).branches) \subseteq c

\* The constraint the n-th of the active calls s started at.
Start(s, n) == IF n = 1 THEN 1 ELSE s[n - 1].pos

\* A call has handled the constraints from its start on, except the one the
\* next call is at, and its bound outlasts its path.
DfsCall(p, m, s, n, c) ==
    /\ \E y \in Inputs : s[n].ex = Execution(p, y)
    /\ ToSet(s[n].ex.branches) \subseteq c
    /\ 1 <= Start(s, n) /\ Start(s, n) <= s[n].pos
    /\ s[n].pos <= Len(s[n].ex.constraints) + 1
    /\ s[n].bound + s[n].pos >= m + 1
    /\ \A i \in Start(s, n)..(s[n].pos - 1) :
          n = Len(s) \/ i # s[n].pos - 1 => Handled(p, s[n].ex, i, c)

\* The next call is on a run that forced the caller's last constraint.
DfsLink(p, s, n) ==
    /\ s[n].pos - 1 \in Constraints(s[n].ex)
    /\ \E x \in Solutions(s[n].ex, s[n].pos - 1) : s[n + 1].ex = Execution(p, x)

DfsCalls(p, m, s, e, c) ==
    /\ \A n \in 1..Len(s) : DfsCall(p, m, s, n, c)
    /\ \A n \in 1..(Len(s) - 1) : DfsLink(p, s, n)
    /\ s # <<>> => s[1].ex = e

DfsInv ==
    /\ covered_ \subseteq Feasible(program)
    /\ pc = "ran" => ToSet(Read.branches) \subseteq covered_
    /\ strategy = "dfs" =>
          /\ pc \in {"run", "ran"} /\ at # 0 => at = Top.pos
          /\ lost = {} /\ Deep(program, max_depth_)
                => DfsCalls(program, max_depth_, frames, ex, covered_)

LEMMA CallTyped ==
    ASSUME NEW p, NEW hist, NEW s \in Seq(Frames(p, hist)), NEW n \in 1..Len(s)
    PROVE  Start(s, n) \in Nat /\ s[n].pos \in Nat /\ s[n].bound \in Int
<1>1. \A k \in 1..Len(s) : s[k].pos \in Nat /\ s[k].bound \in Int
  <2>1. \A k \in 1..Len(s) : s[k] \in Frames(p, hist)
    OBVIOUS
  <2> QED BY <2>1 DEF Frames
<1>2. n = 1 \/ n - 1 \in 1..Len(s)
  OBVIOUS
<1> QED BY <1>1, <1>2 DEF Start

LEMMA NoCalls == \A p, m, e, c : DfsCalls(p, m, <<>>, e, c)
<1>1. \A n : n \notin 1..Len(<<>>) /\ n \notin 1..(Len(<<>>) - 1)
  OBVIOUS
<1> QED BY <1>1 DEF DfsCalls

LEMMA CoverageGrows ==
    ASSUME NEW p, NEW m, NEW s, NEW e, NEW c, NEW d, c \subseteq d, DfsCalls(p, m, s, e, c)
    PROVE  DfsCalls(p, m, s, e, d)
BY DEF DfsCalls, DfsCall, Handled

\* The outermost call, before it has done anything.
LEMMA DfsFirst ==
    ASSUME NEW p, NEW m \in Int, NEW c, NEW e,
           \E y \in Inputs : e = Execution(p, y), ToSet(e.branches) \subseteq c,
           Len(e.constraints) \in Nat
    PROVE  DfsCalls(p, m, <<Frame(e, 1, m)>>, e, c)
<1> DEFINE s == <<Frame(e, 1, m)>>
<1>1. Len(s) = 1 /\ s[1].ex = e /\ s[1].pos = 1 /\ s[1].bound = m
  BY DEF Frame
<1> HIDE DEF s
<1>2. Start(s, 1) = 1
  BY DEF Start
<1>3. DfsCall(p, m, s, 1, c)
  <2>1. 1 <= Len(e.constraints) + 1 /\ m + 1 >= m + 1
    OBVIOUS
  <2>2. \A i : i \notin 1..(1 - 1)
    OBVIOUS
  <2> QED BY <1>1, <1>2, <2>1, <2>2 DEF DfsCall
<1>4. 1..Len(s) = {1} /\ 1..(Len(s) - 1) = {}
  BY <1>1
<1>5. DfsCalls(p, m, s, e, c)
  BY <1>1, <1>3, <1>4 DEF DfsCalls
<1> QED BY <1>5 DEF s

\* The top call passes a constraint that nothing solves.
LEMMA DfsPassed ==
    ASSUME NEW p, NEW hist, NEW m \in Int, NEW s \in Seq(Frames(p, hist)), s # <<>>, NEW e, NEW c,
           DfsCalls(p, m, s, e, c), NEW f \in Frames(p, hist), NEW l \in Nat, l = Len(s),
           f.ex = s[l].ex, f.pos = s[l].pos + 1, f.bound = s[l].bound,
           s[l].pos <= Len(s[l].ex.constraints), Len(s[l].ex.constraints) \in Nat,
           Solutions(s[l].ex, s[l].pos) = {}
    PROVE  DfsCalls(p, m, [s EXCEPT ![Len(s)] = f], e, c)
<1> DEFINE t == [s EXCEPT ![Len(s)] = f]
<1>1. /\ t \in Seq(Frames(p, hist)) /\ Len(t) = l /\ t # <<>> /\ t[l] = f
      /\ \A n \in 1..(l - 1) : t[n] = s[n]
  BY WithLastFacts
<1>2. l \in 1..l /\ l # 0
  OBVIOUS
<1> HIDE DEF t
<1>3. \A n \in 1..l : /\ t[n].ex = s[n].ex /\ t[n].bound = s[n].bound
                      /\ n # l => t[n].pos = s[n].pos
  <2>1. \A n \in 1..l : n = l \/ n \in 1..(l - 1)
    OBVIOUS
  <2> QED BY <1>1, <2>1
<1>4. \A n \in 1..l : Start(t, n) = Start(s, n)
  <2>1. \A n \in 1..l : n # 1 => n - 1 \in 1..l /\ n - 1 # l
    OBVIOUS
  <2> QED BY <1>3, <2>1 DEF Start
<1>5. ASSUME NEW n \in 1..(l - 1) PROVE DfsCall(p, m, t, n, c)
  <2>1. n \in 1..l /\ n # l /\ t[n] = s[n] /\ DfsCall(p, m, s, n, c)
    BY <1>1 DEF DfsCalls
  <2> QED BY <1>1, <1>4, <2>1 DEF DfsCall
<1>6. DfsCall(p, m, t, l, c)
  <2> DEFINE b == Start(s, l)
             k == s[l].pos
             g == s[l].bound
             h == Len(s[l].ex.constraints)
  <2>1. /\ \E y \in Inputs : s[l].ex = Execution(p, y)
        /\ ToSet(s[l].ex.branches) \subseteq c /\ 1 <= b /\ b <= k /\ g + k >= m + 1
        /\ \A i \in b..(k - 1) : Handled(p, s[l].ex, i, c)
    BY <1>2 DEF DfsCalls, DfsCall
  <2>2. k \in Nat /\ g \in Int /\ b \in Nat /\ h \in Nat /\ k <= h
    <3>1. s[l] \in Frames(p, hist)
      BY <1>2
    <3>2. l # 1 => s[l - 1] \in Frames(p, hist)
      <4>1. l # 1 => l - 1 \in 1..l
        BY <1>2
      <4> QED BY <4>1
    <3> QED BY <3>1, <3>2 DEF Start, Frames
  <2>3. /\ t[l].ex = s[l].ex /\ t[l].pos = k + 1 /\ t[l].bound = g /\ Start(t, l) = b
    BY <1>1, <1>2, <1>4
  <2> HIDE DEF b, k, g
  <2>4. Handled(p, s[l].ex, k, c)
    BY DEF Handled, k
  <2>5. \A i \in b..((k + 1) - 1) : Handled(p, s[l].ex, i, c)
    <3>1. \A i \in b..((k + 1) - 1) : i \in b..(k - 1) \/ i = k
      BY <2>2
    <3> QED BY <2>1, <2>4, <3>1
  <2>6. b <= k + 1 /\ k + 1 <= h + 1 /\ g + (k + 1) >= m + 1
    BY <2>1, <2>2
  <2> QED BY <2>1, <2>3, <2>5, <2>6 DEF DfsCall
<1>7. ASSUME NEW n \in 1..(l - 1) PROVE DfsLink(p, t, n)
  <2>1. n \in 1..l /\ n + 1 \in 1..l /\ t[n] = s[n] /\ t[n + 1].ex = s[n + 1].ex
    BY <1>1, <1>3
  <2>2. DfsLink(p, s, n)
    BY DEF DfsCalls
  <2> QED BY <2>1, <2>2 DEF DfsLink
<1>8. t[1].ex = e
  <2>1. 1 \in 1..l
    BY <1>2
  <2> QED BY <1>3, <2>1 DEF DfsCalls
<1>9. \A n \in 1..l : n \in 1..(l - 1) \/ n = l
  OBVIOUS
<1>10. DfsCalls(p, m, t, e, c)
  BY <1>1, <1>5, <1>6, <1>7, <1>8, <1>9 DEF DfsCalls
<1> QED BY <1>10 DEF t

\* A run that meets the prediction: the caller passes its constraint, and the
\* callee begins behind it on the new execution.
LEMMA DfsEntered ==
    ASSUME NEW p \in Programs, NEW hist, NEW m \in Nat, Deep(p, m),
           NEW s \in Seq(Frames(p, hist)), s # <<>>, NEW e, NEW c, DfsCalls(p, m, s, e, c),
           NEW l \in Nat, l = Len(s), NEW f \in Frames(p, hist), NEW g \in Frames(p, hist),
           s[l].pos \in Constraints(s[l].ex),
           f.ex = s[l].ex, f.pos = s[l].pos + 1, f.bound = s[l].bound - 1,
           NEW x \in Inputs, x \in Solutions(s[l].ex, s[l].pos),
           g.ex = Execution(p, x), g.pos = s[l].pos + 1, g.bound = s[l].bound - 1,
           ToSet(g.ex.branches) \subseteq c
    PROVE  DfsCalls(p, m, Append([s EXCEPT ![Len(s)] = f], g), e, c)
<1> DEFINE r == [s EXCEPT ![Len(s)] = f]
           t == Append(r, g)
<1>1. /\ r \in Seq(Frames(p, hist)) /\ Len(r) = l /\ r[l] = f
      /\ \A n \in 1..(l - 1) : r[n] = s[n]
  BY WithLastFacts
<1> HIDE DEF r
<1>2. /\ t \in Seq(Frames(p, hist)) /\ Len(t) = l + 1 /\ t[l + 1] = g
      /\ \A n \in 1..l : t[n] = r[n]
  BY <1>1, AppendFacts
<1> HIDE DEF t
<1>3. l # 0 /\ l \in 1..l /\ l + 1 # 1 /\ (l + 1) - 1 = l
  BY LastFacts
<1>4. t[l] = f
  BY <1>1, <1>2, <1>3
<1>5. \A n \in 1..(l - 1) : t[n] = s[n]
  <2>1. \A n \in 1..(l - 1) : n \in 1..l
    OBVIOUS
  <2> QED BY <1>1, <1>2, <2>1
<1>6. \A n \in 1..l : Start(t, n) = Start(s, n)
  <2>1. \A n \in 1..l : n # 1 => n - 1 \in 1..(l - 1)
    OBVIOUS
  <2> QED BY <1>5, <2>1 DEF Start
<1> DEFINE a == s[l].pos
           b == Start(s, l)
           w == s[l].bound
           h == Len(s[l].ex.constraints)
<1>7. /\ \E y \in Inputs : s[l].ex = Execution(p, y)
      /\ ToSet(s[l].ex.branches) \subseteq c /\ 1 <= b /\ b <= a /\ w + a >= m + 1
      /\ \A i \in b..(a - 1) : Handled(p, s[l].ex, i, c)
  BY <1>3 DEF DfsCalls, DfsCall
<1>8. PICK y \in Inputs : s[l].ex = Execution(p, y)
  BY <1>7
<1>9. /\ a \in 1..h /\ h \in Nat /\ a \in 1..Len(p[x]) /\ Len(p[x]) \in Nat
      /\ Len(g.ex.constraints) = Len(p[x])
  <2>1. NonRepeating(p) /\ Symbolic(p)
    BY DEF Deep
  <2>2. a \in Constraints(Execution(p, y)) /\ x \in Solutions(Execution(p, y), a)
    BY <1>8
  <2>3. a \in 1..Len(p[y]) /\ a \in 1..Len(p[x])
    BY <2>1, <2>2, SolutionFacts
  <2>4. Len(Execution(p, y).constraints) = Len(p[y])
    BY <2>1, AllRecorded
  <2>5. Len(Execution(p, x).constraints) = Len(p[x])
    BY <2>1, AllRecorded
  <2>6. Len(p[x]) \in Nat /\ Len(p[y]) \in Nat
    BY RunFacts
  <2> QED BY <1>8, <2>3, <2>4, <2>5, <2>6
<1>10. b \in Int /\ w \in Int
  BY <1>3, CallTyped
<1>11. /\ f.ex = s[l].ex /\ f.pos = a + 1 /\ f.bound = w - 1
       /\ g.pos = a + 1 /\ g.bound = w - 1
  OBVIOUS
<1>12. ASSUME NEW n \in 1..(l - 1) PROVE DfsCall(p, m, t, n, c)
  <2>1. n \in 1..l /\ n # l /\ n # l + 1 /\ t[n] = s[n] /\ DfsCall(p, m, s, n, c)
    BY <1>5 DEF DfsCalls
  <2> QED BY <1>2, <1>6, <2>1 DEF DfsCall
<1>13. Start(t, l) = b /\ Start(t, l + 1) = a + 1
  BY <1>3, <1>4, <1>6, <1>11 DEF Start
<1>14. s[l].pos = a /\ Len(s[l].ex.constraints) = h
  OBVIOUS
<1>15. DfsLink(p, t, l)
  <2>1. f.pos - 1 = a
    BY <1>9, <1>11
  <2> QED BY <1>2, <1>4, <1>14, <2>1 DEF DfsLink
<1> HIDE DEF a, b, w, h
<1>16. DfsCall(p, m, t, l, c)
  <2>1. b <= a + 1 /\ a + 1 <= h + 1 /\ (w - 1) + (a + 1) >= m + 1
    BY <1>7, <1>9, <1>10
  <2>2. \A i \in b..((a + 1) - 1) : i # (a + 1) - 1 => Handled(p, s[l].ex, i, c)
    <3>1. \A i \in b..((a + 1) - 1) : i # (a + 1) - 1 => i \in b..(a - 1)
      BY <1>9, <1>10
    <3> QED BY <1>7, <3>1
  <2>3. l # l + 1
    OBVIOUS
  <2> QED BY <1>2, <1>4, <1>7, <1>11, <1>13, <1>14, <2>1, <2>2, <2>3 DEF DfsCall
<1>17. DfsCall(p, m, t, l + 1, c)
  <2>1. 1 <= a + 1 /\ a + 1 <= a + 1 /\ (w - 1) + (a + 1) >= m + 1
        /\ a + 1 <= Len(p[x]) + 1
    BY <1>7, <1>9, <1>10
  <2>2. \A i : i \notin (a + 1)..((a + 1) - 1)
    BY <1>9
  <2> QED BY <1>2, <1>9, <1>11, <1>13, <2>1, <2>2 DEF DfsCall
<1>18. ASSUME NEW n \in 1..(l - 1) PROVE DfsLink(p, t, n)
  <2>1. n \in 1..l /\ t[n] = s[n] /\ DfsLink(p, s, n)
    BY <1>5 DEF DfsCalls
  <2>2. t[n + 1].ex = s[n + 1].ex
    <3>1. n + 1 \in 1..(l - 1) \/ n + 1 = l
      OBVIOUS
    <3> QED BY <1>4, <1>5, <1>11, <3>1
  <2> QED BY <2>1, <2>2 DEF DfsLink
<1>19. t[1].ex = e
  <2>1. 1 \in 1..(l - 1) \/ l = 1
    BY <1>3
  <2>2. s[1].ex = e
    BY DEF DfsCalls
  <2> QED BY <1>4, <1>5, <1>11, <2>1, <2>2
<1>20. /\ \A n \in 1..(l + 1) : n \in 1..(l - 1) \/ n = l \/ n = l + 1
       /\ \A n \in 1..((l + 1) - 1) : n \in 1..(l - 1) \/ n = l
  OBVIOUS
<1>21. DfsCalls(p, m, t, e, c)
  BY <1>2, <1>12, <1>15, <1>16, <1>17, <1>18, <1>19, <1>20 DEF DfsCalls
<1> QED BY <1>21 DEF t, r

\* A call that ends has handled what its caller forced.
LEMMA DfsLeft ==
    ASSUME NEW p \in Programs, NEW hist, NEW m \in Nat, Deep(p, m),
           NEW s \in Seq(Frames(p, hist)), NEW e, NEW c, DfsCalls(p, m, s, e, c),
           NEW l \in Nat, l = Len(s), l > 1,
           s[l].pos \notin Constraints(s[l].ex) \/ ~(s[l].bound > 0)
    PROVE  DfsCalls(p, m, Front(s), e, c)
<1> DEFINE t == Front(s)
<1>1. s # <<>>
  OBVIOUS
<1>2. Len(t) = l - 1 /\ \A n \in 1..(l - 1) : t[n] = s[n]
  BY <1>1, LastFacts
<1> HIDE DEF t
<1>3. \A n \in 1..(l - 1) : Start(t, n) = Start(s, n)
  <2>1. \A n \in 1..(l - 1) : n # 1 => n - 1 \in 1..(l - 1)
    OBVIOUS
  <2> QED BY <1>2, <2>1 DEF Start
<1> DEFINE k == l - 1
           i == s[k].pos - 1
           b == Start(s, k)
<1>4. k \in 1..l /\ k \in 1..(l - 1) /\ l \in 1..l /\ k # l /\ k + 1 = l /\ k \in Nat
  OBVIOUS
<1>5. /\ DfsCall(p, m, s, k, c) /\ DfsCall(p, m, s, l, c) /\ DfsLink(p, s, k)
      /\ s[k] \in Frames(p, hist) /\ s[l] \in Frames(p, hist)
  BY <1>4 DEF DfsCalls
<1>6. PICK x \in Inputs : s[l].ex = Execution(p, x) /\ x \in Solutions(s[k].ex, i)
  BY <1>4, <1>5 DEF DfsLink, Solutions
<1>7. PICK y \in Inputs : s[k].ex = Execution(p, y)
  BY <1>5 DEF DfsCall
<1>8. i \in Constraints(Execution(p, y)) /\ x \in Solutions(Execution(p, y), i)
  BY <1>5, <1>6, <1>7 DEF DfsLink
<1>9. NonRepeating(p) /\ Symbolic(p) /\ Len(p[x]) < m
  BY DEF Deep
<1>10. s[l].pos = Len(p[x]) + 1 /\ Len(p[x]) \in Nat
  <2> DEFINE n == Len(p[x])
             q == s[l].pos
             w == s[l].bound
  <2>1. n \in Nat /\ n < m
    BY <1>9, RunFacts
  <2>2. Len(s[l].ex.constraints) = n /\ Constraints(s[l].ex) = 1..n
    BY <1>6, <1>9, AllRecorded
  <2>3. q \in Nat /\ w \in Int
    BY <1>5 DEF Frames
  <2>4. q <= n + 1 /\ w + q >= m + 1 /\ 1 <= Start(s, l) /\ Start(s, l) <= q
    BY <1>5, <2>2 DEF DfsCall
  <2>5. Start(s, l) \in Nat
    BY <1>5, <1>4 DEF Start, Frames
  <2>6. q \notin 1..n \/ ~(w > 0)
    BY <2>2
  <2> HIDE DEF n, q, w
  <2>7. q = n + 1
    BY <2>1, <2>3, <2>4, <2>5, <2>6
  <2> QED BY <2>1, <2>7 DEF n, q
<1>11. Start(s, l) = i + 1 /\ i \in Int
  <2>1. s[k].pos \in Nat
    BY <1>5 DEF Frames
  <2>2. Start(s, l) = s[k].pos
    BY DEF Start
  <2> QED BY <2>1, <2>2
<1>12. \A j \in (i + 1)..Len(p[x]) : Handled(p, s[l].ex, j, c)
  <2>1. \A j \in Start(s, l)..(s[l].pos - 1) : Handled(p, s[l].ex, j, c)
    BY <1>5 DEF DfsCall
  <2>2. s[l].pos - 1 = Len(p[x])
    BY <1>10
  <2> QED BY <1>11, <2>1, <2>2
<1>13. Handled(p, s[k].ex, i, c)
  <2>1. SUFFICES ASSUME NEW z \in Solutions(Execution(p, y), i)
                 PROVE  ToSet(Execution(p, z).branches) \subseteq c
    BY <1>7 DEF Handled
  <2>2. z \in Inputs
    BY DEF Solutions
  <2>3. \/ Execution(p, z).branches = Execution(p, x).branches
        \/ \E j \in (i + 1)..Len(p[x]) : z \in Solutions(Execution(p, x), j)
    BY <1>8, <1>9, <2>2, SolutionsBehind
  <2>4. CASE Execution(p, z).branches = Execution(p, x).branches
    BY <1>5, <1>6, <2>4 DEF DfsCall
  <2>5. CASE \E j \in (i + 1)..Len(p[x]) : z \in Solutions(Execution(p, x), j)
    BY <1>6, <1>12, <2>5 DEF Handled
  <2> QED BY <2>3, <2>4, <2>5
<1>14. DfsCall(p, m, t, k, c)
  <2>1. t[k] = s[k] /\ Start(t, k) = Start(s, k)
    BY <1>2, <1>3, <1>4
  <2>2. \A j \in Start(s, k)..(s[k].pos - 1) : Handled(p, s[k].ex, j, c)
    <3>1. \A j \in Start(s, k)..(s[k].pos - 1) :
             k = Len(s) \/ j # s[k].pos - 1 => Handled(p, s[k].ex, j, c)
      BY <1>5 DEF DfsCall
    <3> QED BY <1>13, <3>1
  <2> QED BY <1>5, <2>1, <2>2 DEF DfsCall
<1>15. ASSUME NEW n \in 1..(k - 1) PROVE DfsCall(p, m, t, n, c)
  <2>1. n \in 1..l /\ n \in 1..(l - 1) /\ n # l /\ n # k
    OBVIOUS
  <2>2. DfsCall(p, m, s, n, c) /\ t[n] = s[n] /\ Start(t, n) = Start(s, n)
    BY <1>2, <1>3, <2>1 DEF DfsCalls
  <2>3. n # Len(t) /\ n # Len(s)
    BY <1>2, <2>1
  <2> QED BY <2>2, <2>3 DEF DfsCall
<1>16. ASSUME NEW n \in 1..(k - 1) PROVE DfsLink(p, t, n)
  <2>1. n \in 1..(l - 1) /\ n + 1 \in 1..(l - 1)
    OBVIOUS
  <2>2. DfsLink(p, s, n) /\ t[n] = s[n] /\ t[n + 1] = s[n + 1]
    BY <1>2, <2>1 DEF DfsCalls
  <2> QED BY <2>2 DEF DfsLink
<1>17. t[1].ex = e
  <2>1. 1 \in 1..(l - 1)
    OBVIOUS
  <2> QED BY <1>1, <1>2, <2>1 DEF DfsCalls
<1>18. \A n \in 1..k : n \in 1..(k - 1) \/ n = k
  OBVIOUS
<1>19. Len(t) = k
  BY <1>2
<1>20. DfsCalls(p, m, t, e, c)
  BY <1>14, <1>15, <1>16, <1>17, <1>18, <1>19 DEF DfsCalls
<1> QED BY <1>20 DEF t

LEMMA RunInFeasible ==
    ASSUME NEW p \in Programs, NEW h, NEW e \in Held(p, h)
    PROVE  ToSet(e.branches) \subseteq Feasible(p)
BY ExecRecorded DEF Recorded

\* Only a reset and a run change the coverage, and a run adds what the file
\* it leaves records.
LEMMA CoverageStep ==
    ASSUME TypeOK, Calls, Listed, Aimed, Next, DfsInv
    PROVE  /\ covered_' \subseteq Feasible(program)
           /\ pc' = "ran" => ToSet(Read'.branches) \subseteq covered_'
           /\ strategy = "dfs" => covered_ \subseteq covered_'
<1>0. covered_ \subseteq Feasible(program) /\ (pc = "ran" => ToSet(Read.branches) \subseteq covered_)
  BY DEF DfsInv
<1>1. CASE Reset
  BY <1>0, <1>1 DEF Reset
<1>2. CASE RunProgram
  <2>1. covered_' = covered_ \cup ToSet(Read'.branches) /\ program' = program
    BY <1>2 DEF RunProgram, commandLine
  <2>2. Read' \in Held(program, lost') /\ program \in Programs
    BY <1>2, SharedTypes, <2>1 DEF TypeOK, Read
  <2>3. ToSet(Read'.branches) \subseteq Feasible(program)
    BY <2>2, RunInFeasible
  <2> QED BY <1>0, <2>1, <2>3
<1>3. CASE Exit
  BY <1>0, <1>3 DEF Exit
<1>4. CASE ~(Reset \/ RunProgram \/ Exit)
  <2>1. covered_' = covered_
    <3>1. CASE RandomInput
      BY <3>1 DEF RandomInput, Within, job
    <3>2. CASE Dfs \/ Random \/ Uniform
      BY <3>2 DEF Dfs, DfsStart, DfsForce, DfsUnsolvable, DfsRecurse, DfsReturn, Random,
         RandomRan, SolveRandomBranch, SolveRandomBranchFails, RandomReset, Uniform,
         UniformStart, UniformForce, UniformPass, UniformRan, UniformAgain, Within, job
    <3>3. CASE Hybrid
      BY <3>3 DEF Hybrid, HybridStart, BeginStep, StepForce, StepUnsolvable, HybridRan,
         NextLocalSearch, HybridReset, Within, job
    <3>4. CASE Scored("cfg_baseline") \/ Scored("cfg") \/ BaselineRan
      BY <3>4 DEF Scored, ScoredForce, ScoredUnsolvable, ScoredReset, ScoredLoop,
         BaselineRan, Within, job
    <3>5. CASE CfgStart \/ CfgSucceeds \/ CfgMispredicts \/ CfgWalk
      BY <3>5 DEF CfgStart, CfgSucceeds, CfgMispredicts, CfgWalk, CfgForced, Within, job
    <3>6. CASE WalkOn \/ WalkForce \/ WalkReturn \/ WalkRan
      BY <3>6 DEF WalkOn, WalkForce, WalkReturn, WalkRan, Walking, Within, job
    <3> QED BY <1>4, <3>1, <3>2, <3>3, <3>4, <3>5, <3>6 DEF Next, CfgHeuristic
  <2>2. pc' # "ran"
    <3>1. CASE RandomInput
      BY <3>1 DEF RandomInput
    <3>2. CASE Dfs \/ Random \/ Uniform
      BY <3>2 DEF Dfs, DfsStart, DfsForce, DfsUnsolvable, DfsRecurse, DfsReturn, Random,
         RandomRan, SolveRandomBranch, SolveRandomBranchFails, RandomReset, Uniform,
         UniformStart, UniformForce, UniformPass, UniformRan, UniformAgain, Goto, ForceAt
    <3>3. CASE Hybrid
      BY <3>3 DEF Hybrid, HybridStart, BeginStep, StepForce, StepUnsolvable, HybridRan,
         NextLocalSearch, HybridReset, Goto, ForceAt
    <3>4. CASE Scored("cfg_baseline") \/ Scored("cfg") \/ BaselineRan
      BY <3>4 DEF Scored, ScoredForce, ScoredUnsolvable, ScoredReset, BaselineRan,
         DoSearch, Goto, ForceAt
    <3>5. CASE CfgStart \/ CfgSucceeds \/ CfgMispredicts \/ CfgWalk
      BY <3>5 DEF CfgStart, CfgSucceeds, CfgMispredicts, CfgWalk, Succeed, DoSearch,
         Continue, Goto
    <3>6. CASE WalkOn \/ WalkForce \/ WalkReturn \/ WalkRan
      BY <3>6 DEF WalkOn, WalkForce, WalkReturn, WalkRan, Return,
         Succeed, DoSearch, Goto, ForceAt
    <3> QED BY <1>4, <3>1, <3>2, <3>3, <3>4, <3>5, <3>6 DEF Next, CfgHeuristic
  <2> QED BY <1>0, <2>1, <2>2
<1> QED BY <1>1, <1>2, <1>3, <1>4

\* The steps of depth-first search itself, on calls that are in order.
LEMMA DfsCallsStep ==
    ASSUME Inv, DfsInv, Dfs, lost = {}, Deep(program, max_depth_)
    PROVE  DfsCalls(program, max_depth_, frames', ex', covered_)
<1>0. /\ TypeOK /\ Calls /\ Aimed /\ strategy = "dfs"
      /\ DfsCalls(program, max_depth_, frames, ex, covered_)
      /\ pc \in {"run", "ran"} /\ at # 0 => at = Top.pos
      /\ pc = "ran" => ToSet(Read.branches) \subseteq covered_
  BY ActionStrategy DEF Inv, DfsInv
<1>1. program \in Programs /\ max_depth_ \in Nat /\ frames \in Seq(Frames(program, lost)) /\ at \in Nat
  BY <1>0 DEF TypeOK
<1>2. ASSUME frames # <<>>
      PROVE  /\ Len(frames) \in Nat /\ Len(frames) > 0 /\ Top = frames[Len(frames)]
             /\ Top \in Frames(program, lost) /\ Recorded(program, Top.ex)
  <2>1. Top.ex \in Held(program, lost)
    BY <1>0, <1>2, TopTyped
  <2> QED BY <1>0, <1>1, <1>2, <2>1, LastFacts, ExecRecorded, TopTyped DEF Top
<1>3. CASE DfsStart
  <2>1. /\ pc = "ran" /\ at = 0 /\ ex' = ex /\ frames' = <<Frame(ex, 1, max_depth_)>>
        /\ Read = ex
    BY <1>3 DEF DfsStart, Within, Read
  <2>2. \E y \in Inputs : ex = Execution(program, y)
    BY <1>0, <2>1 DEF Aimed, NextInputs
  <2>3. Len(ex.constraints) \in Nat
    BY <1>0, ExecRecorded DEF Recorded, TypeOK
  <2>4. ToSet(ex.branches) \subseteq covered_ /\ max_depth_ \in Int
    BY <1>0, <1>1, <2>1
  <2>5. DfsCalls(program, max_depth_, <<Frame(ex, 1, max_depth_)>>, ex, covered_)
    BY <2>2, <2>3, <2>4, DfsFirst
  <2> QED BY <2>1, <2>5
<1>4. CASE DfsForce
  <2>1. UNCHANGED <<ex, frames>>
    BY <1>4 DEF DfsForce, loop
  <2> QED BY <1>0, <2>1
<1>5. CASE DfsUnsolvable
  <2>1. /\ pc = "search" /\ Top.pos \in Constraints(Top.ex) /\ Solutions(Top.ex, Top.pos) = {}
        /\ frames' = [frames EXCEPT ![Len(frames)] = [Top EXCEPT !.pos = @ + 1]] /\ ex' = ex
    BY <1>5 DEF DfsUnsolvable, DfsLoop, Within, WithTop
  <2>2. frames # <<>>
    BY <1>0, <2>1 DEF Calls
  <2> DEFINE f == [Top EXCEPT !.pos = @ + 1]
  <2>3. /\ f \in Frames(program, lost) /\ f.ex = Top.ex /\ f.pos = Top.pos + 1
        /\ f.bound = Top.bound
    BY <1>2, <2>2 DEF Frames
  <2>4. Top.pos <= Len(Top.ex.constraints) /\ Len(Top.ex.constraints) \in Nat
    BY <1>2, <2>1, <2>2 DEF Recorded
  <2> HIDE DEF f
  <2>5. DfsCalls(program, max_depth_, [frames EXCEPT ![Len(frames)] = f], ex, covered_)
    <3> DEFINE l == Len(frames)
    <3>1. /\ l \in Nat /\ Top = frames[l]
      BY <1>2, <2>2
    <3>2. max_depth_ \in Int
      BY <1>1
    <3>3. /\ f.ex = frames[l].ex /\ f.pos = frames[l].pos + 1 /\ f.bound = frames[l].bound
          /\ frames[l].pos <= Len(frames[l].ex.constraints)
          /\ Len(frames[l].ex.constraints) \in Nat
          /\ Solutions(frames[l].ex, frames[l].pos) = {}
      BY <2>1, <2>3, <2>4, <3>1
    <3> QED BY <1>0, <1>1, <2>2, <2>3, <3>1, <3>2, <3>3, DfsPassed
  <2> QED BY <2>1, <2>5 DEF f
<1>6. CASE DfsRecurse
  <2>1. pc = "ran" /\ at # 0 /\ at > 0 /\ ex' = ex /\ Read = cur_ex
    BY <1>1, <1>6 DEF DfsRecurse, Within, Read
  <2>2. frames # <<>> /\ Source = Top.ex /\ at = Top.pos /\ at \in Constraints(Top.ex)
    BY <1>0, <2>1 DEF Calls, Aimed, Source, Top
  <2>3. PICK x \in Inputs : x \in Solutions(Top.ex, Top.pos) /\ cur_ex = Execution(program, x)
    BY <1>0, <2>1, <2>2 DEF Aimed, NextInputs, Solutions
  <2>4. Predicted
    BY <2>1, MeetsPrediction DEF PredictionsHold, Deep
  <2> DEFINE f == [Top EXCEPT !.pos = @ + 1, !.bound = @ - 1]
             g == Frame(cur_ex, at + 1, Top.bound - 1)
  <2>5. frames' = Append([frames EXCEPT ![Len(frames)] = f], g)
    BY <1>6, <2>4 DEF DfsRecurse, WithTop
  <2>6. /\ f \in Frames(program, lost) /\ f.ex = Top.ex /\ f.pos = Top.pos + 1
        /\ f.bound = Top.bound - 1
    <3>1. Top \in Frames(program, lost) /\ Top.pos + 1 \in Nat /\ Top.bound - 1 \in Int
      BY <1>2, <2>2 DEF Frames
    <3>2. f = [Top EXCEPT !.pos = Top.pos + 1, !.bound = Top.bound - 1]
      OBVIOUS
    <3>3. f \in Frames(program, lost)
      BY <1>0, <2>2, <3>1, <3>2, TopTyped
    <3> QED BY <3>1, <3>2, <3>3 DEF Frames
  <2>7. /\ g \in Frames(program, lost) /\ g.ex = Execution(program, x) /\ g.pos = Top.pos + 1
        /\ g.bound = Top.bound - 1
    <3>1. cur_ex \in Held(program, lost) /\ Top.bound - 1 \in Int
      BY <1>0, <1>2, <2>2 DEF TypeOK, Frames
    <3>2. g \in Frames(program, lost)
      BY <1>1, <3>1, FrameTyped
    <3> QED BY <2>2, <2>3, <3>2 DEF Frame
  <2>8. ToSet(g.ex.branches) \subseteq covered_
    BY <1>0, <2>1, <2>3, <2>7
  <2> HIDE DEF f, g
  <2>9. DfsCalls(program, max_depth_, Append([frames EXCEPT ![Len(frames)] = f], g), ex, covered_)
    BY <1>0, <1>1, <1>2, <2>2, <2>3, <2>6, <2>7, <2>8, DfsEntered
  <2> QED BY <2>1, <2>5, <2>9
<1>7. CASE DfsReturn
  <2>1. /\ pc = "search" /\ ~DfsLoop /\ ex' = ex
        /\ frames' = IF Len(frames) > 1 THEN Front(frames) ELSE <<Frame(ex, 1, max_depth_)>>
    BY <1>7 DEF DfsReturn, Within
  <2>2. frames # <<>>
    BY <1>0, <2>1 DEF Calls
  <2>3. CASE Len(frames) > 1
    <3>1. Top.pos \notin Constraints(Top.ex) \/ ~(Top.bound > 0)
      BY <2>1 DEF DfsLoop
    <3>2. DfsCalls(program, max_depth_, Front(frames), ex, covered_)
      BY <1>0, <1>1, <1>2, <2>2, <2>3, <3>1, DfsLeft
    <3> QED BY <2>1, <2>3, <3>2
  <2>4. CASE ~(Len(frames) > 1)
    <3>1. Len(frames) = 1
      <4> DEFINE l == Len(frames)
      <4>1. l \in Nat /\ l > 0 /\ ~(l > 1)
        BY <1>2, <2>2, <2>4
      <4> HIDE DEF l
      <4>2. l = 1
        BY <4>1
      <4> QED BY <4>2 DEF l
    <3>2. /\ \E y \in Inputs : ex = Execution(program, y)
          /\ ToSet(ex.branches) \subseteq covered_
      <4>1. 1 \in 1..Len(frames) /\ frames[1].ex = ex
        BY <1>0, <2>2, <3>1 DEF DfsCalls
      <4>2. DfsCall(program, max_depth_, frames, 1, covered_)
        BY <1>0, <4>1 DEF DfsCalls
      <4> QED BY <4>1, <4>2 DEF DfsCall
    <3>3. Len(ex.constraints) \in Nat
      BY <1>0, ExecRecorded DEF Recorded, TypeOK
    <3>4. DfsCalls(program, max_depth_, <<Frame(ex, 1, max_depth_)>>, ex, covered_)
      BY <1>1, <3>2, <3>3, DfsFirst
    <3> QED BY <2>1, <2>4, <3>4
  <2> QED BY <2>3, <2>4
<1> QED BY <1>3, <1>4, <1>5, <1>6, <1>7 DEF Dfs

LEMMA DfsAims ==
    ASSUME Dfs, TypeOK
    PROVE  /\ pc' \in {"run", "ran"} /\ at' # 0 => at' = Top.pos /\ frames' = frames
           /\ lost' = lost /\ covered_' = covered_
<1>1. DfsStart \/ DfsUnsolvable \/ DfsRecurse \/ DfsReturn => pc' = "search"
  BY DEF DfsStart, DfsUnsolvable, DfsRecurse, DfsReturn, Goto
<1>2. DfsForce => at' = Top.pos /\ frames' = frames
  BY DEF DfsForce, ForceAt, loop
<1>3. lost' = lost /\ covered_' = covered_
  BY DEF Dfs, DfsStart, DfsForce, DfsUnsolvable, DfsRecurse, DfsReturn, Within, job
<1> QED BY <1>1, <1>2, <1>3 DEF Dfs

LEMMA DfsStep ==
    ASSUME Inv, DfsInv, Next
    PROVE  DfsInv'
<1>1. /\ covered_' \subseteq Feasible(program)
      /\ pc' = "ran" => ToSet(Read'.branches) \subseteq covered_'
      /\ strategy = "dfs" => covered_ \subseteq covered_'
  BY CoverageStep DEF Inv
<1>2. program' = program /\ strategy' = strategy /\ max_depth_' = max_depth_
  BY NextKeeps DEF commandLine
<1>3. ASSUME strategy = "dfs"
      PROVE  /\ pc' \in {"run", "ran"} /\ at' # 0 => at' = Last(frames').pos
             /\ lost' = {} /\ Deep(program, max_depth_)
                   => DfsCalls(program, max_depth_, frames', ex', covered_')
  <2>0. /\ pc \in {"run", "ran"} /\ at # 0 => at = Last(frames).pos
        /\ lost = {} /\ Deep(program, max_depth_)
              => DfsCalls(program, max_depth_, frames, ex, covered_)
    BY <1>3 DEF DfsInv, Top
  <2>1. CASE Reset
    <3>1. at' = 0 /\ UNCHANGED <<ex, frames, lost>>
      BY <2>1 DEF Reset, loop
    <3> QED BY <1>1, <1>3, <2>0, <3>1, CoverageGrows
  <2>2. CASE RunProgram
    <3>1. pc = "run" /\ at' = at /\ frames' = frames /\ (at # 0 => ex' = ex)
      BY <2>2 DEF RunProgram
    <3>2. lost' = {} => lost = {}
      BY LostGrows DEF Inv
    <3>3. CASE at # 0
      BY <1>1, <1>3, <2>0, <3>1, <3>2, <3>3, CoverageGrows
    <3>4. CASE at = 0
      <4>1. frames = <<>>
        BY <3>1, <3>4 DEF Inv, Calls
      <4> QED BY <3>1, <3>4, <4>1, NoCalls
    <3> QED BY <3>3, <3>4
  <2>3. CASE Exit
    <3>1. pc' = "exit" /\ UNCHANGED <<ex, frames, lost, covered_>>
      BY <2>3 DEF Exit, loop
    <3> QED BY <2>0, <3>1
  <2>4. CASE Dfs
    <3>1. /\ pc' \in {"run", "ran"} /\ at' # 0 => at' = Top.pos /\ frames' = frames
          /\ lost' = lost /\ covered_' = covered_
      BY <2>4, DfsAims DEF Inv
    <3>2. lost = {} /\ Deep(program, max_depth_)
             => DfsCalls(program, max_depth_, frames', ex', covered_)
      BY <2>4, DfsCallsStep
    <3> QED BY <3>1, <3>2 DEF Top
  <2> QED BY <1>3, <2>1, <2>2, <2>3, <2>4, ActionStrategy DEF Next
<1> QED BY <1>1, <1>2, <1>3 DEF DfsInv, Top

LEMMA DfsInvariant == Spec => []DfsInv
<1>1. Init => DfsInv
  <2> SUFFICES ASSUME Init PROVE DfsInv
    OBVIOUS
  <2>1. pc = "reset" /\ frames = <<>> /\ covered_ = {}
    BY DEF Init
  <2>2. DfsCalls(program, max_depth_, <<>>, ex, covered_)
    BY NoCalls
  <2> QED BY <2>1, <2>2 DEF DfsInv
<1>2. ASSUME Inv, DfsInv, [Next]_vars PROVE DfsInv'
  <2>1. CASE Next
    BY <1>2, <2>1, DfsStep
  <2>2. CASE UNCHANGED vars
    BY <1>2, <2>2 DEF DfsInv, Read, Top, vars, commandLine, job, loop
  <2> QED BY <1>2, <2>1, <2>2
<1> QED BY <1>1, <1>2, Invariant, PTL DEF Spec

LEMMA DfsIsComplete ==
    ASSUME Inv, DfsInv
    PROVE  DfsComplete
<1> SUFFICES ASSUME strategy = "dfs", Len(frames) = 1, Top.pos > Len(Top.ex.constraints),
                    lost = {}, \A x \in Inputs : Len(program[x]) < max_depth_,
                    NonRepeating(program), Symbolic(program)
             PROVE  covered_ = Feasible(program)
  BY DEF DfsComplete
<1>1. covered_ \subseteq Feasible(program)
  BY DEF DfsInv
<1>2. DfsCalls(program, max_depth_, frames, ex, covered_)
  BY DEF DfsInv, Deep
<1>3. 1 \in 1..Len(frames) /\ frames # <<>>
  <2>1. Len(frames) = 1
    OBVIOUS
  <2>2. frames # <<>>
    <3>1. \A s : s = <<>> => Len(s) # 1
      OBVIOUS
    <3> QED BY <2>1, <3>1
  <2>3. 1 \in 1..1
    OBVIOUS
  <2> QED BY <2>1, <2>2, <2>3
<1>4. Top = frames[1] /\ Top.pos \in Nat
  BY <1>3, LastFacts, TopTyped DEF Inv, TypeOK, Top
<1>5. DfsCall(program, max_depth_, frames, 1, covered_)
  BY <1>2, <1>3 DEF DfsCalls
<1>6. PICK y \in Inputs : Top.ex = Execution(program, y)
  BY <1>4, <1>5 DEF DfsCall
<1>7. ToSet(Execution(program, y).branches) \subseteq covered_
  BY <1>4, <1>5, <1>6 DEF DfsCall
<1>8. program \in Programs
  BY DEF Inv, TypeOK
<1>9. \A i \in 1..Len(program[y]) : Handled(program, Execution(program, y), i, covered_)
  <2>1. \A i \in 1..(Top.pos - 1) : Handled(program, Execution(program, y), i, covered_)
    BY <1>4, <1>5, <1>6 DEF DfsCall, Start
  <2>2. Len(Top.ex.constraints) = Len(program[y]) /\ Len(program[y]) \in Nat
    BY <1>6, <1>8, AllRecorded, RunFacts
  <2>3. \A i \in 1..Len(program[y]) : i \in 1..(Top.pos - 1)
    BY <1>4, <2>2
  <2> QED BY <2>1, <2>3
<1>10. ASSUME NEW x \in Inputs
       PROVE  ToSet(Execution(program, x).branches) \subseteq covered_
  <2>1. \/ Execution(program, x).branches = Execution(program, y).branches
        \/ \E i \in 1..Len(program[y]) : x \in Solutions(Execution(program, y), i)
    BY <1>8, SameOrSolution
  <2> QED BY <1>7, <1>9, <2>1 DEF Handled
<1> QED BY <1>1, <1>10 DEF Feasible

\* When a depth-first pass ends, every branch some input can reach has been
\* covered, on programs that evaluate every conditional once and record it,
\* if no run was lost and the depth exceeds every path.
THEOREM DepthFirstIsComplete == Spec => []DfsComplete
BY Invariant, DfsInvariant, DfsIsComplete, PTL
=============================================================================
