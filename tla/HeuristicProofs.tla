---------------------------- MODULE HeuristicProofs ----------------------------
(***************************************************************************)
(* Proofs about the algorithms CfgHeuristicSearch runs.                    *)
(*                                                                         *)
(* BranchDistances, ThinCfg and their composition, for every control-flow  *)
(* graph: the search of UpdateBranchDistances solves the shortest-path     *)
(* equations and queues a branch once; process_cfg writes the thinned      *)
(* graph exactly; so the distances that guide the strategy are those of    *)
(* the control-flow graph itself.                                          *)
(*                                                                         *)
(* CflPath, for every path: CollectNextBranches returns the branches that  *)
(* can come next, and FindAlongCfg and MinCflDistance measure one distance.*)
(***************************************************************************)
EXTENDS CfgDistances, CflPath, FiniteSetTheorems, SequenceTheorems,
        WellFoundedInduction, TLAPS

InQ(q, c) == \E m \in 1..Len(q) : q[m] = c

\* The loop over branches_ has dealt with the branches outside todo.
InitInv ==
    \A b \in Branches \ todo :
        /\ b \in covered_ => dist_[b] = kInfiniteDistance
        /\ b \in Uncovered => dist_[b] = 0 /\ InQ(Q, b)

\* Distance zero is for uncovered branches.
Zero == \A b \in Branches : dist_[b] = 0 <=> b \in Uncovered

\* A finite distance is not below that of some successor plus one.
Supported ==
    \A b \in Branches : dist_[b] > 0 /\ dist_[b] < kInfiniteDistance =>
        \E c \in Branches : <<b, c>> \in cfg_ /\ dist_[c] + 1 <= dist_[b]

\* An edge that would still shorten a distance is about to be visited.
Relaxed ==
    \A b, c \in Branches :
        <<b, c>> \in cfg_ /\ dist_[c] + 1 < kInfiniteDistance =>
            \/ dist_[b] <= dist_[c] + 1
            \/ InQ(Q, c)
            \/ c = front /\ b \in todo

SearchInv == Zero /\ Supported /\ Relaxed

\* While edges are visited, todo holds predecessors of the front branch.
Listed == \A b \in todo : <<b, front>> \in cfg_

Inv ==
    /\ pc = "init" => InitInv
    /\ pc = "edges" => SearchInv /\ Listed
    /\ pc = "idle" => Q = <<>> /\ todo = {}
    /\ pc = "idle" /\ calls > 0 => SearchInv

\* Distances are numbers.
LEMMA DistTyped ==
    ASSUME TypeOK, NEW b \in Branches
    PROVE  dist_[b] \in Int /\ 0 <= dist_[b] /\ dist_[b] <= kInfiniteDistance
           /\ kInfiniteDistance \in Int /\ kInfiniteDistance > 0
BY DistanceAssumption DEF TypeOK

LEMMA AppendInQ ==
    ASSUME NEW q \in Seq(Branches), NEW j \in Branches
    PROVE  /\ \A c : InQ(q, c) => InQ(Append(q, j), c)
           /\ InQ(Append(q, j), j)
<1>1. Len(q) \in Nat /\ Len(Append(q, j)) = Len(q) + 1
      /\ Append(q, j)[Len(q) + 1] = j
      /\ \A m \in 1..Len(q) : Append(q, j)[m] = q[m]
  OBVIOUS
<1>2. \A c : InQ(q, c) => InQ(Append(q, j), c)
  BY <1>1 DEF InQ
<1>3. Len(q) + 1 \in 1..Len(Append(q, j))
  BY <1>1
<1> QED BY <1>1, <1>2, <1>3 DEF InQ

LEMMA TailInQ ==
    ASSUME NEW q \in Seq(Branches), q # <<>>, NEW c, InQ(q, c)
    PROVE  c = Head(q) \/ InQ(Tail(q), c)
<1>1. PICK m \in 1..Len(q) : q[m] = c
  BY DEF InQ
<1>2. CASE m = 1
  BY <1>1, <1>2
<1>3. CASE m # 1
  <2>1. m - 1 \in 1..Len(Tail(q)) /\ Tail(q)[m - 1] = q[m]
    BY <1>3
  <2> QED BY <1>1, <2>1 DEF InQ
<1> QED BY <1>2, <1>3

\* When the loop over branches_ is over, the search invariant holds.
LEMMA InitDone ==
    ASSUME TypeOK, InitInv, todo = {}
    PROVE  SearchInv
<1>1. \A b \in Branches :
         /\ b \in covered_ => dist_[b] = kInfiniteDistance
         /\ b \in Uncovered => dist_[b] = 0 /\ InQ(Q, b)
         /\ b \in covered_ \/ b \in Uncovered
         /\ ~(b \in covered_ /\ b \in Uncovered)
  BY DEF InitInv, Uncovered
<1>2. kInfiniteDistance \in Int /\ kInfiniteDistance > 0
  BY DistanceAssumption
<1>3. Zero
  BY <1>1, <1>2 DEF Zero
<1>4. Supported
  BY <1>1, <1>2 DEF Supported
<1>5. Relaxed
  BY <1>1, <1>2 DEF Relaxed
<1> QED BY <1>3, <1>4, <1>5 DEF SearchInv

\* Taking the front branch lists its predecessors.
LEMMA FrontStep ==
    ASSUME TypeOK, SearchInv, todo = {}, TakeFront
    PROVE  SearchInv' /\ Listed'
<1>1. /\ front' = Head(Q) /\ Q' = Tail(Q) /\ todo' = cfg_rev_(Head(Q))
      /\ Q \in Seq(Branches) /\ Q # <<>>
      /\ UNCHANGED <<cfg_, covered_, dist_>>
  BY DEF TakeFront, TypeOK
<1>2. Zero' /\ Supported'
  BY <1>1 DEF SearchInv, Zero, Supported, Uncovered
<1>3. \A b, c \in Branches :
         <<b, c>> \in cfg_ /\ InQ(Q, c) =>
            InQ(Tail(Q), c) \/ (c = Head(Q) /\ b \in cfg_rev_(Head(Q)))
  BY <1>1, TailInQ DEF cfg_rev_
<1>4. Relaxed'
  BY <1>1, <1>3 DEF SearchInv, Relaxed
<1>5. Listed'
  BY <1>1 DEF Listed, cfg_rev_
<1> QED BY <1>2, <1>4, <1>5 DEF SearchInv

\* Visiting an edge relaxes it and queues the branch it improved.
LEMMA VisitStep ==
    ASSUME TypeOK, SearchInv, Listed, NEW j \in todo, Visit(j)
    PROVE  TypeOK' /\ SearchInv' /\ Listed'
<1>1. j \in Branches /\ front \in Branches /\ Q \in Seq(Branches)
  BY DEF TypeOK
<1>2. /\ todo' = todo \ {j} /\ pc' = pc
      /\ UNCHANGED <<cfg_, covered_, front, calls>>
  BY DEF Visit
<1>3. \A b \in Branches : dist_[b] \in Int /\ 0 <= dist_[b]
                          /\ dist_[b] <= kInfiniteDistance
      /\ kInfiniteDistance \in Int
  BY DistTyped, DistanceAssumption
<1>4. Listed'
  BY <1>2 DEF Listed
<1>5. CASE dist_[front] + 1 < dist_[j]
  <2>1. dist_' = [dist_ EXCEPT ![j] = dist_[front] + 1] /\ Q' = Append(Q, j)
    BY <1>5 DEF Visit
  <2>2. /\ dist_'[j] = dist_[front] + 1
        /\ \A b \in Branches : b # j => dist_'[b] = dist_[b]
    BY <1>1, <2>1 DEF TypeOK
  <2>3. \A c : (InQ(Q, c) => InQ(Q', c)) /\ InQ(Q', j)
    BY <1>1, <2>1, AppendInQ
  <2>4. TypeOK'
    <3>1. dist_[front] + 1 \in 0..kInfiniteDistance
      BY <1>1, <1>3, <1>5
    <3>2. Q' \in Seq(Branches)
      BY <1>1, <2>1
    <3> QED BY <1>2, <2>1, <3>1, <3>2 DEF TypeOK
  <2>5. Zero'
    <3>1. dist_[j] # 0 /\ dist_'[j] # 0
      BY <1>1, <1>3, <1>5, <2>2
    <3> QED BY <1>2, <2>2, <3>1 DEF SearchInv, Zero, Uncovered
  <2>6. front # j
    BY <1>1, <1>3, <1>5
  <2>7. Supported'
    <3> SUFFICES ASSUME NEW b \in Branches, dist_'[b] > 0,
                        dist_'[b] < kInfiniteDistance
                 PROVE  \E c \in Branches :
                           <<b, c>> \in cfg_ /\ dist_'[c] + 1 <= dist_'[b]
      BY <1>2 DEF Supported
    <3>1. CASE b = j
      <4>1. <<j, front>> \in cfg_
        BY DEF Listed
      <4> QED BY <1>1, <1>3, <2>2, <2>6, <3>1, <4>1
    <3>2. CASE b # j
      <4>1. PICK c \in Branches : <<b, c>> \in cfg_ /\ dist_[c] + 1 <= dist_[b]
        BY <2>2, <3>2 DEF SearchInv, Supported
      <4>2. dist_'[c] <= dist_[c]
        BY <1>1, <1>3, <1>5, <2>2, <4>1
      <4>3. dist_'[c] \in Int
        BY <1>1, <1>3, <2>2
      <4> QED BY <1>3, <2>2, <3>2, <4>1, <4>2, <4>3
    <3> QED BY <3>1, <3>2
  <2>8. Relaxed'
    <3> SUFFICES ASSUME NEW b \in Branches, NEW c \in Branches,
                        <<b, c>> \in cfg_, dist_'[c] + 1 < kInfiniteDistance
                 PROVE  \/ dist_'[b] <= dist_'[c] + 1
                        \/ InQ(Q', c)
                        \/ c = front /\ b \in todo'
      BY <1>2 DEF Relaxed
    <3>1. CASE c = j
      BY <2>3, <3>1
    <3>2. CASE c # j
      <4>1. \/ dist_[b] <= dist_[c] + 1 \/ InQ(Q, c)
            \/ c = front /\ b \in todo
        BY <2>2, <3>2 DEF SearchInv, Relaxed
      <4>2. dist_'[c] = dist_[c] /\ dist_'[b] <= dist_[b]
        BY <1>1, <1>3, <1>5, <2>2, <3>2
      <4>3. dist_'[b] \in Int /\ dist_[b] \in Int /\ dist_[c] \in Int
        BY <1>1, <1>3, <2>2
      <4>4. CASE dist_[b] <= dist_[c] + 1
        BY <4>2, <4>3, <4>4
      <4>5. CASE InQ(Q, c)
        BY <2>3, <4>5
      <4>6. CASE c = front /\ b \in todo
        BY <1>2, <2>2, <2>6, <4>2, <4>3, <4>6
      <4> QED BY <4>1, <4>4, <4>5, <4>6
    <3> QED BY <3>1, <3>2
  <2> QED BY <1>4, <2>4, <2>5, <2>7, <2>8 DEF SearchInv
<1>6. CASE ~(dist_[front] + 1 < dist_[j])
  <2>1. UNCHANGED <<dist_, Q>>
    BY <1>6 DEF Visit
  <2>2. dist_[j] <= dist_[front] + 1
    BY <1>1, <1>3, <1>6
  <2>3. Relaxed'
    BY <1>2, <2>1, <2>2 DEF SearchInv, Relaxed
  <2>4. Zero' /\ Supported'
    BY <1>2, <2>1 DEF SearchInv, Zero, Supported, Uncovered
  <2> QED BY <1>2, <1>4, <2>1, <2>3, <2>4 DEF SearchInv, TypeOK
<1> QED BY <1>5, <1>6

\* The loop over branches_ deals with one branch.
LEMMA InitBranchStep ==
    ASSUME TypeOK, InitInv, NEW b \in todo, InitBranch(b)
    PROVE  TypeOK' /\ InitInv'
<1>1. /\ b \in Branches /\ todo' = todo \ {b} /\ todo \subseteq Branches
      /\ Q \in Seq(Branches)
      /\ UNCHANGED <<pc, cfg_, covered_, front, calls>>
  BY DEF InitBranch, TypeOK
<1>2. kInfiniteDistance \in Int /\ kInfiniteDistance > 0
  BY DistanceAssumption
<1>3. /\ \A c \in Branches : c # b => dist_'[c] = dist_[c]
      /\ dist_'[b] = IF b \in covered_ THEN kInfiniteDistance ELSE 0
      /\ dist_' \in [Branches -> 0..kInfiniteDistance]
  <2>1. dist_ \in [Branches -> 0..kInfiniteDistance]
    BY DEF TypeOK
  <2>2. CASE b \in covered_
    <3>1. dist_' = [dist_ EXCEPT ![b] = kInfiniteDistance]
      BY <2>2 DEF InitBranch
    <3> QED BY <1>1, <1>2, <2>1, <2>2, <3>1
  <2>3. CASE b \notin covered_
    <3>1. dist_' = [dist_ EXCEPT ![b] = 0]
      BY <2>3 DEF InitBranch
    <3> QED BY <1>1, <1>2, <2>1, <2>3, <3>1
  <2> QED BY <2>2, <2>3
<1>4. /\ Q' = IF b \in covered_ THEN Q ELSE Append(Q, b)
      /\ Q' \in Seq(Branches)
  BY <1>1 DEF InitBranch
<1>5. /\ \A c : InQ(Q, c) => InQ(Q', c)
      /\ b \notin covered_ => InQ(Q', b)
  BY <1>1, <1>4, AppendInQ
<1>6. TypeOK'
  BY <1>1, <1>3, <1>4 DEF TypeOK
<1>7. InitInv'
  <2> SUFFICES ASSUME NEW c \in Branches \ todo'
               PROVE  /\ c \in covered_ => dist_'[c] = kInfiniteDistance
                      /\ c \in Uncovered => dist_'[c] = 0 /\ InQ(Q', c)
    BY <1>1 DEF InitInv, Uncovered
  <2>1. CASE c = b
    BY <1>3, <1>5, <2>1 DEF Uncovered
  <2>2. CASE c # b
    <3>1. c \in Branches \ todo
      BY <1>1, <2>2
    <3> QED BY <1>3, <1>5, <2>2, <3>1 DEF InitInv
  <2> QED BY <2>1, <2>2
<1> QED BY <1>6, <1>7

\* The invariant is inductive, on every graph and every coverage.
LEMMA DistancesStep ==
    ASSUME TypeOK, Inv, [Next]_vars
    PROVE  TypeOK' /\ Inv'
<1>1. ASSUME NEW b \in todo, InitBranch(b) PROVE TypeOK' /\ Inv'
  <2>1. pc = "init" /\ pc' = "init"
    BY <1>1 DEF InitBranch
  <2>2. TypeOK' /\ InitInv'
    BY <1>1, <2>1, InitBranchStep DEF Inv
  <2> QED BY <2>1, <2>2 DEF Inv
<1>2. ASSUME NEW j \in todo, Visit(j) PROVE TypeOK' /\ Inv'
  <2>1. pc = "edges" /\ pc' = "edges"
    BY <1>2 DEF Visit
  <2>2. TypeOK' /\ SearchInv' /\ Listed'
    BY <1>2, <2>1, VisitStep DEF Inv
  <2> QED BY <2>1, <2>2 DEF Inv
<1>3. CASE TakeFront
  <2>1. /\ pc \in {"init", "edges"} /\ pc' = "edges" /\ todo = {}
        /\ UNCHANGED <<cfg_, covered_, dist_, calls>>
        /\ front' = Head(Q) /\ Q' = Tail(Q) /\ todo' = cfg_rev_(Head(Q))
        /\ Q # <<>>
    BY <1>3 DEF TakeFront
  <2>2. SearchInv
    BY <2>1, InitDone DEF Inv
  <2>3. SearchInv' /\ Listed'
    BY <1>3, <2>1, <2>2, FrontStep
  <2>4. Head(Q) \in Branches /\ Tail(Q) \in Seq(Branches)
    BY <2>1 DEF TypeOK
  <2>5. TypeOK'
    BY <2>1, <2>4 DEF TypeOK, cfg_rev_
  <2> QED BY <2>1, <2>3, <2>5 DEF Inv
<1>4. CASE Return
  <2>1. /\ pc \in {"init", "edges"} /\ pc' = "idle"
        /\ todo = {} /\ Q = <<>>
        /\ UNCHANGED <<cfg_, covered_, dist_, Q, front, todo, calls>>
    BY <1>4 DEF Return
  <2>2. SearchInv
    BY <2>1, InitDone DEF Inv
  <2>3. SearchInv'
    BY <2>1, <2>2 DEF SearchInv, Zero, Supported, Relaxed, Uncovered
  <2> QED BY <2>1, <2>3 DEF Inv, TypeOK
<1>5. ASSUME NEW coverage \in SUBSET Branches, Call(coverage)
      PROVE  TypeOK' /\ Inv'
  <2>1. /\ pc' = "init" /\ todo' = Branches /\ covered_' = coverage
        /\ calls' = calls + 1 /\ UNCHANGED <<cfg_, dist_, Q, front>>
    BY <1>5 DEF Call
  <2>2. InitInv'
    BY <2>1 DEF InitInv
  <2> QED BY <2>1, <2>2 DEF Inv, TypeOK
<1>6. CASE UNCHANGED vars
  <2>1. UNCHANGED <<pc, cfg_, covered_, dist_, Q, front, todo, calls>>
    BY <1>6 DEF vars
  <2> QED BY <2>1 DEF Inv, TypeOK, InitInv, SearchInv, Zero, Supported,
           Relaxed, Listed, Uncovered
<1> QED BY <1>1, <1>2, <1>3, <1>4, <1>5, <1>6 DEF Next, Step

LEMMA DistancesInvariant == Spec => [](TypeOK /\ Inv)
<1>1. Init => TypeOK
  BY DistanceAssumption DEF Init, TypeOK
<1>2. Init => Inv
  BY DEF Init, Inv
<1> QED BY <1>1, <1>2, DistancesStep, PTL DEF Spec

\* Every variable has its type, on every graph and every coverage.
THEOREM DistancesTyped == Spec => []TypeOK
BY DistancesInvariant, PTL

\* The function returns the solution of the shortest-path equations.
LEMMA IdleIsShortest == ASSUME TypeOK, Inv PROVE Shortest
<1> SUFFICES ASSUME TypeOK, Inv, pc = "idle", calls > 0,
                    NEW b \in Branches
             PROVE  /\ dist_[b] = 0 <=> b \in Uncovered
                    /\ dist_[b] \in 1..(kInfiniteDistance - 1) =>
                          \E c \in Branches :
                             <<b, c>> \in cfg_ /\ dist_[b] = dist_[c] + 1
                    /\ \A c \in Branches :
                          /\ <<b, c>> \in cfg_
                          /\ dist_[c] + 1 < kInfiniteDistance
                          => dist_[b] <= dist_[c] + 1
  BY DEF Shortest
<1>1. SearchInv /\ Q = <<>> /\ todo = {}
  BY DEF Inv
<1>2. dist_[b] = 0 <=> b \in Uncovered
  BY <1>1 DEF SearchInv, Zero
<1>3. ASSUME NEW c \in Branches, <<b, c>> \in cfg_,
             dist_[c] + 1 < kInfiniteDistance
      PROVE  dist_[b] <= dist_[c] + 1
  <2>1. ~InQ(Q, c)
    BY <1>1 DEF InQ
  <2> QED BY <1>1, <1>3, <2>1 DEF SearchInv, Relaxed
<1>4. ASSUME dist_[b] \in 1..(kInfiniteDistance - 1)
      PROVE  \E c \in Branches :
                <<b, c>> \in cfg_ /\ dist_[b] = dist_[c] + 1
  <2>1. /\ dist_[b] \in Int /\ kInfiniteDistance \in Int
        /\ dist_[b] > 0 /\ dist_[b] < kInfiniteDistance
    BY <1>4, DistTyped
  <2>2. PICK c \in Branches : <<b, c>> \in cfg_ /\ dist_[c] + 1 <= dist_[b]
    BY <1>1, <2>1 DEF SearchInv, Supported
  <2>3. dist_[c] \in Int
    BY DistTyped
  <2>4. dist_[b] <= dist_[c] + 1
    BY <1>3, <2>1, <2>2, <2>3
  <2> QED BY <2>1, <2>2, <2>3, <2>4
<1> QED BY <1>2, <1>3, <1>4

\* Whenever the function returns, a distance is zero for uncovered branches,
\* one more than the least of the successors' distances where that is below
\* kInfiniteDistance, and infinite elsewhere: the shortest-path equations.
THEOREM DistancesAreShortest == Spec => []Shortest
BY IdleIsShortest, DistancesInvariant, PTL

-----------------------------------------------------------------------------
(* The queue hands out branches by distance.                               *)

Distinct == \A m, n \in 1..Len(Q) : m # n => Q[m] # Q[n]

\* Branches queued by the loop over branches_ are behind it, at distance zero.
Started == \A m \in 1..Len(Q) : Q[m] \notin todo /\ dist_[Q[m]] = 0

\* Distances do not fall along the queue, nor exceed the front's by two.
Ordered ==
    /\ \A m, n \in 1..Len(Q) : m <= n => dist_[Q[m]] <= dist_[Q[n]]
    /\ \A m \in 1..Len(Q) :
          /\ Q[m] # front
          /\ dist_[front] <= dist_[Q[m]] /\ dist_[Q[m]] <= dist_[front] + 1

\* A branch that has a distance is no farther than the front's predecessors.
Reached ==
    \A b \in Branches : dist_[b] < kInfiniteDistance => dist_[b] <= dist_[front] + 1

OnceInv ==
    /\ pc = "init" => Distinct /\ Started
    /\ pc = "edges" => Distinct /\ Ordered /\ Reached

LEMMA InitBranchOnce ==
    ASSUME TypeOK, Distinct, Started, NEW b \in todo, InitBranch(b)
    PROVE  Distinct' /\ Started'
<1>1. b \in Branches /\ todo' = todo \ {b} /\ Q \in Seq(Branches)
      /\ Len(Q) \in Nat
  BY DEF InitBranch, TypeOK
<1>2. \A c \in Branches : c # b => dist_'[c] = dist_[c]
  BY <1>1 DEF InitBranch, TypeOK
<1>3. \A m \in 1..Len(Q) : Q[m] \in Branches /\ Q[m] # b
                            /\ Q[m] \notin todo' /\ dist_'[Q[m]] = 0
  BY <1>1, <1>2 DEF Started
<1>4. CASE b \in covered_
  <2>1. Q' = Q
    BY <1>4 DEF InitBranch
  <2> QED BY <1>3, <2>1 DEF Distinct, Started
<1>5. CASE b \notin covered_
  <2>1. Q' = Append(Q, b) /\ dist_' = [dist_ EXCEPT ![b] = 0]
    BY <1>5 DEF InitBranch
  <2>2. dist_'[b] = 0 /\ b \notin todo'
    BY <1>1, <2>1 DEF TypeOK
  <2>3. Len(Q') = Len(Q) + 1 /\ Q'[Len(Q) + 1] = b
        /\ \A m \in 1..Len(Q) : Q'[m] = Q[m]
    BY <1>1, <2>1
  <2>4. \A m \in 1..Len(Q') : m \in 1..Len(Q) \/ m = Len(Q) + 1
    BY <1>1, <2>3
  <2>5. Started'
    BY <1>3, <2>2, <2>3, <2>4 DEF Started
  <2>6. Distinct'
    BY <1>3, <2>3, <2>4 DEF Distinct
  <2> QED BY <2>5, <2>6
<1> QED BY <1>4, <1>5

\* The branch that is queued is farther than every branch that is.
LEMMA VisitOnce ==
    ASSUME TypeOK, Distinct, Ordered, Reached, NEW j \in todo, Visit(j)
    PROVE  Distinct' /\ Ordered' /\ Reached'
<1>1. j \in Branches /\ front \in Branches /\ Q \in Seq(Branches)
      /\ Len(Q) \in Nat /\ \A m \in 1..Len(Q) : Q[m] \in Branches
  BY DEF TypeOK
<1>2. front' = front
  BY DEF Visit
<1>3. \A b \in Branches : dist_[b] \in Int
  BY DistTyped
<1>4. CASE dist_[front] + 1 < dist_[j]
  <2>1. dist_' = [dist_ EXCEPT ![j] = dist_[front] + 1] /\ Q' = Append(Q, j)
    BY <1>4 DEF Visit
  <2>2. /\ dist_'[j] = dist_[front] + 1
        /\ \A b \in Branches : b # j => dist_'[b] = dist_[b]
    BY <1>1, <2>1 DEF TypeOK
  <2>3. front # j /\ \A m \in 1..Len(Q) : Q[m] # j
    BY <1>1, <1>3, <1>4 DEF Ordered
  <2>4. Len(Q') = Len(Q) + 1 /\ Q'[Len(Q) + 1] = j
        /\ \A m \in 1..Len(Q) : Q'[m] = Q[m]
    BY <1>1, <2>1
  <2>5. \A m \in 1..Len(Q') : m \in 1..Len(Q) \/ m = Len(Q) + 1
    BY <1>1, <2>4
  <2>6. Distinct'
    BY <2>3, <2>4, <2>5 DEF Distinct
  <2>7. dist_'[front] = dist_[front]
        /\ \A m \in 1..Len(Q) : dist_'[Q'[m]] = dist_[Q[m]]
    BY <1>1, <2>2, <2>3, <2>4
  <2>8. ASSUME NEW m \in 1..Len(Q')
        PROVE  /\ Q'[m] # front
               /\ dist_[front] <= dist_'[Q'[m]] /\ dist_'[Q'[m]] <= dist_[front] + 1
    <3>1. CASE m \in 1..Len(Q)
      BY <2>4, <2>7, <3>1 DEF Ordered
    <3>2. CASE m = Len(Q) + 1
      BY <1>1, <1>3, <2>2, <2>3, <2>4, <3>2
    <3> QED BY <2>5, <3>1, <3>2
  <2>9. ASSUME NEW m \in 1..Len(Q'), NEW n \in 1..Len(Q'), m <= n
        PROVE  dist_'[Q'[m]] <= dist_'[Q'[n]]
    <3>1. CASE n \in 1..Len(Q)
      <4>1. m \in 1..Len(Q)
        BY <1>1, <2>9, <3>1
      <4> QED BY <2>7, <2>9, <3>1, <4>1 DEF Ordered
    <3>2. CASE n = Len(Q) + 1
      <4>1. dist_'[Q'[n]] = dist_[front] + 1
        BY <2>2, <2>4, <3>2
      <4> QED BY <2>8, <4>1
    <3> QED BY <2>5, <3>1, <3>2
  <2>10. Reached'
    BY <1>1, <1>2, <1>3, <2>2, <2>3 DEF Reached
  <2> QED BY <1>2, <2>6, <2>7, <2>8, <2>9, <2>10 DEF Ordered
<1>5. CASE ~(dist_[front] + 1 < dist_[j])
  <2>1. UNCHANGED <<dist_, Q>>
    BY <1>5 DEF Visit
  <2> QED BY <1>2, <2>1 DEF Distinct, Ordered, Reached
<1> QED BY <1>4, <1>5

LEMMA FrontOnce ==
    ASSUME TypeOK, Inv, OnceInv, TakeFront
    PROVE  Distinct' /\ Ordered' /\ Reached'
<1>1. /\ front' = Head(Q) /\ Q' = Tail(Q) /\ dist_' = dist_ /\ Q # <<>>
      /\ pc \in {"init", "edges"} /\ Q \in Seq(Branches) /\ front \in Branches
  BY DEF TakeFront, TypeOK
<1>2. /\ Len(Q) \in Nat /\ Len(Q') \in Nat /\ Len(Q) = Len(Q') + 1
      /\ 1 \in 1..Len(Q) /\ front' = Q[1]
      /\ \A m \in 1..Len(Q') : m + 1 \in 1..Len(Q) /\ Q'[m] = Q[m + 1]
      /\ \A m \in 1..Len(Q) : Q[m] \in Branches
  BY <1>1
<1>3. \A b \in Branches : dist_[b] \in Int
  BY DistTyped
<1>4. Distinct
  BY <1>1 DEF OnceInv
<1>5. /\ \A m, n \in 1..Len(Q) : m <= n => dist_[Q[m]] <= dist_[Q[n]]
      /\ \A m \in 1..Len(Q) : dist_[Q[m]] <= dist_[Q[1]] + 1
  <2>1. CASE pc = "init"
    <3>1. \A m \in 1..Len(Q) : dist_[Q[m]] = 0
      BY <2>1 DEF OnceInv, Started
    <3> QED BY <1>2, <3>1
  <2>2. CASE pc = "edges"
    <3>1. ASSUME NEW m \in 1..Len(Q)
          PROVE  dist_[Q[m]] <= dist_[Q[1]] + 1
      <4>1. dist_[Q[m]] <= dist_[front] + 1 /\ dist_[front] <= dist_[Q[1]]
        BY <1>2, <2>2 DEF OnceInv, Ordered
      <4>2. dist_[Q[m]] \in Int /\ dist_[Q[1]] \in Int /\ dist_[front] \in Int
        BY <1>1, <1>2, <1>3
      <4> QED BY <4>1, <4>2
    <3> QED BY <2>2, <3>1 DEF OnceInv, Ordered
  <2> QED BY <1>1, <2>1, <2>2
<1>6. \A m \in 1..Len(Q') : m + 1 # 1 /\ 1 <= m + 1
  BY <1>2
<1>7. Distinct'
  <2> SUFFICES ASSUME NEW m \in 1..Len(Q'), NEW n \in 1..Len(Q'), m # n
               PROVE  Q'[m] # Q'[n]
    BY DEF Distinct
  <2>1. m + 1 # n + 1
    BY <1>2
  <2> QED BY <1>2, <1>4, <2>1 DEF Distinct
<1>8. ASSUME NEW m \in 1..Len(Q')
      PROVE  /\ Q'[m] # front'
             /\ dist_'[front'] <= dist_'[Q'[m]]
             /\ dist_'[Q'[m]] <= dist_'[front'] + 1
  <2>1. m + 1 \in 1..Len(Q) /\ Q'[m] = Q[m + 1] /\ m + 1 # 1 /\ 1 <= m + 1
    BY <1>2, <1>6
  <2>2. Q[m + 1] # Q[1]
    BY <1>2, <1>4, <2>1 DEF Distinct
  <2>3. dist_[Q[1]] <= dist_[Q[m + 1]] /\ dist_[Q[m + 1]] <= dist_[Q[1]] + 1
    BY <1>2, <1>5, <2>1
  <2> QED BY <1>1, <1>2, <2>1, <2>2, <2>3
<1>9. ASSUME NEW m \in 1..Len(Q'), NEW n \in 1..Len(Q'), m <= n
      PROVE  dist_'[Q'[m]] <= dist_'[Q'[n]]
  <2>1. m + 1 <= n + 1
    BY <1>2, <1>9
  <2> QED BY <1>1, <1>2, <1>5, <2>1
<1>10. Reached'
  <2> SUFFICES ASSUME NEW b \in Branches, dist_[b] < kInfiniteDistance
               PROVE  dist_[b] <= dist_[Q[1]] + 1
    BY <1>1, <1>2 DEF Reached
  <2>1. CASE pc = "init"
    <3>1. InitInv /\ todo = {}
      BY <2>1 DEF Inv, TakeFront
    <3>2. dist_[b] = 0
      BY <2>1, <3>1, DistTyped DEF InitInv, Uncovered
    <3>3. 0 <= dist_[Q[1]] /\ dist_[Q[1]] \in Int
      BY <1>2, DistTyped
    <3> QED BY <3>2, <3>3
  <2>2. CASE pc = "edges"
    <3>1. dist_[b] <= dist_[front] + 1 /\ dist_[front] <= dist_[Q[1]]
      BY <1>2, <2>2 DEF OnceInv, Ordered, Reached
    <3>2. dist_[b] \in Int /\ dist_[Q[1]] \in Int /\ dist_[front] \in Int
      BY <1>1, <1>2, <1>3
    <3> QED BY <3>1, <3>2
  <2> QED BY <1>1, <2>1, <2>2
<1> QED BY <1>7, <1>8, <1>9, <1>10 DEF Ordered

LEMMA OnceStep ==
    ASSUME TypeOK, Inv, OnceInv, [Next]_vars
    PROVE  OnceInv'
<1>1. ASSUME NEW b \in todo, InitBranch(b)
      PROVE  OnceInv'
  <2>1. pc = "init" /\ pc' = "init"
    BY <1>1 DEF InitBranch
  <2> QED BY <1>1, <2>1, InitBranchOnce DEF OnceInv
<1>2. ASSUME NEW j \in todo, Visit(j)
      PROVE  OnceInv'
  <2>1. pc = "edges" /\ pc' = "edges"
    BY <1>2 DEF Visit
  <2> QED BY <1>2, <2>1, VisitOnce DEF OnceInv
<1>3. CASE TakeFront
  <2>1. pc' = "edges"
    BY <1>3 DEF TakeFront
  <2> QED BY <1>3, <2>1, FrontOnce DEF OnceInv
<1>4. CASE Return
  BY <1>4 DEF Return, OnceInv
<1>5. ASSUME NEW coverage \in SUBSET Branches, Call(coverage)
      PROVE  OnceInv'
  <2>1. pc' = "init" /\ Q' = <<>>
    BY <1>5 DEF Call, Inv
  <2> QED BY <2>1 DEF OnceInv, Distinct, Started
<1>6. CASE UNCHANGED vars
  BY <1>6 DEF vars, OnceInv, Distinct, Started, Ordered, Reached
<1> QED BY <1>1, <1>2, <1>3, <1>4, <1>5, <1>6 DEF Next, Step

LEMMA OnceInvariant == Spec => []OnceInv
<1>1. Init => OnceInv
  BY DEF Init, OnceInv
<1> QED BY <1>1, OnceStep, DistancesInvariant, PTL DEF Spec

LEMMA QueuedOnce == ASSUME TypeOK, OnceInv PROVE EnqueuedOnce
<1> SUFFICES ASSUME TypeOK, OnceInv, pc \in {"init", "edges"}
             PROVE  /\ \A m, n \in DOMAIN Q : m # n => Q[m] # Q[n]
                    /\ pc = "edges" => \A m \in DOMAIN Q :
                          Q[m] # front
                          /\ dist_[Q[m]] \in dist_[front]..(dist_[front] + 1)
  BY DEF EnqueuedOnce
<1>1. DOMAIN Q = 1..Len(Q) /\ \A m \in 1..Len(Q) : Q[m] \in Branches
  BY DEF TypeOK
<1>2. \A b \in Branches : dist_[b] \in Int
  BY DistTyped
<1>3. front \in Branches
  BY DEF TypeOK
<1> QED BY <1>1, <1>2, <1>3 DEF OnceInv, Distinct, Ordered

\* No branch is in the queue twice or while its predecessors are visited, and
\* none is two steps farther than the front (concolic_search.cc:1447-1458).
THEOREM BranchesEnqueuedOnce == Spec => []EnqueuedOnce
BY QueuedOnce, OnceInvariant, DistancesInvariant, PTL

\* The search itself only replaces infinite distances, with finite ones.
AssignedOnce ==
    [][pc # "init" =>
        \A b \in Branches : dist_'[b] # dist_[b] =>
            dist_[b] = kInfiniteDistance /\ dist_'[b] < kInfiniteDistance]_vars

\* A call gives each covered branch a distance, and queues it, at most once:
\* what it found first is never improved (concolic_search.cc:1451-1457).
THEOREM DistancesAssignedOnce == Spec => AssignedOnce
<1>1. TypeOK /\ Inv /\ OnceInv /\ [Next]_vars =>
        [pc # "init" =>
            \A b \in Branches : dist_'[b] # dist_[b] =>
                dist_[b] = kInfiniteDistance /\ dist_'[b] < kInfiniteDistance]_vars
  <2> SUFFICES ASSUME TypeOK, OnceInv, Next, pc # "init",
                      NEW b \in Branches, dist_'[b] # dist_[b]
               PROVE  dist_[b] = kInfiniteDistance /\ dist_'[b] < kInfiniteDistance
    OBVIOUS
  <2>1. PICK j \in todo : Visit(j)
    BY DEF Next, Step, Call, TakeFront, Return, InitBranch
  <2>2. pc = "edges" /\ j \in Branches /\ front \in Branches
    BY <2>1 DEF Visit, TypeOK
  <2>3. /\ dist_[front] + 1 < dist_[j]
        /\ dist_' = [dist_ EXCEPT ![j] = dist_[front] + 1]
    BY <2>1 DEF Visit
  <2>4. b = j /\ dist_'[b] = dist_[front] + 1
    BY <2>2, <2>3 DEF TypeOK
  <2>5. dist_[j] < kInfiniteDistance => dist_[j] <= dist_[front] + 1
    BY <2>2 DEF OnceInv, Reached
  <2>6. /\ dist_[j] \in Int /\ dist_[j] <= kInfiniteDistance
        /\ dist_[front] \in Int /\ kInfiniteDistance \in Int
    BY <2>2, DistTyped
  <2> QED BY <2>3, <2>4, <2>5, <2>6
<1> QED BY <1>1, OnceInvariant, DistancesInvariant, PTL DEF Spec, AssignedOnce

-----------------------------------------------------------------------------
(* Recursive functions, unfolded.                                          *)

\* Induction over the natural numbers, for sets.
LEMMA NatLeast ==
    ASSUME NEW T \in SUBSET Nat, T # {}
    PROVE  \E x \in T : \A y \in T : x <= y
<1>1. PICK x \in T : \A y \in T : <<y, x>> \notin OpToRel(<, Nat)
  BY NatLessThanWellFounded, WFMin
<1>2. \A y \in T : ~(y < x)
  BY <1>1 DEF OpToRel
<1> QED BY <1>2

LEMMA NatSet ==
    ASSUME NEW S, 0 \in S, \A n \in Nat : n \in S => n + 1 \in S
    PROVE  \A n \in Nat : n \in S
<1> SUFFICES ASSUME {n \in Nat : n \notin S} # {} PROVE FALSE
  OBVIOUS
<1>1. PICK x \in {n \in Nat : n \notin S} :
         \A y \in {n \in Nat : n \notin S} : x <= y
  BY NatLeast
<1>2. x - 1 \in Nat /\ x - 1 \in S /\ (x - 1) + 1 = x
  BY <1>1
<1> QED BY <1>1, <1>2

\* The first n + 1 members of the sequence U, G[U], G[G[U]], ...
Upto(A, U, G, n) ==
    {f \in [0..n -> A] : f[0] = U /\ \A k \in 0..(n - 1) : f[k + 1] = G[f[k]]}

LEMMA UptoAgree ==
    ASSUME NEW A, NEW U, NEW G, NEW m \in Nat, NEW n \in Nat,
           NEW f \in Upto(A, U, G, m), NEW h \in Upto(A, U, G, n)
    PROVE  \A k \in Nat : k <= m /\ k <= n => f[k] = h[k]
<1> DEFINE S == {k \in Nat : k <= m /\ k <= n => f[k] = h[k]}
<1>1. 0 \in S
  BY DEF Upto
<1>2. ASSUME NEW k \in Nat, k \in S PROVE k + 1 \in S
  <2> SUFFICES ASSUME k + 1 <= m, k + 1 <= n PROVE f[k + 1] = h[k + 1]
    OBVIOUS
  <2>1. k \in 0..(m - 1) /\ k \in 0..(n - 1) /\ k <= m /\ k <= n
    OBVIOUS
  <2>2. f[k] = h[k]
    BY <1>2, <2>1
  <2>3. f[k + 1] = G[f[k]] /\ h[k + 1] = G[h[k]]
    BY <2>1 DEF Upto
  <2> QED BY <2>2, <2>3
<1> HIDE DEF S
<1>3. \A k \in Nat : k \in S
  BY <1>1, <1>2, NatSet
<1> QED BY <1>3 DEF S

LEMMA UptoExists ==
    ASSUME NEW A, NEW U \in A, NEW G \in [A -> A]
    PROVE  \A n \in Nat : Upto(A, U, G, n) # {}
<1> DEFINE S == {n \in Nat : Upto(A, U, G, n) # {}}
<1>1. 0 \in S
  <2>1. [k \in 0..0 |-> U] \in Upto(A, U, G, 0)
    BY DEF Upto
  <2> QED BY <2>1
<1>2. ASSUME NEW n \in Nat, n \in S PROVE n + 1 \in S
  <2>1. PICK f \in [0..n -> A] :
           f[0] = U /\ \A k \in 0..(n - 1) : f[k + 1] = G[f[k]]
    BY <1>2 DEF Upto
  <2> DEFINE h == [k \in 0..(n + 1) |-> IF k <= n THEN f[k] ELSE G[f[n]]]
  <2>2. h \in [0..(n + 1) -> A]
    <3>1. n \in 0..n
      OBVIOUS
    <3>2. \A k \in 0..(n + 1) : k <= n => k \in 0..n
      OBVIOUS
    <3> QED BY <2>1, <3>1, <3>2
  <2>3. h[0] = U
    BY <2>1
  <2>4. ASSUME NEW k \in 0..((n + 1) - 1) PROVE h[k + 1] = G[h[k]]
    <3>1. k \in 0..(n + 1) /\ k + 1 \in 0..(n + 1) /\ h[k] = f[k]
      OBVIOUS
    <3>2. CASE k < n
      <4>1. k \in 0..(n - 1) /\ k + 1 <= n
        BY <3>2
      <4>2. h[k + 1] = f[k + 1]
        BY <3>1, <4>1
      <4> QED BY <2>1, <3>1, <4>1, <4>2
    <3>3. CASE k = n
      <4>1. ~(k + 1 <= n)
        BY <3>3
      <4>2. h[k + 1] = G[f[n]]
        BY <3>1, <4>1
      <4> QED BY <3>1, <3>3, <4>2
    <3> QED BY <3>2, <3>3
  <2> HIDE DEF h
  <2>5. h \in Upto(A, U, G, n + 1)
    BY <2>2, <2>3, <2>4 DEF Upto
  <2> QED BY <2>5
<1> HIDE DEF S
<1>3. \A n \in Nat : n \in S
  BY <1>1, <1>2, NatSet
<1> QED BY <1>3 DEF S

\* A step repeated from U gives a function on the natural numbers.
LEMMA Iterates ==
    ASSUME NEW A, NEW U \in A, NEW G \in [A -> A]
    PROVE  \E f \in [Nat -> A] : f[0] = U /\ \A k \in Nat : f[k + 1] = G[f[k]]
<1> DEFINE part(n) == CHOOSE f : f \in Upto(A, U, G, n)
           F == [n \in Nat |-> part(n)[n]]
<1>1. ASSUME NEW n \in Nat PROVE part(n) \in Upto(A, U, G, n)
  <2>1. \E f : f \in Upto(A, U, G, n)
    BY UptoExists
  <2> QED BY Zenon, <2>1
<1> HIDE DEF part
<1>2. F \in [Nat -> A]
  <2>1. ASSUME NEW n \in Nat PROVE part(n)[n] \in A
    BY <1>1 DEF Upto
  <2> QED BY <2>1
<1>3. F[0] = U
  BY <1>1 DEF Upto
<1>4. ASSUME NEW k \in Nat PROVE F[k + 1] = G[F[k]]
  <2>1. /\ k + 1 \in Nat /\ k <= k + 1 /\ k <= k /\ k \in 0..((k + 1) - 1)
        /\ F[k] = part(k)[k] /\ F[k + 1] = part(k + 1)[k + 1]
    OBVIOUS
  <2>2. part(k) \in Upto(A, U, G, k) /\ part(k + 1) \in Upto(A, U, G, k + 1)
    BY <1>1, <2>1
  <2>3. part(k + 1)[k] = part(k)[k]
    BY <2>1, <2>2, UptoAgree
  <2>4. part(k + 1)[k + 1] = G[part(k + 1)[k]]
    BY <2>1, <2>2 DEF Upto
  <2> QED BY <2>1, <2>3, <2>4
<1> HIDE DEF F
<1> QED BY <1>2, <1>3, <1>4

\* Thin!Silent for a given graph, with its recursive function unfolded.
ReachIn(g, i) ==
    CHOOSE f : f = [k \in Nat |->
        IF k = 0 THEN {i}
        ELSE f[k - 1] \cup ((UNION {g[n] : n \in f[k - 1]}) \ Branches)]

SilentIn(g, i) == ReachIn(g, i)[Cardinality(Nodes)]

Graph == [Nodes -> SUBSET Nodes]

LEMMA ReachFacts ==
    ASSUME NEW g \in Graph, NEW i \in Nodes
    PROVE  /\ \A k \in Nat : ReachIn(g, i)[k] \subseteq Nodes
           /\ ReachIn(g, i)[0] = {i}
           /\ \A k \in Nat :
                 ReachIn(g, i)[k + 1] = ReachIn(g, i)[k] \cup
                    ((UNION {g[n] : n \in ReachIn(g, i)[k]}) \ Branches)
<1> DEFINE more(X) == X \cup ((UNION {g[n] : n \in X}) \ Branches)
           G == [X \in SUBSET Nodes |-> more(X)]
           R == ReachIn(g, i)
<1>1. G \in [SUBSET Nodes -> SUBSET Nodes]
  BY DEF Graph
<1>2. PICK f \in [Nat -> SUBSET Nodes] :
         f[0] = {i} /\ \A k \in Nat : f[k + 1] = G[f[k]]
  <2>1. {i} \in SUBSET Nodes
    OBVIOUS
  <2> HIDE DEF G
  <2> DEFINE A == SUBSET Nodes
  <2>2. {i} \in A /\ G \in [A -> A]
    BY Zenon, <1>1, <2>1
  <2> HIDE DEF A
  <2>3. \E f \in [Nat -> A] : f[0] = {i} /\ \A k \in Nat : f[k + 1] = G[f[k]]
    BY SMTT(30), <2>2, Iterates
  <2> QED BY <2>3 DEF A
<1>3. \A k \in Nat : f[k + 1] = more(f[k])
  BY <1>2
<1> HIDE DEF more
<1>4. f = [k \in Nat |-> IF k = 0 THEN {i} ELSE more(f[k - 1])]
  <2>1. ASSUME NEW k \in Nat
        PROVE  f[k] = IF k = 0 THEN {i} ELSE more(f[k - 1])
    <3>1. CASE k = 0
      BY <1>2, <3>1
    <3>2. CASE k # 0
      <4>1. k - 1 \in Nat /\ (k - 1) + 1 = k
        BY <3>2
      <4>2. f[(k - 1) + 1] = more(f[k - 1])
        BY <1>3, <4>1
      <4> QED BY <3>2, <4>1, <4>2
    <3> QED BY <3>1, <3>2
  <2> QED BY <1>2, <2>1
<1>5. R = [k \in Nat |-> IF k = 0 THEN {i} ELSE more(R[k - 1])]
  BY ZenonT(60), <1>4 DEF ReachIn, more
<1> HIDE DEF R
<1>6. R[0] = {i}
  BY <1>5
<1>7. ASSUME NEW k \in Nat PROVE R[k + 1] = more(R[k])
  <2>1. k + 1 \in Nat /\ k + 1 # 0 /\ (k + 1) - 1 = k
    OBVIOUS
  <2>2. R[k + 1] = more(R[(k + 1) - 1])
    BY <1>5, <2>1
  <2> QED BY <2>1, <2>2
<1> DEFINE S == {k \in Nat : R[k] \subseteq Nodes}
<1>8. 0 \in S
  BY <1>6
<1>9. ASSUME NEW k \in Nat, k \in S PROVE k + 1 \in S
  BY <1>7, <1>9 DEF more, Graph
<1> HIDE DEF S
<1>10. \A k \in Nat : k \in S
  BY <1>8, <1>9, NatSet
<1>11. \A k \in Nat : R[k] \subseteq Nodes
  BY <1>10 DEF S
<1> QED BY <1>6, <1>7, <1>11 DEF R, more

\* A search without entering a branch is complete after as many steps as
\* there are nodes: a step that finds nothing is followed by no other.
LEMMA SilentClosed ==
    ASSUME NEW g \in Graph, NEW i \in Nodes
    PROVE  /\ i \in SilentIn(g, i) /\ SilentIn(g, i) \subseteq Nodes
           /\ \A n \in SilentIn(g, i) : g[n] \ Branches \subseteq SilentIn(g, i)
<1> DEFINE R == ReachIn(g, i)
           N == Cardinality(Nodes)
           more(X) == X \cup ((UNION {g[n] : n \in X}) \ Branches)
<1>1. /\ \A k \in Nat : R[k] \subseteq Nodes
      /\ R[0] = {i}
      /\ \A k \in Nat : R[k + 1] = more(R[k])
  BY ReachFacts
<1>2. IsFiniteSet(Nodes) /\ N \in Nat
  BY PipelineAssumption, FS_CardinalityType
<1> HIDE DEF R, more
<1>3. \A k \in Nat : IsFiniteSet(R[k]) /\ Cardinality(R[k]) \in Nat
                     /\ Cardinality(R[k]) <= N
  <2> SUFFICES ASSUME NEW k \in Nat
               PROVE  IsFiniteSet(R[k]) /\ Cardinality(R[k]) \in Nat
                      /\ Cardinality(R[k]) <= N
    OBVIOUS
  <2>1. R[k] \in SUBSET Nodes
    BY <1>1
  <2> QED BY <1>2, <2>1, FS_Subset, FS_CardinalityType
<1> DEFINE S == {k \in Nat : R[k + 1] = R[k] \/ Cardinality(R[k]) > k}
           T == {k \in Nat : i \in R[k]}
<1>4. 0 \in S
  <2>1. Cardinality(R[0]) = 1
    BY Zenon, <1>1, FS_Singleton
  <2> QED BY <2>1
<1>5. ASSUME NEW k \in Nat, k \in S PROVE k + 1 \in S
  <2>1. CASE R[k + 1] = R[k]
    BY <1>1, <2>1
  <2>2. CASE R[k + 1] # R[k] /\ Cardinality(R[k]) > k
    <3>1. R[k] \in SUBSET R[k + 1]
      BY <1>1 DEF more
    <3>2. IsFiniteSet(R[k + 1])
      BY <1>3
    <3>3. /\ Cardinality(R[k]) <= Cardinality(R[k + 1])
          /\ Cardinality(R[k + 1]) # Cardinality(R[k])
      BY <2>2, <3>1, <3>2, FS_Subset
    <3>4. Cardinality(R[k]) \in Nat /\ Cardinality(R[k + 1]) \in Nat
      BY <1>3
    <3>5. Cardinality(R[k + 1]) > k + 1
      BY <2>2, <3>3, <3>4
    <3> QED BY <3>5
  <2> QED BY <1>5, <2>1, <2>2
<1>6. 0 \in T /\ \A k \in Nat : k \in T => k + 1 \in T
  BY <1>1 DEF more
<1> HIDE DEF S, T
<1>7. N \in S /\ N \in T
  BY <1>2, <1>4, <1>5, <1>6, NatSet
<1>8. R[N + 1] = R[N] /\ i \in R[N]
  BY <1>2, <1>3, <1>7 DEF S, T
<1>9. R[N] = more(R[N]) /\ R[N] \subseteq Nodes
  BY <1>1, <1>2, <1>8
<1> HIDE DEF N
<1>10. \A n \in R[N] : g[n] \ Branches \subseteq R[N]
  BY <1>9 DEF more
<1> QED BY <1>8, <1>9, <1>10 DEF SilentIn, R, N

\* ... and finds nothing it need not.
LEMMA SilentLeast ==
    ASSUME NEW g \in Graph, NEW i \in Nodes,
           NEW X, i \in X, \A n \in X : g[n] \ Branches \subseteq X
    PROVE  SilentIn(g, i) \subseteq X
<1> DEFINE R == ReachIn(g, i)
           S == {k \in Nat : R[k] \subseteq X}
           more(Y) == Y \cup ((UNION {g[n] : n \in Y}) \ Branches)
<1>1. /\ R[0] = {i}
      /\ \A k \in Nat : R[k + 1] = more(R[k])
  BY ReachFacts
<1> HIDE DEF R
<1>2. 0 \in S
  BY <1>1
<1>3. ASSUME NEW k \in Nat, k \in S PROVE k + 1 \in S
  BY <1>1, <1>3
<1> HIDE DEF S
<1>4. Cardinality(Nodes) \in S
  BY <1>2, <1>3, NatSet, PipelineAssumption, FS_CardinalityType
<1> QED BY <1>4 DEF S, SilentIn, R

\* The definition of ThinCfg is the unfolded one.
LEMMA SilentUnfolded ==
    \A i : Thin!Silent(i) = SilentIn(cfg, i)
BY Zenon DEF Thin!Silent, SilentIn, ReachIn, Thin!Cardinality, Cardinality

LEMMA EnteringFacts ==
    /\ \A k \in Nat : Entering[k] \subseteq Branches
    /\ Entering[0] = Uncovered
    /\ \A k \in Nat :
          Entering[k + 1] = Entering[k] \cup
             {b \in Branches :
                \E n \in Thin!Silent(b), c \in Entering[k] : c \in cfg[n]}
<1> DEFINE more(X) == X \cup {b \in Branches :
                          \E n \in Thin!Silent(b), c \in X : c \in cfg[n]}
           G == [X \in SUBSET Branches |-> more(X)]
<1>1. G \in [SUBSET Branches -> SUBSET Branches]
  OBVIOUS
<1>2. PICK f \in [Nat -> SUBSET Branches] :
         f[0] = Uncovered /\ \A k \in Nat : f[k + 1] = G[f[k]]
  <2>1. Uncovered \in SUBSET Branches
    BY DEF Uncovered
  <2> HIDE DEF G
  <2> DEFINE A == SUBSET Branches
  <2>2. Uncovered \in A /\ G \in [A -> A]
    BY <1>1, <2>1
  <2> HIDE DEF A
  <2>3. \E f \in [Nat -> A] : f[0] = Uncovered /\ \A k \in Nat : f[k + 1] = G[f[k]]
    BY SMTT(30), <2>2, Iterates
  <2> QED BY <2>3 DEF A
<1>3. \A k \in Nat : f[k + 1] = more(f[k])
  BY <1>2
<1> HIDE DEF more
<1>4. f = [k \in Nat |-> IF k = 0 THEN Uncovered ELSE more(f[k - 1])]
  <2>1. ASSUME NEW k \in Nat
        PROVE  f[k] = IF k = 0 THEN Uncovered ELSE more(f[k - 1])
    <3>1. CASE k = 0
      BY <1>2, <3>1
    <3>2. CASE k # 0
      <4>1. k - 1 \in Nat /\ (k - 1) + 1 = k
        BY <3>2
      <4>2. f[(k - 1) + 1] = more(f[k - 1])
        BY <1>3, <4>1
      <4> QED BY <3>2, <4>1, <4>2
    <3> QED BY <3>1, <3>2
  <2> QED BY <1>2, <2>1
<1>5. Entering = [k \in Nat |-> IF k = 0 THEN Uncovered ELSE more(Entering[k - 1])]
  BY ZenonT(60), <1>4 DEF Entering, more
<1>6. Entering[0] = Uncovered
  BY <1>5
<1>7. ASSUME NEW k \in Nat PROVE Entering[k + 1] = more(Entering[k])
  <2>1. k + 1 \in Nat /\ k + 1 # 0 /\ (k + 1) - 1 = k
    OBVIOUS
  <2>2. Entering[k + 1] = more(Entering[(k + 1) - 1])
    BY <1>5, <2>1
  <2> QED BY <2>1, <2>2
<1> DEFINE S == {k \in Nat : Entering[k] \subseteq Branches}
<1>8. 0 \in S
  BY <1>6 DEF Uncovered
<1>9. ASSUME NEW k \in Nat, k \in S PROVE k + 1 \in S
  BY <1>7, <1>9 DEF more
<1> HIDE DEF S
<1>10. \A k \in Nat : k \in S
  BY <1>8, <1>9, NatSet
<1> QED BY <1>6, <1>7, <1>10 DEF S, more

-----------------------------------------------------------------------------
(* process_cfg writes the thinned graph.                                   *)

ThinTypes ==
    /\ thin_pc \in {"next", "search", "collect", "done"}
    /\ cfg \in Graph /\ src \in Nodes /\ sources \subseteq Branches
    /\ dist_map \in [Nodes -> {0, 1, 3}] /\ finished \subseteq Nodes

\* A distance is that of a path: zero for what src reaches without entering
\* a branch, one only for branches entered from there.
PathsFound ==
    /\ src \in Branches \ sources /\ dist_map[src] = 0
    /\ \A u \in Nodes : dist_map[u] = 0 => u \in SilentIn(cfg, src)
    /\ \A b \in Branches :
          /\ dist_map[b] = 0 => b = src
          /\ dist_map[b] = 1 => \E n \in SilentIn(cfg, src) : b \in cfg[n]

\* The queue holds the reached nodes that are not finished, none of them
\* nearer than a finished one.
Frontier ==
    /\ thin_Q = {<<dist_map[u], u>> : u \in {u \in Nodes \ finished : dist_map[u] <= 1}}
    /\ \A v \in finished : \A u \in Nodes \ finished : dist_map[v] <= dist_map[u]

\* The edges of a node finished at distance zero have been followed.
Followed ==
    \A v \in finished : dist_map[v] = 0 =>
        \A u \in cfg[v] : dist_map[u] <= IF u \in Branches THEN 1 ELSE 0

ThinnedIn(g) ==
    {e \in Branches \X Branches :
        e[1] # e[2] /\ \E n \in SilentIn(g, e[1]) : e[2] \in g[n]}

\* cfg_branches holds the edges of the sources dealt with.
Written ==
    nbhrs = {e \in ThinnedIn(cfg) :
                /\ e[1] \notin sources
                /\ thin_pc \in {"search", "collect"} => e[1] # src}

ThinInv ==
    /\ ThinTypes /\ Written
    /\ thin_pc \in {"search", "collect"} => PathsFound /\ Frontier /\ Followed
    /\ thin_pc = "collect" => thin_Q = {}
    /\ thin_pc = "done" => sources = {}

LEMMA GraphNodes ==
    ASSUME ThinTypes, NEW v \in Nodes
    PROVE  /\ cfg[v] \subseteq Nodes /\ Branches \subseteq Nodes
           /\ dist_map[v] \in {0, 1, 3}
BY PipelineAssumption DEF ThinTypes, Graph

LEMMA StartSourceStep ==
    ASSUME ThinInv, NEW b \in sources, Thin!StartSource(b)
    PROVE  ThinInv'
<1>1. /\ thin_pc = "next" /\ thin_pc' = "search" /\ b \in sources
      /\ src' = b /\ sources' = sources \ {b}
      /\ dist_map' = [u \in Nodes |-> IF u = b THEN 0 ELSE 3]
      /\ thin_Q' = {<<0, b>>} /\ finished' = {}
      /\ cfg' = cfg /\ nbhrs' = nbhrs
  BY DEF Thin!StartSource, Thin!Unreached, Thin!MaxDist
<1>2. b \in Branches /\ b \in Nodes /\ Branches \subseteq Nodes
  BY PipelineAssumption DEF ThinInv, ThinTypes
<1>3. \A u \in Nodes : dist_map'[u] = IF u = b THEN 0 ELSE 3
  BY <1>1
<1>4. ThinTypes'
  BY <1>1, <1>2 DEF ThinInv, ThinTypes
<1>5. b \in SilentIn(cfg, b)
  BY <1>2, SilentClosed DEF ThinInv, ThinTypes
<1>6. PathsFound'
  BY <1>1, <1>2, <1>3, <1>5 DEF PathsFound
<1>7. Frontier'
  <2>1. {u \in Nodes \ finished' : dist_map'[u] <= 1} = {b}
    BY <1>1, <1>2, <1>3
  <2> QED BY <1>1, <1>2, <1>3, <2>1 DEF Frontier
<1>8. Followed'
  BY <1>1 DEF Followed
<1>9. Written'
  <2>1. nbhrs = {e \in ThinnedIn(cfg) : e[1] \notin sources}
    BY <1>1 DEF ThinInv, Written
  <2>2. \A e : e[1] \notin sources <=> e[1] \notin sources' /\ e[1] # b
    BY <1>1
  <2> QED BY <1>1, <2>1, <2>2 DEF Written
<1> QED BY <1>1, <1>4, <1>6, <1>7, <1>8, <1>9 DEF ThinInv

LEMMA QueueEmptyStep ==
    ASSUME ThinInv, Thin!QueueEmpty
    PROVE  ThinInv'
<1>1. /\ thin_pc = "search" /\ thin_pc' = "collect" /\ thin_Q = {}
      /\ UNCHANGED <<cfg, sources, src, dist_map, thin_Q, finished, nbhrs>>
  BY DEF Thin!QueueEmpty
<1>2. ThinTypes' /\ Written'
  BY <1>1 DEF ThinInv, ThinTypes, Written
<1>3. PathsFound' /\ Frontier' /\ Followed'
  BY <1>1 DEF ThinInv, PathsFound, Frontier, Followed
<1> QED BY <1>1, <1>2, <1>3 DEF ThinInv

LEMMA CollectStep ==
    ASSUME ThinInv, Thin!Collect
    PROVE  ThinInv'
<1>1. /\ thin_pc = "collect" /\ thin_pc' \in {"next", "done"}
      /\ thin_pc' = "done" => sources = {}
      /\ nbhrs' = nbhrs \cup {<<src, j>> : j \in {j \in Branches : dist_map[j] = 1}}
      /\ UNCHANGED <<cfg, sources, src, dist_map, thin_Q, finished>>
  BY DEF Thin!Collect
<1>2. ThinTypes /\ PathsFound /\ Frontier /\ Followed /\ Written /\ thin_Q = {}
  BY <1>1 DEF ThinInv
<1>3. src \in Branches /\ src \notin sources /\ src \in Nodes /\ cfg \in Graph
      /\ Branches \subseteq Nodes
  BY <1>2, PipelineAssumption DEF ThinTypes, PathsFound
<1>4. \A u \in Nodes : dist_map[u] <= 1 => u \in finished
  <2> SUFFICES ASSUME NEW u \in Nodes, dist_map[u] <= 1, u \notin finished
               PROVE  FALSE
    OBVIOUS
  <2>1. <<dist_map[u], u>> \in thin_Q
    BY <1>2 DEF Frontier
  <2> QED BY <1>2, <2>1
<1>5. \A v \in SilentIn(cfg, src) : v \in Nodes /\ dist_map[v] = 0
  <2> DEFINE X == {v \in Nodes : dist_map[v] = 0}
  <2>1. src \in X
    BY <1>2, <1>3 DEF PathsFound
  <2>2. ASSUME NEW v \in X PROVE cfg[v] \ Branches \subseteq X
    <3>1. v \in finished
      BY <1>4
    <3> SUFFICES ASSUME NEW u \in cfg[v], u \notin Branches PROVE u \in X
      OBVIOUS
    <3>2. dist_map[u] <= 0
      BY <1>2, <3>1 DEF Followed
    <3>3. u \in Nodes /\ dist_map[u] \in {0, 1, 3}
      BY <1>2, GraphNodes
    <3> QED BY <3>2, <3>3
  <2> HIDE DEF X
  <2>3. SilentIn(cfg, src) \subseteq X
    BY <1>3, <2>1, <2>2, SilentLeast
  <2> QED BY <2>3 DEF X
<1>6. ASSUME NEW j \in Branches
      PROVE  dist_map[j] = 1 <=>
                src # j /\ \E n \in SilentIn(cfg, src) : j \in cfg[n]
  <2>1. ASSUME dist_map[j] = 1
        PROVE  src # j /\ \E n \in SilentIn(cfg, src) : j \in cfg[n]
    BY <1>2, <2>1 DEF PathsFound
  <2>2. ASSUME src # j, NEW n \in SilentIn(cfg, src), j \in cfg[n]
        PROVE  dist_map[j] = 1
    <3>1. n \in finished /\ dist_map[n] = 0
      BY <1>4, <1>5
    <3>2. dist_map[j] <= 1
      BY <1>2, <2>2, <3>1 DEF Followed
    <3>3. dist_map[j] \in {0, 1, 3}
      BY <1>2, <1>3, GraphNodes
    <3>4. dist_map[j] # 0
      BY <1>2, <2>2 DEF PathsFound
    <3> QED BY <3>2, <3>3, <3>4
  <2> QED BY <2>1, <2>2
<1>7. {<<src, j>> : j \in {j \in Branches : dist_map[j] = 1}} =
      {e \in ThinnedIn(cfg) : e[1] = src}
  <2>1. ASSUME NEW j \in Branches, dist_map[j] = 1
        PROVE  <<src, j>> \in ThinnedIn(cfg) /\ <<src, j>>[1] = src
    BY <1>3, <1>6, <2>1 DEF ThinnedIn
  <2>2. ASSUME NEW e \in ThinnedIn(cfg), e[1] = src
        PROVE  e[2] \in Branches /\ dist_map[e[2]] = 1 /\ e = <<src, e[2]>>
    BY <1>6, <2>2 DEF ThinnedIn
  <2> QED BY <2>1, <2>2
<1>8. Written'
  <2>1. nbhrs = {e \in ThinnedIn(cfg) : e[1] \notin sources /\ e[1] # src}
    BY <1>1, <1>2 DEF Written
  <2>2. nbhrs' = {e \in ThinnedIn(cfg) : e[1] \notin sources}
    BY <1>1, <1>3, <1>7, <2>1
  <2> QED BY <1>1, <2>2 DEF Written
<1>9. ThinTypes'
  BY <1>1, <1>2 DEF ThinTypes
<1> QED BY <1>1, <1>8, <1>9 DEF ThinInv

LEMMA PopVertexStep ==
    ASSUME ThinInv, Thin!PopVertex
    PROVE  ThinInv'
<1> DEFINE L(u) == IF u \in Branches THEN 1 ELSE 0
<1>1. /\ thin_pc = "search"
      /\ UNCHANGED <<cfg, sources, src, nbhrs>>
  BY DEF Thin!PopVertex
<1>2. ThinTypes /\ PathsFound /\ Frontier /\ Followed /\ Written
  BY <1>1 DEF ThinInv
<1>3. src \in Branches /\ src \notin sources /\ src \in Nodes /\ cfg \in Graph
      /\ Branches \subseteq Nodes
  BY <1>2, PipelineAssumption DEF ThinTypes, PathsFound
<1>4. PICK top \in thin_Q :
         /\ \A p \in thin_Q : Thin!Less(top, p)
         /\ IF top[1] > 1
            THEN /\ thin_Q' = thin_Q \ {top} /\ thin_pc' = "collect"
                 /\ UNCHANGED <<dist_map, finished>>
            ELSE /\ finished' = finished \cup {top[2]}
                 /\ dist_map' =
                       [u \in Nodes |-> IF u \in Thin!Improved(top[2])
                                        THEN dist_map[top[2]] + L(u)
                                        ELSE dist_map[u]]
                 /\ thin_Q' = (thin_Q \ ({top} \cup
                                  {<<dist_map[u], u>> : u \in Thin!Improved(top[2])}))
                              \cup {<<dist_map[top[2]] + L(u), u>> :
                                      u \in Thin!Improved(top[2])}
                 /\ UNCHANGED thin_pc
  BY DEF Thin!PopVertex, Thin!MaxDist, Thin!Length
<1> DEFINE v == top[2]
<1>5. v \in Nodes /\ v \notin finished /\ top = <<dist_map[v], v>>
      /\ dist_map[v] <= 1 /\ dist_map[v] \in {0, 1}
  <2>1. PICK u \in Nodes : u \notin finished /\ dist_map[u] <= 1
                           /\ top = <<dist_map[u], u>>
    BY <1>2 DEF Frontier
  <2>2. dist_map[u] \in {0, 1, 3}
    BY <1>2, GraphNodes
  <2> QED BY <2>1, <2>2
<1> DEFINE I == Thin!Improved(v)
           dv == dist_map[v]
<1>6. /\ finished' = finished \cup {v}
      /\ dist_map' = [u \in Nodes |-> IF u \in I THEN dv + L(u) ELSE dist_map[u]]
      /\ thin_Q' = (thin_Q \ ({top} \cup {<<dist_map[u], u>> : u \in I}))
                   \cup {<<dv + L(u), u>> : u \in I}
      /\ thin_pc' = thin_pc
  BY <1>4, <1>5
<1>7. \A u \in Nodes : dist_map[u] \in {0, 1, 3} /\ L(u) \in {0, 1}
  BY <1>2, GraphNodes
<1>8. /\ I \subseteq Nodes
      /\ \A u \in Nodes : u \in I <=> /\ u \in cfg[v] /\ u \notin finished /\ u # v
                        /\ dv + L(u) < dist_map[u] /\ dv + L(u) <= 1
  BY <1>2, <1>5, GraphNodes DEF Thin!Improved, Thin!Length, Thin!MaxDist
<1> HIDE DEF I, L, v, dv
<1>9. \A u \in Nodes :
         /\ dist_map'[u] = IF u \in I THEN dv + L(u) ELSE dist_map[u]
         /\ dist_map'[u] \in {0, 1, 3} /\ dist_map'[u] <= dist_map[u]
  <2> SUFFICES ASSUME NEW u \in Nodes
               PROVE  /\ dist_map'[u] = IF u \in I THEN dv + L(u) ELSE dist_map[u]
                      /\ dist_map'[u] \in {0, 1, 3} /\ dist_map'[u] <= dist_map[u]
    OBVIOUS
  <2>1. dist_map'[u] = IF u \in I THEN dv + L(u) ELSE dist_map[u]
    BY <1>6
  <2>2. dv \in {0, 1}
    BY <1>5 DEF dv, v
  <2> QED BY <1>7, <1>8, <2>1, <2>2
<1>10. ThinTypes'
  <2>1. dist_map' \in [Nodes -> {0, 1, 3}]
    BY <1>6, <1>9
  <2> QED BY <1>1, <1>2, <1>5, <1>6, <2>1 DEF ThinTypes, v
<1>11. v \in Nodes /\ v \notin finished /\ v \notin I /\ dv = dist_map[v]
       /\ dv \in {0, 1} /\ top = <<dv, v>>
  BY <1>5, <1>8 DEF v, dv
<1>12. PathsFound'
  <2>1. src \notin I
    BY <1>2, <1>3, <1>7, <1>8, <1>11 DEF PathsFound
  <2>2. dist_map'[src] = 0
    BY <1>2, <1>3, <1>9, <2>1 DEF PathsFound
  <2>3. ASSUME NEW u \in Nodes, dist_map'[u] = 0
        PROVE  u \in SilentIn(cfg, src)
    <3>1. CASE u \in I
      <4>1. L(u) = 0 /\ dv = 0
        BY <1>7, <1>9, <1>11, <2>3, <3>1
      <4>2. u \in cfg[v] /\ u \notin Branches
        BY <1>8, <3>1, <4>1 DEF L
      <4>3. v \in SilentIn(cfg, src)
        BY <1>2, <1>11, <4>1 DEF PathsFound
      <4> QED BY <1>3, <4>2, <4>3, SilentClosed
    <3>2. CASE u \notin I
      BY <1>2, <1>9, <2>3, <3>2 DEF PathsFound
    <3> QED BY <3>1, <3>2
  <2>4. ASSUME NEW b \in Branches
        PROVE  /\ dist_map'[b] = 0 => b = src
               /\ dist_map'[b] = 1 => \E n \in SilentIn(cfg, src) : b \in cfg[n]
    <3>1. CASE b \in I
      <4>1. dist_map'[b] = dv + 1
        BY <1>3, <1>9, <3>1 DEF L
      <4>2. ASSUME dv = 0 PROVE \E n \in SilentIn(cfg, src) : b \in cfg[n]
        BY <1>2, <1>8, <1>11, <3>1, <4>2 DEF PathsFound
      <4> QED BY <1>11, <4>1, <4>2
    <3>2. CASE b \notin I
      BY <1>2, <1>3, <1>9, <3>2 DEF PathsFound
    <3> QED BY <3>1, <3>2
  <2> QED BY <1>1, <1>3, <2>2, <2>3, <2>4 DEF PathsFound
<1>13. Frontier'
  <2>1. ASSUME NEW u \in Nodes, u \notin finished', dist_map'[u] <= 1
        PROVE  <<dist_map'[u], u>> \in thin_Q'
    <3>1. CASE u \in I
      BY <1>6, <1>9, <3>1
    <3>2. CASE u \notin I
      <4>1. dist_map'[u] = dist_map[u] /\ u \notin finished /\ u # v
        BY <1>6, <1>9, <2>1, <3>2
      <4>2. <<dist_map[u], u>> \in thin_Q
        BY <1>2, <2>1, <4>1 DEF Frontier
      <4>3. <<dist_map[u], u>> # top
        BY <1>11, <4>1
      <4>4. <<dist_map[u], u>> \notin {<<dist_map[w], w>> : w \in I}
        BY <3>2
      <4> QED BY <1>6, <4>1, <4>2, <4>3, <4>4
    <3> QED BY <3>1, <3>2
  <2>2. ASSUME NEW p \in thin_Q'
        PROVE  \E u \in Nodes : /\ u \notin finished' /\ dist_map'[u] <= 1
                                /\ p = <<dist_map'[u], u>>
    <3>1. CASE p \in {<<dv + L(u), u>> : u \in I}
      <4>1. PICK u \in I : p = <<dv + L(u), u>>
        BY <3>1
      <4>2. u \in Nodes /\ u \notin finished' /\ dist_map'[u] = dv + L(u)
            /\ dv + L(u) <= 1
        BY <1>6, <1>8, <1>9
      <4> QED BY <4>1, <4>2
    <3>2. CASE p \in thin_Q /\ p # top /\ p \notin {<<dist_map[u], u>> : u \in I}
      <4>1. PICK u \in Nodes : /\ u \notin finished /\ dist_map[u] <= 1
                               /\ p = <<dist_map[u], u>>
        BY <1>2, <3>2 DEF Frontier
      <4>2. u \notin I /\ u # v
        BY <1>11, <3>2, <4>1
      <4> QED BY <1>6, <1>9, <4>1, <4>2
    <3> QED BY <1>6, <3>1, <3>2
  <2>3. ASSUME NEW w \in finished', NEW u \in Nodes, u \notin finished'
        PROVE  dist_map'[w] <= dist_map'[u]
    <3>1. w \in Nodes /\ w \notin I /\ dist_map'[w] = dist_map[w]
          /\ u \notin finished /\ u # v
      BY <1>2, <1>6, <1>8, <1>9, <1>11, <2>3 DEF ThinTypes
    <3>2. dist_map[w] <= dv
      BY <1>2, <1>6, <1>7, <1>11, <2>3 DEF Frontier
    <3>3. CASE u \in I
      BY <1>7, <1>9, <1>11, <3>1, <3>2, <3>3
    <3>4. CASE u \notin I
      <4>1. dv <= dist_map[u]
        <5>1. CASE dist_map[u] <= 1
          <6>1. <<dist_map[u], u>> \in thin_Q
            BY <1>2, <3>1, <5>1 DEF Frontier
          <6>2. Thin!Less(top, <<dist_map[u], u>>)
            BY <1>4, <6>1
          <6> QED BY <1>7, <1>11, <6>2 DEF Thin!Less
        <5>2. CASE dist_map[u] = 3
          BY <1>11, <5>2
        <5> QED BY <1>7, <5>1, <5>2
      <4> QED BY <1>7, <1>9, <1>11, <3>1, <3>2, <3>4, <4>1
    <3> QED BY <3>3, <3>4
  <2>4. thin_Q' = {<<dist_map'[u], u>> :
                     u \in {u \in Nodes \ finished' : dist_map'[u] <= 1}}
    BY <2>1, <2>2
  <2> QED BY <2>3, <2>4 DEF Frontier
<1>14. Followed'
  <2> SUFFICES ASSUME NEW w \in finished', dist_map'[w] = 0, NEW u \in cfg[w]
               PROVE  dist_map'[u] <= L(u)
    BY <1>1 DEF Followed, L
  <2>1. w \in Nodes /\ u \in Nodes /\ dist_map'[w] = dist_map[w]
    BY <1>2, <1>6, <1>8, <1>9, <1>11, GraphNodes DEF ThinTypes
  <2>2. CASE w \in finished
    <3>1. dist_map[u] <= L(u)
      BY <1>2, <2>1, <2>2 DEF Followed, L
    <3> QED BY <1>7, <1>9, <2>1, <3>1
  <2>3. CASE w = v
    <3>1. dv = 0
      BY <1>11, <2>1, <2>3
    <3>2. CASE u \in I
      BY <1>7, <1>9, <2>1, <3>1, <3>2
    <3>3. CASE u \in finished
      <4>1. dist_map[u] <= dv
        BY <1>2, <1>11, <3>3 DEF Frontier
      <4> QED BY <1>7, <1>9, <2>1, <3>1, <4>1
    <3>4. CASE u = v
      BY <1>7, <1>9, <2>1, <3>1, <1>11, <3>4
    <3>5. CASE u \notin I /\ u \notin finished /\ u # v
      <4>1. ~(dv + L(u) < dist_map[u])
        BY <1>7, <1>8, <2>1, <2>3, <3>1, <3>5
      <4> QED BY <1>7, <1>9, <2>1, <3>1, <4>1
    <3> QED BY <3>2, <3>3, <3>4, <3>5
  <2> QED BY <1>6, <2>2, <2>3
<1>15. Written'
  BY <1>1, <1>2, <1>6 DEF Written
<1> QED BY <1>1, <1>6, <1>10, <1>12, <1>13, <1>14, <1>15 DEF ThinInv

LEMMA ThinInit == ASSUME Thin!Init PROVE ThinInv
<1>1. /\ thin_pc = "next" /\ cfg \in Cfgs /\ sources = Branches /\ src \in Nodes
      /\ dist_map = [u \in Nodes |-> 0] /\ finished = {} /\ nbhrs = {}
  BY DEF Thin!Init
<1>2. ThinTypes
  BY <1>1, PipelineAssumption DEF ThinTypes, Graph
<1>3. Written
  BY <1>1 DEF Written, ThinnedIn
<1> QED BY <1>1, <1>2, <1>3 DEF ThinInv

LEMMA ThinStutter ==
    ASSUME ThinInv, UNCHANGED thin_vars
    PROVE  ThinInv'
<1>1. UNCHANGED <<thin_pc, cfg, sources, src, dist_map, thin_Q, finished, nbhrs>>
  BY DEF thin_vars
<1>2. ThinTypes' /\ Written'
  BY <1>1 DEF ThinInv, ThinTypes, Written
<1>3. thin_pc \in {"search", "collect"} => PathsFound' /\ Frontier' /\ Followed'
  BY <1>1 DEF ThinInv, PathsFound, Frontier, Followed
<1> QED BY <1>1, <1>2, <1>3 DEF ThinInv

LEMMA ThinStep ==
    ASSUME ThinInv, Thin!Next
    PROVE  ThinInv'
BY StartSourceStep, PopVertexStep, QueueEmptyStep, CollectStep DEF Thin!Next

\* ThinCfg's Thinned is the unfolded one.
LEMMA ThinnedUnfolded == Thin!Thinned = ThinnedIn(cfg)
BY SilentUnfolded DEF Thin!Thinned, ThinnedIn

-----------------------------------------------------------------------------
(* The two programs together.                                              *)

PipelineInv ==
    /\ ThinInv /\ TypeOK /\ Inv /\ OnceInv
    /\ loaded => thin_pc = "done" /\ cfg_ = nbhrs
    /\ ~loaded => pc = "idle" /\ calls = 0

LEMMA PipelineInvariant == PipelineSpec => []PipelineInv
<1>1. PipelineInit => PipelineInv
  <2> SUFFICES ASSUME PipelineInit PROVE PipelineInv
    OBVIOUS
  <2>1. Init /\ Thin!Init /\ loaded = FALSE
    BY DEF PipelineInit
  <2>2. TypeOK /\ Inv /\ OnceInv
    BY <2>1, DistanceAssumption DEF Init, TypeOK, Inv, OnceInv
  <2>3. pc = "idle" /\ calls = 0
    BY <2>1 DEF Init
  <2> QED BY <2>1, <2>2, <2>3, ThinInit DEF PipelineInv
<1>2. PipelineInv /\ [PipelineNext]_<<vars, thin_vars, loaded>> => PipelineInv'
  <2> SUFFICES ASSUME PipelineInv, [PipelineNext]_<<vars, thin_vars, loaded>>
               PROVE  PipelineInv'
    OBVIOUS
  <2>1. ThinInv /\ TypeOK /\ Inv /\ OnceInv
    BY DEF PipelineInv
  <2>2. CASE ProcessCfg
    <3>1. ~loaded /\ Thin!Next /\ UNCHANGED vars /\ loaded' = loaded
      BY <2>2 DEF ProcessCfg
    <3>2. TypeOK' /\ Inv' /\ OnceInv'
      BY <2>1, <3>1, DistancesStep, OnceStep
    <3>3. ThinInv'
      BY <2>1, <3>1, ThinStep
    <3> QED BY <3>1, <3>2, <3>3 DEF PipelineInv, vars
  <2>3. CASE ReadGraph
    <3>1. /\ thin_pc = "done" /\ ~loaded /\ cfg_' = nbhrs /\ loaded' = TRUE
          /\ UNCHANGED <<pc, covered_, dist_, Q, front, todo, calls, thin_vars>>
      BY <2>3 DEF ReadGraph
    <3>2. pc = "idle" /\ calls = 0
      BY <3>1 DEF PipelineInv
    <3>3. nbhrs \subseteq Branches \X Branches
      BY <2>1 DEF ThinInv, Written, ThinnedIn
    <3>4. TypeOK'
      BY <2>1, <3>1, <3>3 DEF TypeOK
    <3>5. Inv' /\ OnceInv'
      BY <2>1, <3>1, <3>2 DEF Inv, OnceInv
    <3>6. ThinInv'
      BY <2>1, <3>1, ThinStutter
    <3> QED BY <3>1, <3>4, <3>5, <3>6 DEF PipelineInv, thin_vars
  <2>4. CASE Search
    <3>1. loaded /\ Next /\ UNCHANGED thin_vars /\ loaded' = loaded
      BY <2>4 DEF Search
    <3>2. TypeOK' /\ Inv' /\ OnceInv'
      BY <2>1, <3>1, DistancesStep, OnceStep
    <3>3. ThinInv'
      BY <2>1, <3>1, ThinStutter
    <3>4. cfg_' = cfg_
      BY <3>1 DEF Next, Step, Call, InitBranch, Visit, TakeFront, Return
    <3> QED BY <3>1, <3>2, <3>3, <3>4 DEF PipelineInv, thin_vars
  <2>5. CASE UNCHANGED <<vars, thin_vars, loaded>>
    <3>1. TypeOK' /\ Inv' /\ OnceInv'
      BY <2>1, <2>5, DistancesStep, OnceStep
    <3>2. ThinInv'
      BY <2>1, <2>5, ThinStutter
    <3> QED BY <2>5, <3>1, <3>2 DEF PipelineInv, vars, thin_vars
  <2> QED BY <2>2, <2>3, <2>4, <2>5 DEF PipelineNext
<1> QED BY <1>1, <1>2, PTL DEF PipelineSpec

LEMMA ThinnedIsExact == ASSUME PipelineInv PROVE ThinnedExact
<1> SUFFICES ASSUME thin_pc = "done" PROVE nbhrs = Thin!Thinned
  BY DEF ThinnedExact, Thin!ThinnedExact
<1>1. sources = {} /\ Written
  BY DEF PipelineInv, ThinInv
<1> QED BY <1>1, ThinnedUnfolded DEF Written

\* process_cfg writes exactly the edges between different branches that no
\* third branch separates, on every control-flow graph
\* (process_cfg.cc:114-186).
THEOREM ThinnedHolds == PipelineSpec => []ThinnedExact
BY PipelineInvariant, ThinnedIsExact, PTL

\* The distances that guide the strategy are those of the control-flow graph
\* itself, though the search sees only the thinned one: the dropped edges, from
\* a branch to itself or through a third branch, never matter.
LEMMA DistancesOfCfg == ASSUME PipelineInv PROVE DistancesInCfg
<1> SUFFICES ASSUME pc = "idle", calls > 0
             PROVE  \A b \in Branches, k \in 0..(kInfiniteDistance - 1) :
                       b \in Entering[k] <=> dist_[b] <= k
  BY DEF DistancesInCfg
<1> DEFINE K == kInfiniteDistance
<1>1. TypeOK /\ Inv /\ ThinnedExact /\ Shortest
  BY ThinnedIsExact, IdleIsShortest DEF PipelineInv
<1>2. cfg_ = Thin!Thinned
  <2>1. loaded
    BY DEF PipelineInv
  <2> QED BY <1>1, <2>1 DEF PipelineInv, ThinnedExact, Thin!ThinnedExact
<1>3. \A b \in Branches : dist_[b] \in Int /\ 0 <= dist_[b] /\ dist_[b] <= K
  BY <1>1, DistTyped
<1>4. \A b, c \in Branches :
         <<b, c>> \in cfg_ <=> b # c /\ \E n \in Thin!Silent(b) : c \in cfg[n]
  BY <1>2 DEF Thin!Thinned
<1>5. /\ \A k \in Nat : Entering[k] \subseteq Branches
      /\ Entering[0] = Uncovered
      /\ \A k \in Nat :
            Entering[k + 1] = Entering[k] \cup
               {b \in Branches :
                  \E n \in Thin!Silent(b), c \in Entering[k] : c \in cfg[n]}
  BY EnteringFacts
<1>6. K \in Int /\ K > 0
  BY DistanceAssumption
<1> DEFINE S == {k \in Nat : k < K => \A b \in Branches :
                                 b \in Entering[k] <=> dist_[b] <= k}
<1> HIDE DEF K
<1>7. 0 \in S
  BY <1>1, <1>3, <1>5 DEF Shortest
<1>8. ASSUME NEW k \in Nat, k \in S PROVE k + 1 \in S
  <2> SUFFICES ASSUME k + 1 < K, NEW b \in Branches
               PROVE  b \in Entering[k + 1] <=> dist_[b] <= k + 1
    OBVIOUS
  <2>1. \A c \in Branches : c \in Entering[k] <=> dist_[c] <= k
    BY <1>6, <1>8
  <2>2. b \in Entering[k + 1] <=>
           \/ b \in Entering[k]
           \/ \E n \in Thin!Silent(b), c \in Entering[k] : c \in cfg[n]
    BY <1>5
  <2>3. ASSUME NEW n \in Thin!Silent(b), NEW c \in Entering[k], c \in cfg[n]
        PROVE  dist_[b] <= k + 1
    <3>1. c \in Branches /\ dist_[c] <= k
      BY <1>5, <2>1
    <3>2. CASE b = c
      BY <1>3, <3>1, <3>2
    <3>3. CASE b # c
      <4>1. <<b, c>> \in cfg_
        BY <1>4, <2>3, <3>1, <3>3
      <4>2. dist_[c] + 1 < K
        BY <1>3, <1>6, <3>1
      <4>3. dist_[b] <= dist_[c] + 1
        BY <1>1, <3>1, <4>1, <4>2 DEF Shortest, K
      <4> QED BY <1>3, <3>1, <4>3
    <3> QED BY <3>2, <3>3
  <2>4. ASSUME dist_[b] = k + 1
        PROVE  \E n \in Thin!Silent(b), c \in Entering[k] : c \in cfg[n]
    <3>1. dist_[b] \in 1..(K - 1)
      BY <1>6, <2>4
    <3>2. PICK c \in Branches : <<b, c>> \in cfg_ /\ dist_[b] = dist_[c] + 1
      BY <1>1, <3>1 DEF Shortest, K
    <3>3. c \in Entering[k]
      BY <1>3, <2>1, <2>4, <3>2
    <3> QED BY <1>4, <3>2, <3>3
  <2>5. dist_[b] <= k + 1 <=> dist_[b] <= k \/ dist_[b] = k + 1
    BY <1>3
  <2> QED BY <2>1, <2>2, <2>3, <2>4, <2>5
<1> HIDE DEF S
<1>9. \A k \in Nat : k \in S
  BY <1>7, <1>8, NatSet
<1> QED BY <1>6, <1>9 DEF S, K

\* After a call of UpdateBranchDistances the distance of a branch is at most k
\* exactly when a path of the control-flow graph enters at most k branches on
\* the way to an uncovered one (concolic_search.cc:1429-1459).
THEOREM DistancesHold == PipelineSpec => []DistancesInCfg
BY PipelineInvariant, DistancesOfCfg, PTL

\* The distances solve the shortest-path equations of the graph process_cfg
\* wrote, whenever UpdateBranchDistances returns (concolic_search.cc:1429-1459).
THEOREM PipelineShortest == PipelineSpec => []Shortest
<1>1. PipelineInv => Shortest
  BY IdleIsShortest DEF PipelineInv
<1> QED BY <1>1, PipelineInvariant, PTL

\* On that graph too a branch is queued at most once per call, in the order of
\* the distances (concolic_search.cc:1447-1458).
THEOREM PipelineEnqueuedOnce == PipelineSpec => []EnqueuedOnce
<1>1. PipelineInv => EnqueuedOnce
  BY QueuedOnce DEF PipelineInv
<1> QED BY <1>1, PipelineInvariant, PTL

-----------------------------------------------------------------------------
(* The walks over paths: functions defined by recursion on positions.      *)

\* A value of G at a position depends on the values at later ones only.
LEMMA RecursionDown ==
    ASSUME NEW N \in Nat, NEW V, NEW F \in SUBSET [1..N -> V], NEW w \in F,
           \A f, g \in F, c \in 1..N : [f EXCEPT ![c] = g[c]] \in F,
           NEW G \in [F -> F],
           \A f, g \in F, k \in 1..N :
              (\A j \in (k + 1)..N : f[j] = g[j]) => G[f][k] = G[g][k]
    PROVE  \E f \in F : f = G[f]
<1> DEFINE Solved(f, m) == \A k \in 1..N : k > N - m => f[k] = G[f][k]
           S == {m \in Nat : m <= N => \E f \in F : Solved(f, m)}
<1>1. 0 \in S
  OBVIOUS
<1>2. ASSUME NEW m \in Nat, m \in S PROVE m + 1 \in S
  <2> SUFFICES ASSUME m + 1 <= N
               PROVE  \E f \in F : Solved(f, m + 1)
    OBVIOUS
  <2>1. PICK f \in F : Solved(f, m)
    BY <1>2
  <2> DEFINE c == N - m
             g == [f EXCEPT ![c] = G[f][c]]
  <2>2. c \in 1..N /\ G[f] \in F
    OBVIOUS
  <2>3. g \in F /\ g[c] = G[f][c]
        /\ \A k \in 1..N : k # c => g[k] = f[k]
    BY <2>2
  <2>4. ASSUME NEW k \in 1..N, k >= c PROVE G[g][k] = G[f][k]
    <3>1. \A j \in (k + 1)..N : g[j] = f[j]
      BY <2>2, <2>3, <2>4
    <3> QED BY <2>3, <3>1
  <2>5. ASSUME NEW k \in 1..N, k > N - (m + 1) PROVE g[k] = G[g][k]
    <3>1. k >= c
      BY <2>5
    <3>2. CASE k = c
      BY <2>3, <2>4, <3>1, <3>2
    <3>3. CASE k # c
      <4>1. k > N - m
        BY <3>1, <3>3
      <4>2. f[k] = G[f][k]
        BY <2>1, <4>1
      <4> QED BY <2>3, <2>4, <3>1, <3>3, <4>2
    <3> QED BY <3>2, <3>3
  <2> QED BY <2>3, <2>5
<1> HIDE DEF S
<1>3. N \in S
  BY <1>1, <1>2, NatSet
<1>4. PICK f \in F : Solved(f, N)
  BY <1>3 DEF S
<1>5. \A k \in 1..N : f[k] = G[f][k]
  BY <1>4
<1>6. G[f] \in [1..N -> V] /\ f \in [1..N -> V]
  OBVIOUS
<1>7. f = G[f]
  BY <1>5, <1>6
<1> QED BY <1>7

\* The states of a loop whose step k turns the state after k - 1 into the
\* state after k.
Loops(lo, hi, V, U, S) ==
    {f \in [lo..hi -> V] :
        f[lo] = U /\ \A k \in (lo + 1)..hi : f[k] = S[k][f[k - 1]]}

LEMMA LoopExists ==
    ASSUME NEW lo \in Int, NEW hi \in Int, lo <= hi, NEW V, NEW U \in V,
           NEW S \in [lo..hi -> [V -> V]]
    PROVE  Loops(lo, hi, V, U, S) # {}
<1> DEFINE Runs(f, m) == /\ f \in [lo..(lo + m) -> V] /\ f[lo] = U
                         /\ \A k \in (lo + 1)..(lo + m) : f[k] = S[k][f[k - 1]]
           T == {m \in Nat : lo + m <= hi => \E f : Runs(f, m)}
<1>1. 0 \in T
  <2>1. Runs([k \in lo..(lo + 0) |-> U], 0)
    OBVIOUS
  <2> QED BY <2>1
<1>2. ASSUME NEW m \in Nat, m \in T PROVE m + 1 \in T
  <2> SUFFICES ASSUME lo + (m + 1) <= hi PROVE \E f : Runs(f, m + 1)
    OBVIOUS
  <2>1. PICK f : Runs(f, m)
    BY <1>2
  <2> DEFINE e == lo + (m + 1)
             g == [k \in lo..e |-> IF k = e THEN S[e][f[lo + m]] ELSE f[k]]
  <2>2. f[lo + m] \in V /\ S[e] \in [V -> V]
    BY <2>1
  <2>3. ASSUME NEW k \in lo..e, k # e PROVE k \in lo..(lo + m)
    BY <2>3
  <2>4. g \in [lo..e -> V] /\ g[lo] = U
    BY <2>1, <2>2, <2>3
  <2>5. ASSUME NEW k \in (lo + 1)..e PROVE g[k] = S[k][g[k - 1]]
    <3>1. k - 1 \in lo..e /\ k - 1 # e /\ k \in lo..e
      BY <2>5
    <3>2. g[k - 1] = f[k - 1]
      BY <3>1
    <3>3. CASE k = e
      BY <3>1, <3>2, <3>3
    <3>4. CASE k # e
      <4>1. k \in (lo + 1)..(lo + m)
        BY <3>4
      <4> QED BY <2>1, <3>1, <3>2, <3>4, <4>1
    <3> QED BY <3>3, <3>4
  <2> HIDE DEF g
  <2>6. Runs(g, m + 1)
    BY <2>4, <2>5
  <2> QED BY <2>6
<1> HIDE DEF T
<1>3. hi - lo \in T /\ lo + (hi - lo) = hi
  BY <1>1, <1>2, NatSet
<1>4. PICK f : Runs(f, hi - lo)
  BY <1>3 DEF T
<1> QED BY <1>3, <1>4 DEF Loops

-----------------------------------------------------------------------------
(* Calls nested in a path, and the height they leave.                      *)

Ids == Bids \cup {kCallId, kReturnId}

\* Calls open after k entries of a path; negative where the path returns
\* from functions entered before it began.
Height(path, k) == Open(path, 1, k)

\* The return at e ends the call that was open at pos, or none does.
Ends(path, pos, e) ==
    /\ e \in pos..(Len(path) + 1)
    /\ \A k \in pos..(e - 1) : Height(path, k) >= Height(path, pos - 1)
    /\ e <= Len(path) => Height(path, e) < Height(path, pos - 1)

\* The marker ids are no branches.
LEMMA MarkersApart ==
    /\ kCallId \notin Bids /\ kReturnId \notin Bids
    /\ kCallId = -1 /\ kReturnId = -2 /\ Bids \subseteq Int
BY PathAssumption DEF kCallId, kReturnId

Counted(path, lo, hi, id) == Cardinality({k \in lo..hi : path[k] = id})

\* Counting one more entry.
LEMMA CountStep ==
    ASSUME NEW path, NEW lo \in Int, NEW hi \in Int, lo <= hi + 1, NEW id
    PROVE  /\ Counted(path, lo, hi, id) \in Nat
           /\ Counted(path, lo, hi + 1, id)
                = Counted(path, lo, hi, id)
                  + (IF path[hi + 1] = id THEN 1 ELSE 0)
<1> DEFINE A == {k \in lo..hi : path[k] = id}
           B == {k \in lo..(hi + 1) : path[k] = id}
<1>1. IsFiniteSet(A)
  <2>1. IsFiniteSet(lo..hi)
    BY FS_Interval
  <2> QED BY <2>1, FS_Subset
<1>2. Cardinality(A) \in Nat
  BY <1>1, FS_CardinalityType
<1>3. CASE path[hi + 1] = id
  <2>1. B = A \cup {hi + 1} /\ hi + 1 \notin A
    BY <1>3
  <2>2. Cardinality(B) = Cardinality(A) + 1
    BY <1>1, <2>1, FS_AddElement
  <2> QED BY <1>2, <1>3, <2>2 DEF Counted
<1>4. CASE path[hi + 1] # id
  <2>1. B = A
    BY <1>4
  <2> QED BY <1>2, <1>4, <2>1 DEF Counted
<1> QED BY <1>3, <1>4

\* Calls open after one more entry.
LEMMA OpenStep ==
    ASSUME NEW path, NEW lo \in Int, NEW hi \in Int, lo <= hi + 1
    PROVE  /\ Open(path, lo, hi) \in Int
           /\ Open(path, lo, hi + 1)
                = Open(path, lo, hi)
                  + (IF path[hi + 1] = kCallId THEN 1
                     ELSE IF path[hi + 1] = kReturnId THEN -1 ELSE 0)
<1> DEFINE C(h) == Counted(path, lo, h, kCallId)
           R(h) == Counted(path, lo, h, kReturnId)
<1>1. /\ C(hi) \in Nat
      /\ C(hi + 1) = C(hi) + (IF path[hi + 1] = kCallId THEN 1 ELSE 0)
  BY CountStep
<1>2. /\ R(hi) \in Nat
      /\ R(hi + 1) = R(hi) + (IF path[hi + 1] = kReturnId THEN 1 ELSE 0)
  BY CountStep
<1>3. Open(path, lo, hi) = C(hi) - R(hi)
      /\ Open(path, lo, hi + 1) = C(hi + 1) - R(hi + 1)
  BY DEF Open, Counted
<1>4. kCallId # kReturnId
  BY MarkersApart
<1> HIDE DEF C, R
<1> QED BY <1>1, <1>2, <1>3, <1>4

\* Nothing is open after no entry.
LEMMA OpenNone ==
    ASSUME NEW path, NEW lo \in Int
    PROVE  Open(path, lo, lo - 1) = 0
<1>1. \A id : {k \in lo..(lo - 1) : path[k] = id} = {}
  OBVIOUS
<1> QED BY <1>1, FS_EmptySet DEF Open

\* Heights change by one at markers and nowhere else.
LEMMA HeightStep ==
    ASSUME NEW path \in Seq(Ids), NEW k \in 1..Len(path)
    PROVE  /\ Height(path, k) \in Int /\ Height(path, k - 1) \in Int
           /\ path[k] = kCallId => Height(path, k) = Height(path, k - 1) + 1
           /\ path[k] = kReturnId => Height(path, k) = Height(path, k - 1) - 1
           /\ path[k] \in Bids => Height(path, k) = Height(path, k - 1)
           /\ path[k] \in Bids \/ path[k] = kCallId \/ path[k] = kReturnId
<1>1. path[k] \in Ids /\ k \in Nat /\ k >= 1
  OBVIOUS
<1>2. /\ Open(path, 1, k - 1) \in Int
      /\ Open(path, 1, (k - 1) + 1)
           = Open(path, 1, k - 1)
             + (IF path[(k - 1) + 1] = kCallId THEN 1
                ELSE IF path[(k - 1) + 1] = kReturnId THEN -1 ELSE 0)
  <2>1. 1 \in Int /\ k - 1 \in Int /\ 1 <= (k - 1) + 1
    BY <1>1
  <2> QED BY <2>1, OpenStep, SMTT(20)
<1>3. (k - 1) + 1 = k
  BY <1>1
<1> QED BY <1>1, <1>2, <1>3, MarkersApart DEF Height, Ids

\* Heights are whole numbers, from before the first entry on.
LEMMA HeightType ==
    ASSUME NEW path \in Seq(Ids), NEW k \in 0..Len(path)
    PROVE  Height(path, k) \in Int
BY OpenStep DEF Height

\* Calls open after a stretch are a difference of heights.
LEMMA OpenHeight ==
    ASSUME NEW path \in Seq(Ids), NEW lo \in 1..Len(path),
           NEW hi \in (lo - 1)..Len(path)
    PROVE  Open(path, lo, hi) = Height(path, hi) - Height(path, lo - 1)
<1> DEFINE n == Len(path)
           S == {m \in Nat : lo - 1 + m <= n =>
                   Open(path, lo, lo - 1 + m)
                     = Height(path, lo - 1 + m) - Height(path, lo - 1)}
<1>0. n \in Nat
  OBVIOUS
<1> HIDE DEF n
<1>1. 0 \in S
  <2>1. Open(path, lo, lo - 1) = 0
    BY OpenNone
  <2>2. Height(path, lo - 1) \in Int
    BY HeightType
  <2>3. lo - 1 + 0 = lo - 1
    OBVIOUS
  <2> QED BY <2>1, <2>2, <2>3
<1>2. ASSUME NEW m \in Nat, m \in S PROVE m + 1 \in S
  <2> SUFFICES ASSUME lo - 1 + (m + 1) <= n
               PROVE  Open(path, lo, lo - 1 + (m + 1))
                        = Height(path, lo - 1 + (m + 1)) - Height(path, lo - 1)
    OBVIOUS
  <2> DEFINE h == lo - 1 + m
  <2>0. lo \in Int /\ lo >= 1 /\ lo <= n
    BY DEF n
  <2>1. /\ h \in Int /\ lo <= h + 1 /\ h + 1 \in 1..n /\ h + 1 \in Int
        /\ lo - 1 + (m + 1) = h + 1 /\ 1 <= h + 1 /\ lo - 1 \in 0..n
        /\ h <= n
    BY <1>0, <2>0
  <2>2. Open(path, lo, h) = Height(path, h) - Height(path, lo - 1)
    BY <1>2, <2>1, <1>0
  <2> HIDE DEF h
  <2>3. Open(path, lo, h + 1)
          = Open(path, lo, h)
            + (IF path[h + 1] = kCallId THEN 1
               ELSE IF path[h + 1] = kReturnId THEN -1 ELSE 0)
    <3>1. lo \in Int /\ h \in Int /\ lo <= h + 1
      BY <1>0, <2>1
    <3> QED BY <3>1, OpenStep, SMTT(20)
  <2>4. /\ Height(path, h) \in Int
        /\ Height(path, h + 1)
          = Height(path, h)
            + (IF path[h + 1] = kCallId THEN 1
               ELSE IF path[h + 1] = kReturnId THEN -1 ELSE 0)
    BY <2>1, OpenStep DEF Height
  <2>5. Height(path, lo - 1) \in Int
    BY <2>1, HeightType DEF n
  <2> QED BY <2>1, <2>2, <2>3, <2>4, <2>5
<1> HIDE DEF S
<1>3. (hi - (lo - 1)) \in S /\ lo - 1 + (hi - (lo - 1)) = hi
  BY <1>1, <1>2, NatSet
<1> QED BY <1>0, <1>3 DEF S, n

-----------------------------------------------------------------------------
(* SkipUntilReturn stops at the return that ends the call.                 *)

\* SkipUntilReturn unfolds as its code reads.
LEMMA SkipUnfolds ==
    ASSUME NEW path \in Seq(Ids), NEW p \in 1..(Len(path) + 1)
    PROVE  /\ p > Len(path) \/ path[p] = kReturnId =>
                 SkipUntilReturn(path, p) = p
           /\ p <= Len(path) /\ path[p] = kCallId =>
                 SkipUntilReturn(path, p)
                   = IF SkipUntilReturn(path, p + 1) > Len(path)
                     THEN SkipUntilReturn(path, p + 1)
                     ELSE SkipUntilReturn(path, SkipUntilReturn(path, p + 1) + 1)
           /\ p <= Len(path) /\ path[p] \in Bids =>
                 SkipUntilReturn(path, p) = SkipUntilReturn(path, p + 1)
<1> DEFINE n == Len(path)
           N == n + 1
           F == {f \in [1..N -> 1..N] : \A k \in 1..N : f[k] >= k}
           Body(f, q) == IF q > n \/ path[q] = kReturnId THEN q
                         ELSE IF path[q] = kCallId
                         THEN IF f[q + 1] > n THEN f[q + 1] ELSE f[f[q + 1] + 1]
                         ELSE f[q + 1]
           G == [f \in F |-> [q \in 1..N |-> Body(f, q)]]
           skip == CHOOSE f : f = [q \in 1..N |-> Body(f, q)]
<1>1. n \in Nat /\ N \in Nat /\ p \in 1..N
  OBVIOUS
<1>2. \A q : SkipUntilReturn(path, q) = skip[q]
  BY DEF SkipUntilReturn
<1>3. N = n + 1
  OBVIOUS
<1> HIDE DEF n, N, G, skip, Body, F
<1>4. ASSUME NEW f \in F, NEW k \in 1..N, k <= n
      PROVE  /\ k + 1 \in (k + 1)..N /\ k + 1 \in 1..N
             /\ f[k + 1] \in 1..N /\ f[k + 1] >= k
             /\ f[k + 1] <= n => f[k + 1] + 1 \in (k + 1)..N
                                 /\ f[k + 1] + 1 \in 1..N
                                 /\ f[f[k + 1] + 1] \in 1..N
                                 /\ f[f[k + 1] + 1] >= k
  <2>1. k \in Nat /\ k + 1 \in (k + 1)..N /\ k + 1 \in 1..N
    BY <1>1, <1>3, <1>4
  <2>2. \A q \in 1..N : f[q] \in 1..N /\ f[q] >= q
    BY DEF F
  <2> DEFINE e == f[k + 1]
  <2>3. e \in 1..N /\ e >= k + 1
    BY <2>1, <2>2
  <2> HIDE DEF e
  <2>4. e >= k /\ (e <= n => e + 1 \in (k + 1)..N /\ e + 1 \in 1..N)
    BY <1>1, <1>3, <2>1, <2>3
  <2> DEFINE d == f[e + 1]
  <2>5. e <= n => d \in 1..N /\ d >= e + 1
    BY <2>2, <2>4
  <2> HIDE DEF d
  <2>6. e <= n => d >= k
    BY <1>1, <2>1, <2>3, <2>4, <2>5
  <2> QED BY <2>1, <2>3, <2>4, <2>5, <2>6 DEF d, e
<1>5. ASSUME NEW f \in F, NEW q \in 1..N
      PROVE  Body(f, q) \in 1..N /\ Body(f, q) >= q
  <2>1. CASE q > n \/ path[q] = kReturnId
    BY <1>1, <2>1 DEF Body
  <2>2. CASE ~(q > n \/ path[q] = kReturnId)
    <3>1. q <= n
      BY <1>1, <2>2
    <3>2. f[q + 1] \in Int
      BY <1>4, <3>1
    <3> QED BY <1>1, <1>4, <2>2, <3>1, <3>2 DEF Body
  <2> QED BY <2>1, <2>2
<1>6. G \in [F -> F]
  <2>1. ASSUME NEW f \in F PROVE [q \in 1..N |-> Body(f, q)] \in F
    BY <1>5 DEF F
  <2> QED BY <2>1 DEF G
<1>7. [q \in 1..N |-> q] \in F
  BY <1>1 DEF F
<1>8. \A f, g \in F, c \in 1..N : [f EXCEPT ![c] = g[c]] \in F
  BY DEF F
<1>9. ASSUME NEW f \in F, NEW g \in F, NEW k \in 1..N,
             \A j \in (k + 1)..N : f[j] = g[j]
      PROVE  Body(f, k) = Body(g, k)
  <2>1. CASE k > n \/ path[k] = kReturnId
    BY <2>1 DEF Body
  <2>2. CASE ~(k > n \/ path[k] = kReturnId)
    <3>1. k <= n
      BY <1>1, <2>2
    <3>2. f[k + 1] = g[k + 1]
      BY <1>4, <1>9, <3>1
    <3>3. f[k + 1] <= n => f[f[k + 1] + 1] = g[f[k + 1] + 1]
      BY <1>4, <1>9, <3>1
    <3>4. f[k + 1] > n \/ f[k + 1] <= n
      <4>1. f[k + 1] \in 1..N
        BY <1>4, <3>1
      <4> QED BY <1>1, <4>1
    <3> QED BY <2>2, <3>2, <3>3, <3>4 DEF Body
  <2> QED BY <2>1, <2>2
<1>10. \A f \in F : G[f] = [q \in 1..N |-> Body(f, q)]
  BY DEF G
<1>11. F \in SUBSET [1..N -> 1..N]
  BY DEF F
<1>12. \A f, g \in F, k \in 1..N :
          (\A j \in (k + 1)..N : f[j] = g[j]) => G[f][k] = G[g][k]
  <2> TAKE f, g \in F, k \in 1..N
  <2>1. G[f][k] = Body(f, k) /\ G[g][k] = Body(g, k)
    BY <1>10
  <2> QED BY <1>9, <2>1
<1>13. \E f \in F : f = G[f]
  BY <1>1, <1>6, <1>7, <1>8, <1>11, <1>12, RecursionDown, ZenonT(60)
<1>14. \E f : f = [q \in 1..N |-> Body(f, q)]
  <2>1. PICK f \in F : f = G[f]
    BY <1>13
  <2> QED BY <1>10, <2>1
<1>15. skip = [q \in 1..N |-> Body(skip, q)]
  BY <1>14, Zenon DEF skip
<1>16. skip[p] = Body(skip, p)
  BY <1>1, <1>15, Zenon
<1>17. path[p] = kCallId => path[p] # kReturnId /\ path[p] \notin Bids
  BY MarkersApart
<1>18. path[p] \in Bids => path[p] # kReturnId
  BY MarkersApart
<1>19. SkipUntilReturn(path, p) = Body(skip, p)
  BY <1>2, <1>16
<1>20. p \in Int /\ n \in Int
  BY <1>1
<1> QED BY <1>2, <1>17, <1>18, <1>19, <1>20 DEF Body, n

\* Induction on positions from the path's end down.
LEMMA DownSet ==
    ASSUME NEW n \in Nat, NEW S, n + 1 \in S,
           \A p \in 1..n : (\A q \in (p + 1)..(n + 1) : q \in S) => p \in S
    PROVE  \A p \in 1..(n + 1) : p \in S
<1> SUFFICES ASSUME NEW p \in 1..(n + 1), p \notin S PROVE FALSE
  OBVIOUS
<1> DEFINE T == {m \in Nat : m <= n /\ n + 1 - m \notin S}
<1>1. n + 1 - p \in T
  <2>1. n + 1 - (n + 1 - p) = p /\ n + 1 - p \in Nat /\ n + 1 - p <= n
    OBVIOUS
  <2> QED BY <2>1
<1>2. PICK m \in T : \A k \in T : m <= k
  <2>1. T \in SUBSET Nat /\ T # {}
    BY <1>1
  <2> HIDE DEF T
  <2> QED BY <2>1, NatLeast
<1>3. n + 1 - m \in 1..n
  <2>1. m # 0
    BY <1>2
  <2> QED BY <1>2, <2>1
<1>4. ASSUME NEW q \in (n + 1 - m + 1)..(n + 1) PROVE q \in S
  <2>1. n + 1 - q \in Nat /\ n + 1 - q <= n /\ n + 1 - q < m
        /\ n + 1 - (n + 1 - q) = q
    BY <1>2, <1>3
  <2>2. n + 1 - q \notin T
    BY <1>2, <2>1
  <2> QED BY <2>1, <2>2
<1>5. n + 1 - m \in S
  BY <1>3, <1>4
<1> QED BY <1>2, <1>5

\* The call whose body starts after p ends where the height is p's again.
LEMMA EndOfCall ==
    ASSUME NEW path \in Seq(Ids), NEW p \in 1..Len(path), path[p] = kCallId,
           NEW e, Ends(path, p + 1, e), e <= Len(path)
    PROVE  Height(path, e) = Height(path, p - 1) /\ path[e] = kReturnId
<1>0. p \in Int /\ Len(path) \in Int /\ e \in Int /\ e >= p + 1
      /\ e \in 1..Len(path) /\ p >= 1
  BY DEF Ends
<1>1. Height(path, p) = Height(path, p - 1) + 1
      /\ Height(path, p) \in Int /\ Height(path, p - 1) \in Int
  BY HeightStep
<1>2. Height(path, e) < Height(path, p)
  BY DEF Ends
<1>3. Height(path, e - 1) >= Height(path, p)
  <2>1. CASE e = p + 1
    BY <1>0, <1>1, <2>1
  <2>2. CASE e # p + 1
    <3>1. e - 1 \in (p + 1)..(e - 1)
      BY <1>0, <2>2
    <3> QED BY <3>1, <1>0 DEF Ends
  <2> QED BY <2>1, <2>2
<1>4. /\ Height(path, e) \in Int /\ Height(path, e - 1) \in Int
      /\ path[e] = kCallId => Height(path, e) = Height(path, e - 1) + 1
      /\ path[e] = kReturnId => Height(path, e) = Height(path, e - 1) - 1
      /\ path[e] \in Bids => Height(path, e) = Height(path, e - 1)
      /\ path[e] \in Bids \/ path[e] = kCallId \/ path[e] = kReturnId
  BY <1>0, HeightStep
<1> QED BY <1>1, <1>2, <1>3, <1>4

\* A call that ends is stepped over: what follows ends the caller.
LEMMA EndsAfterCall ==
    ASSUME NEW path \in Seq(Ids), NEW p \in 1..Len(path), path[p] = kCallId,
           NEW e, Ends(path, p + 1, e)
    PROVE  /\ \A k \in p..(e - 1) : Height(path, k) >= Height(path, p - 1)
           /\ e > Len(path) => Ends(path, p, e)
           /\ e <= Len(path) =>
                 \A d : Ends(path, e + 1, d) => Ends(path, p, d)
<1> DEFINE n == Len(path)
<1>0. p \in Int /\ n \in Int /\ e \in Int /\ e >= p + 1 /\ e <= n + 1
      /\ p >= 1 /\ p <= n
  BY DEF Ends
<1>1. Height(path, p) = Height(path, p - 1) + 1
      /\ Height(path, p) \in Int /\ Height(path, p - 1) \in Int
  BY HeightStep
<1>2. \A k \in (p + 1)..(e - 1) : Height(path, k) >= Height(path, p)
  BY <1>0 DEF Ends
<1>3. \A k \in 0..n : Height(path, k) \in Int
  BY HeightType
<1>4. ASSUME NEW k \in p..(e - 1) PROVE Height(path, k) >= Height(path, p - 1)
  <2>1. CASE k = p
    BY <1>1, <2>1
  <2>2. CASE k # p
    <3>1. k \in (p + 1)..(e - 1) /\ k \in 0..n
      BY <1>0, <2>2
    <3> QED BY <1>1, <1>2, <1>3, <3>1
  <2> QED BY <2>1, <2>2
<1>5. ASSUME e > n PROVE Ends(path, p, e)
  <2>1. e = n + 1 /\ e \in p..(n + 1)
    BY <1>0, <1>5
  <2> QED BY <1>0, <1>4, <2>1 DEF Ends
<1>6. ASSUME e <= n, NEW d, Ends(path, e + 1, d) PROVE Ends(path, p, d)
  <2>1. Height(path, e) = Height(path, p - 1)
    BY <1>6, EndOfCall
  <2>2. /\ d \in (e + 1)..(n + 1) /\ (e + 1) - 1 = e
        /\ \A k \in (e + 1)..(d - 1) : Height(path, k) >= Height(path, e)
        /\ d <= n => Height(path, d) < Height(path, e)
    BY <1>0, <1>6 DEF Ends
  <2>3. d \in p..(n + 1)
    BY <1>0, <2>2
  <2>4. ASSUME NEW k \in p..(d - 1) PROVE Height(path, k) >= Height(path, p - 1)
    <3>1. CASE k <= e - 1
      BY <1>0, <1>4, <3>1
    <3>2. CASE k = e
      BY <1>1, <2>1, <3>2
    <3>3. CASE k > e
      <4>1. k \in (e + 1)..(d - 1)
        BY <1>0, <2>2, <3>3
      <4>2. Height(path, k) >= Height(path, e)
        BY <2>2, <4>1
      <4> QED BY <2>1, <4>2
    <3>4. k <= e - 1 \/ k = e \/ k > e
      BY <1>0, <2>2
    <3> QED BY <3>1, <3>2, <3>3, <3>4
  <2>5. d <= n => Height(path, d) < Height(path, p - 1)
    BY <2>1, <2>2
  <2> QED BY <2>3, <2>4, <2>5 DEF Ends
<1> QED BY <1>4, <1>5, <1>6

\* SkipUntilReturn stops at the return that ends the call it started in.
LEMMA SkipEnds ==
    ASSUME NEW path \in Seq(Ids)
    PROVE  \A p \in 1..(Len(path) + 1) : Ends(path, p, SkipUntilReturn(path, p))
<1> DEFINE n == Len(path)
           S == {p \in 1..(n + 1) : Ends(path, p, SkipUntilReturn(path, p))}
<1>0. n \in Nat
  OBVIOUS
<1>1. n + 1 \in S
  <2>1. SkipUntilReturn(path, n + 1) = n + 1
    BY SkipUnfolds
  <2> QED BY <1>0, <2>1 DEF Ends
<1>2. ASSUME NEW p \in 1..n, \A q \in (p + 1)..(n + 1) : q \in S PROVE p \in S
  <2>0. p \in Int /\ p >= 1 /\ p <= n /\ p \in 1..(n + 1)
        /\ p + 1 \in (p + 1)..(n + 1) /\ p + 1 \in 1..(n + 1)
    BY <1>0
  <2>1. Ends(path, p + 1, SkipUntilReturn(path, p + 1))
    BY <1>2, <2>0
  <2>h. /\ Height(path, p) \in Int /\ Height(path, p - 1) \in Int
        /\ path[p] = kCallId => Height(path, p) = Height(path, p - 1) + 1
        /\ path[p] = kReturnId => Height(path, p) = Height(path, p - 1) - 1
        /\ path[p] \in Bids => Height(path, p) = Height(path, p - 1)
        /\ path[p] \in Bids \/ path[p] = kCallId \/ path[p] = kReturnId
    BY HeightStep
  <2>2. CASE path[p] = kReturnId
    <3>1. SkipUntilReturn(path, p) = p
      BY <2>0, <2>2, SkipUnfolds
    <3>2. p \in p..(n + 1) /\ p..(p - 1) = {}
      BY <1>0, <2>0
    <3> QED BY <2>0, <2>h, <2>2, <3>1, <3>2 DEF Ends
  <2>3. CASE path[p] \in Bids
    <3>1. SkipUntilReturn(path, p) = SkipUntilReturn(path, p + 1)
      BY <2>0, <2>3, SkipUnfolds
    <3> DEFINE e == SkipUntilReturn(path, p + 1)
    <3>2. /\ e \in (p + 1)..(n + 1) /\ (p + 1) - 1 = p
          /\ \A k \in (p + 1)..(e - 1) : Height(path, k) >= Height(path, p)
          /\ e <= n => Height(path, e) < Height(path, p)
      BY <2>0, <2>1 DEF Ends
    <3> HIDE DEF e
    <3>3. ASSUME NEW k \in p..(e - 1) PROVE Height(path, k) >= Height(path, p)
      <4>1. k = p \/ k \in (p + 1)..(e - 1)
        BY <2>0, <3>2
      <4> QED BY <2>h, <3>2, <4>1
    <3>4. e \in p..(n + 1)
      BY <2>0, <3>2
    <3>5. Ends(path, p, e)
      BY <2>h, <2>3, <3>2, <3>3, <3>4 DEF Ends
    <3> QED BY <2>0, <3>1, <3>5 DEF e
  <2>4. CASE path[p] = kCallId
    <3> DEFINE e == SkipUntilReturn(path, p + 1)
               d == SkipUntilReturn(path, e + 1)
    <3>1. SkipUntilReturn(path, p) = IF e > n THEN e ELSE d
      BY <2>0, <2>4, SkipUnfolds
    <3>2. e \in (p + 1)..(n + 1) /\ Ends(path, p + 1, e)
      BY <2>1 DEF Ends
    <3> HIDE DEF e
    <3>3. CASE e > n
      BY <2>0, <2>4, <3>1, <3>2, <3>3, EndsAfterCall
    <3>4. CASE e <= n
      <4>1. e + 1 \in (p + 1)..(n + 1)
        BY <1>0, <2>0, <3>2, <3>4
      <4>2. Ends(path, e + 1, d)
        BY <1>2, <4>1
      <4>3. ~(e > n)
        BY <1>0, <2>0, <3>2, <3>4
      <4> HIDE DEF d
      <4> QED BY <2>0, <2>4, <3>1, <3>2, <3>4, <4>2, <4>3, EndsAfterCall
    <3> QED BY <1>0, <2>0, <3>2, <3>3, <3>4
  <2> QED BY <2>h, <2>2, <2>3, <2>4
<1> HIDE DEF S
<1>3. \A p \in 1..(n + 1) : p \in S
  BY <1>0, <1>1, <1>2, DownSet
<1> QED BY <1>3 DEF S

-----------------------------------------------------------------------------
(* CollectNextBranches collects the first branches of every call skipped.  *)

\* CollectNextBranches unfolds as its code reads.
LEMMA CollectUnfolds ==
    ASSUME NEW path \in Seq(Ids), NEW p \in 1..(Len(path) + 1)
    PROVE  /\ p > Len(path) \/ path[p] = kReturnId =>
                 CollectNextBranches(path, p) = [pos |-> p, idxs |-> {}]
           /\ p <= Len(path) /\ path[p] \in Bids =>
                 CollectNextBranches(path, p) = [pos |-> p + 1, idxs |-> {p}]
           /\ p <= Len(path) /\ path[p] = kCallId =>
                 LET inside == CollectNextBranches(path, p + 1)
                     end == SkipUntilReturn(path, inside.pos)
                     after == CollectNextBranches(path, end + 1)
                 IN CollectNextBranches(path, p) =
                      IF end > Len(path)
                      THEN [pos |-> end, idxs |-> inside.idxs]
                      ELSE [pos |-> after.pos,
                            idxs |-> inside.idxs \cup after.idxs]
<1> DEFINE n == Len(path)
           N == n + 1
           R(q) == SkipUntilReturn(path, q)
           V == [pos : 1..N, idxs : SUBSET (1..n)]
           F == {f \in [1..N -> V] : \A k \in 1..N : f[k].pos >= k}
           Body(f, q) ==
             IF q > n \/ path[q] = kReturnId THEN [pos |-> q, idxs |-> {}]
             ELSE IF path[q] # kCallId THEN [pos |-> q + 1, idxs |-> {q}]
             ELSE IF R(f[q + 1].pos) > n
             THEN [pos |-> R(f[q + 1].pos), idxs |-> f[q + 1].idxs]
             ELSE [pos |-> f[R(f[q + 1].pos) + 1].pos,
                   idxs |-> f[q + 1].idxs \cup f[R(f[q + 1].pos) + 1].idxs]
           G == [f \in F |-> [q \in 1..N |-> Body(f, q)]]
           collect == CHOOSE f : f = [q \in 1..N |-> Body(f, q)]
<1>1. n \in Nat /\ N \in Nat /\ p \in 1..N
  OBVIOUS
<1>2. \A q : CollectNextBranches(path, q) = collect[q]
  BY DEF CollectNextBranches
<1>3. N = n + 1
  OBVIOUS
<1>r. \A q \in 1..N : R(q) \in q..N
  BY SkipEnds DEF Ends
<1> HIDE DEF n, N, G, collect, Body, F, V, R
<1>4. ASSUME NEW f \in F, NEW k \in 1..N, k <= n
      PROVE  /\ k + 1 \in (k + 1)..N /\ k + 1 \in 1..N
             /\ f[k + 1] \in V /\ f[k + 1].pos \in 1..N
             /\ R(f[k + 1].pos) \in 1..N /\ R(f[k + 1].pos) >= k
             /\ R(f[k + 1].pos) <= n =>
                   /\ R(f[k + 1].pos) + 1 \in (k + 1)..N
                   /\ R(f[k + 1].pos) + 1 \in 1..N
                   /\ f[R(f[k + 1].pos) + 1] \in V
                   /\ f[R(f[k + 1].pos) + 1].pos >= k
  <2>1. k \in Nat /\ k + 1 \in (k + 1)..N /\ k + 1 \in 1..N
    BY <1>1, <1>3, <1>4
  <2>2. \A q \in 1..N : f[q] \in V /\ f[q].pos \in 1..N /\ f[q].pos >= q
    BY DEF F, V
  <2> DEFINE c == f[k + 1].pos
  <2>3. c \in 1..N /\ c >= k + 1
    BY <2>1, <2>2
  <2> HIDE DEF c
  <2> DEFINE e == R(c)
  <2>4. e \in c..N
    BY <1>r, <2>3
  <2> HIDE DEF e
  <2>5. e \in 1..N /\ e >= k /\ (e <= n => e + 1 \in (k + 1)..N /\ e + 1 \in 1..N)
    BY <1>1, <1>3, <2>1, <2>3, <2>4
  <2>6. e <= n => f[e + 1] \in V /\ f[e + 1].pos >= e + 1 /\ f[e + 1].pos \in 1..N
    BY <2>2, <2>5
  <2> DEFINE d == f[e + 1].pos
  <2>7. e <= n => d >= k
    <3>1. e <= n => d >= e + 1 /\ d \in 1..N
      BY <2>6
    <3> HIDE DEF d
    <3> QED BY <1>1, <2>1, <2>5, <3>1
  <2> QED BY <2>1, <2>2, <2>3, <2>5, <2>6, <2>7 DEF c, e
<1>5. ASSUME NEW f \in F, NEW q \in 1..N
      PROVE  Body(f, q) \in V /\ Body(f, q).pos >= q
  <2>1. CASE q > n \/ path[q] = kReturnId
    BY <1>1, <2>1 DEF Body, V
  <2>2. CASE ~(q > n \/ path[q] = kReturnId)
    <3>1. q <= n /\ q \in Nat /\ q + 1 \in 1..N /\ q \in 1..n
      BY <1>1, <1>3, <2>2
    <3>2. CASE path[q] # kCallId
      <4>1. Body(f, q) = [pos |-> q + 1, idxs |-> {q}]
        BY <2>2, <3>2 DEF Body
      <4> QED BY <3>1, <4>1 DEF V
    <3>3. CASE path[q] = kCallId
      <4> DEFINE e == R(f[q + 1].pos)
      <4>1. /\ f[q + 1] \in V /\ e \in 1..N /\ e >= q
            /\ e <= n => f[e + 1] \in V /\ f[e + 1].pos >= q
        BY <1>4, <3>1
      <4>2. Body(f, q) = IF e > n
                         THEN [pos |-> e, idxs |-> f[q + 1].idxs]
                         ELSE [pos |-> f[e + 1].pos,
                               idxs |-> f[q + 1].idxs \cup f[e + 1].idxs]
        BY <2>2, <3>3 DEF Body
      <4> HIDE DEF e
      <4>3. CASE e > n
        BY <4>1, <4>2, <4>3 DEF V
      <4>4. CASE ~(e > n)
        <5>1. e <= n
          BY <1>1, <4>1, <4>4
        <5> QED BY <4>1, <4>2, <4>4, <5>1 DEF V
      <4> QED BY <4>3, <4>4
    <3> QED BY <3>2, <3>3
  <2> QED BY <2>1, <2>2
<1>6. G \in [F -> F]
  <2>1. ASSUME NEW f \in F PROVE [q \in 1..N |-> Body(f, q)] \in F
    BY <1>5 DEF F
  <2> QED BY <2>1 DEF G
<1>7. [q \in 1..N |-> [pos |-> q, idxs |-> {}]] \in F
  BY <1>1 DEF F, V
<1>8. \A f, g \in F, c \in 1..N : [f EXCEPT ![c] = g[c]] \in F
  BY DEF F
<1>9. ASSUME NEW f \in F, NEW g \in F, NEW k \in 1..N,
             \A j \in (k + 1)..N : f[j] = g[j]
      PROVE  Body(f, k) = Body(g, k)
  <2>1. CASE k > n \/ path[k] = kReturnId
    BY <2>1 DEF Body
  <2>2. CASE ~(k > n \/ path[k] = kReturnId)
    <3>1. k <= n
      BY <1>1, <2>2
    <3>2. f[k + 1] = g[k + 1]
      BY <1>4, <1>9, <3>1
    <3> DEFINE e == R(f[k + 1].pos)
    <3>3. e <= n => f[e + 1] = g[e + 1]
      BY <1>4, <1>9, <3>1
    <3>4. e > n \/ e <= n
      <4>1. e \in 1..N
        BY <1>4, <3>1
      <4> QED BY <1>1, <4>1
    <3>5. R(g[k + 1].pos) = e
      BY <3>2
    <3> HIDE DEF e
    <3>6. Body(f, k) = IF path[k] # kCallId THEN [pos |-> k + 1, idxs |-> {k}]
                       ELSE IF e > n THEN [pos |-> e, idxs |-> f[k + 1].idxs]
                       ELSE [pos |-> f[e + 1].pos,
                             idxs |-> f[k + 1].idxs \cup f[e + 1].idxs]
      BY <2>2 DEF Body, e
    <3>7. Body(g, k) = IF path[k] # kCallId THEN [pos |-> k + 1, idxs |-> {k}]
                       ELSE IF e > n THEN [pos |-> e, idxs |-> g[k + 1].idxs]
                       ELSE [pos |-> g[e + 1].pos,
                             idxs |-> g[k + 1].idxs \cup g[e + 1].idxs]
      BY <2>2, <3>5 DEF Body
    <3>8. CASE path[k] # kCallId
      BY <3>6, <3>7, <3>8
    <3>9. CASE path[k] = kCallId /\ e > n
      BY <3>2, <3>6, <3>7, <3>9
    <3>10. CASE path[k] = kCallId /\ ~(e > n)
      <4>1. f[e + 1] = g[e + 1]
        BY <3>3, <3>4, <3>10
      <4> QED BY <3>2, <3>6, <3>7, <3>10, <4>1
    <3> QED BY <3>8, <3>9, <3>10
  <2> QED BY <2>1, <2>2
<1>10. \A f \in F : G[f] = [q \in 1..N |-> Body(f, q)]
  BY DEF G
<1>11. F \in SUBSET [1..N -> V]
  BY DEF F
<1>12. \A f, g \in F, k \in 1..N :
          (\A j \in (k + 1)..N : f[j] = g[j]) => G[f][k] = G[g][k]
  <2> TAKE f, g \in F, k \in 1..N
  <2>1. G[f][k] = Body(f, k) /\ G[g][k] = Body(g, k)
    BY <1>10
  <2> QED BY <1>9, <2>1
<1>13. \E f \in F : f = G[f]
  BY <1>1, <1>6, <1>7, <1>8, <1>11, <1>12, RecursionDown, ZenonT(60)
<1>14. \E f : f = [q \in 1..N |-> Body(f, q)]
  <2>1. PICK f \in F : f = G[f]
    BY <1>13
  <2> QED BY <1>10, <2>1
<1>15. collect = [q \in 1..N |-> Body(collect, q)]
  BY <1>14, Zenon DEF collect
<1>16. collect[p] = Body(collect, p)
  BY <1>1, <1>15, Zenon
<1>17. path[p] = kCallId => path[p] # kReturnId /\ path[p] \notin Bids
  BY MarkersApart
<1>18. path[p] \in Bids => path[p] # kReturnId /\ path[p] # kCallId
  BY MarkersApart
<1>19. CollectNextBranches(path, p) = Body(collect, p)
  BY <1>2, <1>16
<1>20. p <= n => ~(p > n)
  BY <1>1
<1>21. p > n \/ path[p] = kReturnId =>
          CollectNextBranches(path, p) = [pos |-> p, idxs |-> {}]
  BY <1>19 DEF Body
<1>22. p <= n /\ path[p] \in Bids =>
          CollectNextBranches(path, p) = [pos |-> p + 1, idxs |-> {p}]
  BY <1>18, <1>19, <1>20 DEF Body
<1>23. ASSUME p <= n, path[p] = kCallId
       PROVE  LET inside == CollectNextBranches(path, p + 1)
                  end == SkipUntilReturn(path, inside.pos)
                  after == CollectNextBranches(path, end + 1)
              IN CollectNextBranches(path, p) =
                   IF end > n
                   THEN [pos |-> end, idxs |-> inside.idxs]
                   ELSE [pos |-> after.pos,
                         idxs |-> inside.idxs \cup after.idxs]
  BY <1>2, <1>17, <1>19, <1>20, <1>23 DEF Body, R
<1> QED BY <1>21, <1>22, <1>23 DEF n

\* From position p on, j is reached without a return from the function of p.
Inside(path, p, j) ==
    \A k \in p..j : Height(path, k) >= Height(path, p - 1)

\* The call that held position b has returned before position j.
Ended(path, b, j) ==
    \E m \in b..(j - 1) : Height(path, m) < Height(path, b)

\* The branches that can come first from position p on.
Firsts(path, p) ==
    {j \in p..Len(path) :
        /\ path[j] \in Bids /\ Inside(path, p, j)
        /\ \A b \in p..(j - 1) : path[b] \in Bids => Ended(path, b, j)}

\* Inside a call, what comes first is what comes first after the call's start.
LEMMA FirstsInCall ==
    ASSUME NEW path \in Seq(Ids), NEW p \in 1..Len(path), path[p] = kCallId,
           NEW e, Ends(path, p + 1, e),
           NEW j \in p..Len(path), j < e \/ e > Len(path)
    PROVE  j \in Firsts(path, p) <=> j \in Firsts(path, p + 1)
<1> DEFINE n == Len(path)
<1>0. n \in Int /\ p \in Int /\ p >= 1 /\ p <= n /\ j \in Int /\ p <= j /\ j <= n
      /\ (p + 1) - 1 = p /\ e \in Int /\ e <= n + 1
  BY DEF Ends
<1>1. /\ Height(path, p) \in Int /\ Height(path, p - 1) \in Int
      /\ Height(path, p) = Height(path, p - 1) + 1
  BY HeightStep
<1>2. path[p] \notin Bids
  BY MarkersApart
<1>3. j \in Firsts(path, p) \/ j \in Firsts(path, p + 1) => j >= p + 1 /\ j < e
  BY <1>0, <1>2 DEF Firsts
<1> SUFFICES ASSUME j >= p + 1, j < e
             PROVE  j \in Firsts(path, p) <=> j \in Firsts(path, p + 1)
  BY <1>3
<1>4. Inside(path, p + 1, j)
  BY <1>0 DEF Ends, Inside
<1>5. Inside(path, p, j)
  <2>1. \A k \in p..(e - 1) : Height(path, k) >= Height(path, p - 1)
    BY EndsAfterCall
  <2> QED BY <1>0, <2>1 DEF Inside
<1>6. \A b \in p..(j - 1) : b \in (p + 1)..(j - 1) \/ b = p
  BY <1>0
<1>7. \A b \in (p + 1)..(j - 1) : b \in p..(j - 1)
  BY <1>0
<1>8. j \in p..n /\ j \in (p + 1)..n
  BY <1>0
<1> QED BY <1>2, <1>4, <1>5, <1>6, <1>7, <1>8 DEF Firsts

\* After a call that has ended, what comes first is what comes first there.
LEMMA FirstsAfterCall ==
    ASSUME NEW path \in Seq(Ids), NEW p \in 1..Len(path), path[p] = kCallId,
           NEW e, Ends(path, p + 1, e), NEW j \in p..Len(path), e <= j
    PROVE  /\ j \in Firsts(path, p) <=> j \in Firsts(path, e + 1)
           /\ j \notin Firsts(path, p + 1)
<1> DEFINE n == Len(path)
<1>0. n \in Int /\ p \in Int /\ p >= 1 /\ p <= n /\ j \in Int /\ p <= j /\ j <= n
      /\ (p + 1) - 1 = p /\ e \in Int /\ p + 1 <= e /\ e <= n /\ (e + 1) - 1 = e
  BY DEF Ends
<1>1. /\ Height(path, p) \in Int /\ Height(path, p - 1) \in Int
      /\ Height(path, p) = Height(path, p - 1) + 1
  BY HeightStep
<1>2. Height(path, e) = Height(path, p - 1) /\ path[e] = kReturnId
  BY <1>0, EndOfCall
<1>3. path[p] \notin Bids /\ path[e] \notin Bids
  BY <1>2, MarkersApart
<1>4. \A k \in p..(e - 1) : Height(path, k) >= Height(path, p - 1)
  BY EndsAfterCall
<1>5. j \notin Firsts(path, p + 1)
  <2>1. e \in (p + 1)..j /\ Height(path, e) < Height(path, p)
    BY <1>0, <1>1, <1>2
  <2>2. ~(Height(path, e) >= Height(path, p))
    BY <1>1, <1>2
  <2> QED BY <1>0, <2>1, <2>2 DEF Firsts, Inside
<1>6. CASE j = e
  BY <1>0, <1>3, <1>5, <1>6 DEF Firsts
<1>7. CASE j > e
  <2>1. Inside(path, p, j) <=> Inside(path, e + 1, j)
    <3>1. ASSUME Inside(path, p, j) PROVE Inside(path, e + 1, j)
      <4>1. \A k \in (e + 1)..j : k \in p..j
        BY <1>0
      <4> QED BY <1>0, <1>2, <3>1, <4>1 DEF Inside
    <3>2. ASSUME Inside(path, e + 1, j) PROVE Inside(path, p, j)
      <4> SUFFICES ASSUME NEW k \in p..j
                   PROVE  Height(path, k) >= Height(path, p - 1)
        BY DEF Inside
      <4>1. k \in p..(e - 1) \/ k = e \/ k \in (e + 1)..j
        BY <1>0
      <4>2. CASE k \in (e + 1)..j
        BY <1>0, <1>2, <3>2, <4>2 DEF Inside
      <4> QED BY <1>1, <1>2, <1>4, <4>1, <4>2
    <3> QED BY <3>1, <3>2
  <2>2. \A b \in p..(j - 1) :
           path[b] \in Bids => b \in (e + 1)..(j - 1) \/ b \in (p + 1)..(e - 1)
    BY <1>0, <1>3
  <2>3. ASSUME NEW b \in (p + 1)..(e - 1) PROVE Ended(path, b, j)
    <3>1. e \in b..(j - 1)
      BY <1>0, <1>7
    <3>2. Height(path, b) >= Height(path, p)
      BY <1>0 DEF Ends
    <3>3. Height(path, b) \in Int
      <4>1. b \in 0..n
        BY <1>0
      <4> QED BY <4>1, HeightType
    <3>4. Height(path, e) < Height(path, b)
      BY <1>1, <1>2, <3>2, <3>3
    <3> QED BY <3>1, <3>4 DEF Ended
  <2>4. \A b \in (e + 1)..(j - 1) : b \in p..(j - 1)
    BY <1>0
  <2>5. j \in p..n /\ j \in (e + 1)..n
    BY <1>0, <1>7
  <2> QED BY <1>5, <2>1, <2>2, <2>3, <2>4, <2>5 DEF Firsts
<1> QED BY <1>0, <1>6, <1>7

\* At a return, or past the end, nothing comes first.
LEMMA FirstsNone ==
    ASSUME NEW path \in Seq(Ids), NEW p \in 1..(Len(path) + 1),
           p > Len(path) \/ path[p] = kReturnId
    PROVE  Firsts(path, p) = {}
<1> SUFFICES ASSUME NEW j \in Firsts(path, p) PROVE FALSE
  OBVIOUS
<1>1. p \in 1..Len(path) /\ p \in p..j /\ path[p] = kReturnId
  BY DEF Firsts
<1>2. Height(path, p) >= Height(path, p - 1)
  BY <1>1 DEF Firsts, Inside
<1>3. /\ Height(path, p) \in Int /\ Height(path, p - 1) \in Int
      /\ Height(path, p) = Height(path, p - 1) - 1
  BY <1>1, HeightStep
<1> QED BY <1>2, <1>3

\* At a branch, it comes first and hides what follows.
LEMMA FirstsBranch ==
    ASSUME NEW path \in Seq(Ids), NEW p \in 1..Len(path), path[p] \in Bids
    PROVE  Firsts(path, p) = {p}
<1>0. p \in Int /\ Len(path) \in Int /\ 1 <= p /\ p <= Len(path)
  OBVIOUS
<1>1. /\ Height(path, p) \in Int /\ Height(path, p - 1) \in Int
      /\ Height(path, p) = Height(path, p - 1)
  BY HeightStep
<1>2. p \in Firsts(path, p)
  <2>1. \A k \in p..p : k = p
    BY <1>0
  <2>2. p..(p - 1) = {} /\ p \in p..Len(path)
    BY <1>0
  <2>3. Inside(path, p, p)
    BY <1>1, <2>1 DEF Inside
  <2> QED BY <2>2, <2>3 DEF Firsts
<1>3. ASSUME NEW j \in Firsts(path, p), j # p PROVE FALSE
  <2>1. j \in Int /\ p \in p..(j - 1)
    BY <1>0, <1>3 DEF Firsts
  <2>2. PICK m \in p..(j - 1) : Height(path, m) < Height(path, p)
    BY <2>1 DEF Firsts, Ended
  <2>3. m \in p..j /\ m \in 0..Len(path)
    BY <1>0, <2>1, <2>2 DEF Firsts
  <2>4. Height(path, m) >= Height(path, p - 1)
    BY <2>3 DEF Firsts, Inside
  <2>5. Height(path, m) \in Int
    BY <2>3, HeightType
  <2> QED BY <1>1, <2>2, <2>4, <2>5
<1> QED BY <1>2, <1>3

\* CollectNextBranches stops inside the function it started in, having
\* collected the branches that can come first.
Collected(path, p) ==
    LET c == CollectNextBranches(path, p)
    IN /\ c.idxs = Firsts(path, p)
       /\ c.pos \in p..(Len(path) + 1) /\ Inside(path, p, c.pos - 1)
       /\ c.pos <= Len(path) =>
             Height(path, c.pos - 1) = Height(path, p - 1)

\* From where collecting inside a call stops, the call's end is found.
LEMMA EndAfterCollect ==
    ASSUME NEW path \in Seq(Ids), NEW p \in 1..(Len(path) + 1),
           NEW c \in p..(Len(path) + 1), Inside(path, p, c - 1),
           c <= Len(path) => Height(path, c - 1) = Height(path, p - 1)
    PROVE  Ends(path, p, SkipUntilReturn(path, c))
<1> DEFINE n == Len(path)
           e == SkipUntilReturn(path, c)
<1>0. n \in Int /\ p \in Int /\ p >= 1 /\ c \in Int /\ p <= c /\ c <= n + 1
      /\ c \in 1..(n + 1)
  OBVIOUS
<1>1. Ends(path, c, e)
  BY <1>0, SkipEnds
<1>2. /\ e \in c..(n + 1)
      /\ \A k \in c..(e - 1) : Height(path, k) >= Height(path, c - 1)
      /\ e <= n => Height(path, e) < Height(path, c - 1)
  BY <1>1 DEF Ends
<1> HIDE DEF e
<1>3. e \in p..(n + 1)
  BY <1>0, <1>2
<1>4. CASE c <= n
  <2>1. ASSUME NEW k \in p..(e - 1) PROVE Height(path, k) >= Height(path, p - 1)
    <3>1. k \in p..(c - 1) \/ k \in c..(e - 1)
      BY <1>0
    <3> QED BY <1>2, <1>4, <3>1 DEF Inside
  <2>2. e <= n => Height(path, e) < Height(path, p - 1)
    BY <1>2, <1>4
  <2> QED BY <1>3, <2>1, <2>2 DEF Ends, e
<1>5. CASE ~(c <= n)
  <2>1. c = n + 1 /\ e = n + 1
    BY <1>0, <1>2, <1>5
  <2> QED BY <1>0, <1>3, <2>1 DEF Ends, e, Inside
<1> QED BY <1>4, <1>5

LEMMA CollectsFirsts ==
    ASSUME NEW path \in Seq(Ids)
    PROVE  \A p \in 1..(Len(path) + 1) : Collected(path, p)
<1> DEFINE n == Len(path)
           S == {p \in 1..(n + 1) : Collected(path, p)}
<1>0. n \in Nat
  OBVIOUS
<1>1. n + 1 \in S
  <2>1. n + 1 > n /\ n + 1 \in 1..(n + 1) /\ n + 1 \in (n + 1)..(n + 1)
        /\ (n + 1)..((n + 1) - 1) = {} /\ ~(n + 1 <= n)
    BY <1>0
  <2>2. CollectNextBranches(path, n + 1) = [pos |-> n + 1, idxs |-> {}]
    BY <2>1, CollectUnfolds
  <2>3. Firsts(path, n + 1) = {}
    BY <2>1, FirstsNone
  <2>4. CollectNextBranches(path, n + 1).pos = n + 1
        /\ CollectNextBranches(path, n + 1).idxs = {}
    BY <2>2
  <2>5. Inside(path, n + 1, (n + 1) - 1)
    BY <2>1 DEF Inside
  <2> QED BY <2>1, <2>3, <2>4, <2>5 DEF Collected
<1>2. ASSUME NEW p \in 1..n, \A q \in (p + 1)..(n + 1) : q \in S PROVE p \in S
  <2>0. p \in Int /\ p >= 1 /\ p <= n /\ p \in 1..(n + 1)
        /\ p + 1 \in (p + 1)..(n + 1) /\ p + 1 \in 1..(n + 1)
        /\ (p + 1) - 1 = p /\ p \in p..(n + 1) /\ p + 1 \in p..(n + 1)
        /\ p..(p - 1) = {} /\ p..p = {p}
    BY <1>0
  <2>h. /\ Height(path, p) \in Int /\ Height(path, p - 1) \in Int
        /\ path[p] = kCallId => Height(path, p) = Height(path, p - 1) + 1
        /\ path[p] \in Bids => Height(path, p) = Height(path, p - 1)
        /\ path[p] \in Bids \/ path[p] = kCallId \/ path[p] = kReturnId
    BY HeightStep
  <2>1. CASE path[p] = kReturnId
    <3>1. CollectNextBranches(path, p) = [pos |-> p, idxs |-> {}]
      BY <2>0, <2>1, CollectUnfolds
    <3>2. Firsts(path, p) = {}
      BY <2>0, <2>1, FirstsNone
    <3>3. CollectNextBranches(path, p).idxs = {}
          /\ CollectNextBranches(path, p).pos = p
      BY <3>1
    <3>4. Inside(path, p, p - 1)
      BY <2>0 DEF Inside
    <3> QED BY <2>0, <3>2, <3>3, <3>4 DEF Collected
  <2>2. CASE path[p] \in Bids
    <3>1. CollectNextBranches(path, p) = [pos |-> p + 1, idxs |-> {p}]
      BY <2>0, <2>2, CollectUnfolds
    <3>2. Firsts(path, p) = {p}
      BY <2>2, FirstsBranch
    <3>3. Inside(path, p, p)
      BY <2>0, <2>h, <2>2 DEF Inside
    <3>4. CollectNextBranches(path, p).pos = p + 1
          /\ CollectNextBranches(path, p).idxs = {p}
      BY <3>1
    <3>5. Height(path, (p + 1) - 1) = Height(path, p - 1)
      BY <2>0, <2>h, <2>2
    <3>6. Inside(path, p, (p + 1) - 1)
      BY <2>0, <3>3
    <3> QED BY <2>0, <3>2, <3>4, <3>5, <3>6 DEF Collected
  <2>3. CASE path[p] = kCallId
    <3> DEFINE inside == CollectNextBranches(path, p + 1)
               e == SkipUntilReturn(path, inside.pos)
               after == CollectNextBranches(path, e + 1)
    <3>1. CollectNextBranches(path, p)
            = IF e > n THEN [pos |-> e, idxs |-> inside.idxs]
              ELSE [pos |-> after.pos, idxs |-> inside.idxs \cup after.idxs]
      BY <2>0, <2>3, CollectUnfolds
    <3>2. /\ inside.idxs = Firsts(path, p + 1)
          /\ inside.pos \in (p + 1)..(n + 1)
          /\ Inside(path, p + 1, inside.pos - 1)
          /\ inside.pos <= n => Height(path, inside.pos - 1) = Height(path, p)
      BY <1>2, <2>0 DEF Collected
    <3>3. Ends(path, p + 1, e)
      BY <2>0, <3>2, EndAfterCollect
    <3>4. e \in (p + 1)..(n + 1) /\ e \in Int /\ e >= p + 1 /\ e <= n + 1
      BY <2>0, <3>3 DEF Ends
    <3>5. \A k \in p..(e - 1) : Height(path, k) >= Height(path, p - 1)
      BY <2>3, <3>3, EndsAfterCall
    <3> HIDE DEF inside, e
    <3>6. CASE e > n
      <4>1. Firsts(path, p) = Firsts(path, p + 1)
        <5>1. ASSUME NEW j, j \in Firsts(path, p) \/ j \in Firsts(path, p + 1)
              PROVE  j \in p..n
          BY <2>0, <5>1 DEF Firsts
        <5>2. ASSUME NEW j \in p..n
              PROVE  j \in Firsts(path, p) <=> j \in Firsts(path, p + 1)
          BY <2>0, <2>3, <3>3, <3>6, FirstsInCall
        <5> QED BY <5>1, <5>2
      <4>2. e \in p..(n + 1) /\ ~(e <= n)
        BY <2>0, <3>4, <3>6
      <4>3. CollectNextBranches(path, p) = [pos |-> e, idxs |-> inside.idxs]
        BY <3>1, <3>6
      <4>4. Inside(path, p, e - 1)
        BY <3>5 DEF Inside
      <4> QED BY <2>0, <3>2, <4>1, <4>2, <4>3, <4>4 DEF Collected
    <3>7. CASE e <= n
      <4>1. e + 1 \in (p + 1)..(n + 1) /\ (e + 1) - 1 = e /\ ~(e > n)
        BY <2>0, <3>4, <3>7
      <4>2. /\ after.idxs = Firsts(path, e + 1)
            /\ after.pos \in (e + 1)..(n + 1)
            /\ Inside(path, e + 1, after.pos - 1)
            /\ after.pos <= n => Height(path, after.pos - 1) = Height(path, e)
        BY <1>2, <4>1 DEF Collected
      <4> HIDE DEF after
      <4>3. Height(path, e) = Height(path, p - 1)
        BY <2>0, <2>3, <3>3, <3>7, EndOfCall
      <4>4. Firsts(path, p) = Firsts(path, p + 1) \cup Firsts(path, e + 1)
        <5>1. ASSUME NEW j, j \in Firsts(path, p) \/ j \in Firsts(path, p + 1)
                            \/ j \in Firsts(path, e + 1)
              PROVE  j \in p..n
          BY <2>0, <3>4, <5>1 DEF Firsts
        <5>2. ASSUME NEW j \in p..n
              PROVE  j \in Firsts(path, p)
                       <=> j \in Firsts(path, p + 1) \/ j \in Firsts(path, e + 1)
          <6>1. CASE j < e
            <7>1. j \in Firsts(path, p) <=> j \in Firsts(path, p + 1)
              BY <2>0, <2>3, <3>3, <6>1, FirstsInCall
            <7>2. j \notin Firsts(path, e + 1)
              BY <2>0, <3>4, <6>1 DEF Firsts
            <7> QED BY <7>1, <7>2
          <6>2. CASE e <= j
            BY <2>0, <2>3, <3>3, <6>2, FirstsAfterCall
          <6> QED BY <2>0, <3>4, <6>1, <6>2
        <5> QED BY <5>1, <5>2
      <4>5. CollectNextBranches(path, p)
              = [pos |-> after.pos, idxs |-> inside.idxs \cup after.idxs]
        BY <3>1, <4>1 DEF after
      <4> DEFINE a == after.pos
      <4>6. a \in p..(n + 1) /\ a \in Int
        BY <2>0, <3>4, <4>2
      <4>7. Inside(path, p, a - 1)
        <5> SUFFICES ASSUME NEW k \in p..(a - 1)
                     PROVE  Height(path, k) >= Height(path, p - 1)
          BY DEF Inside
        <5>1. k \in p..(e - 1) \/ k = e \/ k \in (e + 1)..(a - 1)
          BY <2>0, <3>4, <4>6
        <5>2. CASE k \in (e + 1)..(a - 1)
          <6>1. Height(path, k) >= Height(path, (e + 1) - 1)
            BY <4>2, <5>2 DEF Inside
          <6> QED BY <4>1, <4>3, <6>1
        <5>3. CASE k = e
          BY <2>h, <4>3, <5>3
        <5> QED BY <3>5, <5>1, <5>2, <5>3
      <4>8. a <= n => Height(path, a - 1) = Height(path, p - 1)
        BY <4>2, <4>3
      <4>9. CollectNextBranches(path, p).pos = a
            /\ CollectNextBranches(path, p).idxs = Firsts(path, p)
        BY <3>2, <4>2, <4>4, <4>5
      <4> HIDE DEF a
      <4> QED BY <2>0, <4>6, <4>7, <4>8, <4>9 DEF Collected
    <3> QED BY <1>0, <3>4, <3>6, <3>7
  <2> QED BY <2>h, <2>1, <2>2, <2>3
<1> HIDE DEF S
<1>3. \A p \in 1..(n + 1) : p \in S
  BY <1>0, <1>1, <1>2, DownSet
<1> QED BY <1>3 DEF S

\* A branch that has been left before j is inside a call that has ended.
LEMMA EndedIsComplete ==
    ASSUME NEW path \in Seq(Ids), NEW i \in 0..Len(path),
           NEW j \in (i + 1)..Len(path), Inside(path, i + 1, j),
           NEW b \in (i + 1)..(j - 1), path[b] \in Bids
    PROVE  Ended(path, b, j)
             <=> \E lo \in (i + 1)..(b - 1), hi \in (b + 1)..(j - 1) :
                    IsCompleteCall(path, lo, hi)
<1> DEFINE n == Len(path)
           H(k) == Height(path, k)
<1>0. n \in Int /\ i \in Int /\ i >= 0 /\ j \in Int /\ j <= n
      /\ b \in Int /\ i + 1 <= b /\ b < j /\ b \in 1..n /\ (i + 1) - 1 = i
  OBVIOUS
<1>1. \A k \in 0..n : H(k) \in Int
  BY HeightType
<1>2. \A k \in 1..n : /\ H(k) \in Int /\ H(k - 1) \in Int
                      /\ path[k] = kCallId => H(k) = H(k - 1) + 1
                      /\ path[k] = kReturnId => H(k) = H(k - 1) - 1
                      /\ path[k] \in Bids => H(k) = H(k - 1)
                      /\ path[k] \in Bids \/ path[k] = kCallId \/ path[k] = kReturnId
  BY HeightStep
<1>3. \A k \in (i + 1)..j : H(k) >= H(i)
  BY <1>0 DEF Inside
<1>4. \A lo \in 1..n, hi \in 1..n : lo <= hi =>
         (IsCompleteCall(path, lo, hi) <=>
            /\ path[lo] = kCallId /\ H(hi) = H(lo - 1)
            /\ \A k \in lo..(hi - 1) : H(k) > H(lo - 1))
  <2> TAKE lo \in 1..n, hi \in 1..n
  <2> HAVE lo <= hi
  <2>1. \A k \in lo..hi : k \in (lo - 1)..n /\ lo - 1 \in 0..n /\ k \in 0..n
    BY <1>0
  <2>2. \A k \in lo..hi : Open(path, lo, k) = H(k) - H(lo - 1)
    BY <2>1, OpenHeight
  <2>3. \A k \in lo..hi : H(k) \in Int /\ H(lo - 1) \in Int
    BY <1>1, <2>1
  <2>4. hi \in lo..hi /\ \A k \in lo..(hi - 1) : k \in lo..hi
    OBVIOUS
  <2> HIDE DEF H
  <2>5. Open(path, lo, hi) = 0 <=> H(hi) = H(lo - 1)
    BY <2>2, <2>3, <2>4
  <2>6. \A k \in lo..(hi - 1) : Open(path, lo, k) > 0 <=> H(k) > H(lo - 1)
    BY <2>2, <2>3, <2>4
  <2> QED BY <2>5, <2>6 DEF IsCompleteCall
<1>e. Ended(path, b, j) <=> \E m \in b..(j - 1) : H(m) < H(b)
  BY DEF Ended
<1> HIDE DEF n, H
<1>5. ASSUME NEW lo \in (i + 1)..(b - 1), NEW hi \in (b + 1)..(j - 1),
             IsCompleteCall(path, lo, hi)
      PROVE  Ended(path, b, j)
  <2>1. lo \in 1..n /\ hi \in 1..n /\ lo <= hi /\ b \in lo..(hi - 1)
        /\ hi \in b..(j - 1)
    BY <1>0
  <2>2. H(hi) = H(lo - 1) /\ H(b) > H(lo - 1)
    BY <1>4, <1>5, <2>1
  <2>3. H(hi) < H(b)
    BY <1>0, <1>2, <2>1, <2>2
  <2> QED BY <1>e, <2>1, <2>3
<1>6. ASSUME Ended(path, b, j)
      PROVE  \E lo \in (i + 1)..(b - 1), hi \in (b + 1)..(j - 1) :
                IsCompleteCall(path, lo, hi)
  <2> DEFINE After == {m \in Nat : m \in b..(j - 1) /\ H(m) < H(b)}
             Before == {d \in Nat : d <= b - i /\ H(b - d) < H(b)}
  <2>1. PICK hi \in After : \A m \in After : hi <= m
    <3>1. PICK m \in b..(j - 1) : H(m) < H(b)
      BY <1>e, <1>6
    <3>2. m \in After
      BY <1>0, <3>1
    <3>3. After \in SUBSET Nat /\ After # {}
      BY <3>2
    <3> HIDE DEF After
    <3> QED BY <3>3, NatLeast
  <2>2. hi \in b..(j - 1) /\ H(hi) < H(b) /\ hi # b /\ hi \in (b + 1)..(j - 1)
        /\ hi \in 1..n /\ hi - 1 \in b..(j - 1)
    <3>1. hi \in b..(j - 1) /\ H(hi) < H(b)
      BY <2>1
    <3>2. hi # b
      BY <1>0, <1>1, <1>2, <3>1
    <3> QED BY <1>0, <3>1, <3>2
  <2>3. ASSUME NEW k \in b..(hi - 1) PROVE H(k) >= H(b)
    <3>1. k \in Nat /\ k \in b..(j - 1) /\ ~(hi <= k)
      BY <1>0, <2>2
    <3>2. ~(H(k) < H(b))
      BY <2>1, <3>1
    <3>3. H(k) \in Int /\ H(b) \in Int
      BY <1>0, <1>2, <3>1
    <3> QED BY <3>2, <3>3
  <2>4. H(hi) = H(b) - 1
    <3>1. H(hi - 1) >= H(b)
      BY <1>0, <2>2, <2>3
    <3>2. /\ H(hi) \in Int /\ H(hi - 1) \in Int /\ H(b) \in Int
          /\ H(hi) = H(hi - 1) + 1 \/ H(hi) = H(hi - 1) - 1
             \/ H(hi) = H(hi - 1)
      BY <1>0, <1>2, <2>2
    <3> QED BY <2>2, <3>1, <3>2
  <2>5. b - i \in Before
    <3>1. H(hi) >= H(i)
      BY <1>0, <1>3, <2>2
    <3>2. H(i) < H(b) /\ b - (b - i) = i
      BY <1>0, <1>1, <1>2, <2>2, <2>4, <3>1
    <3> QED BY <1>0, <3>2
  <2>6. PICK d \in Before : \A c \in Before : d <= c
    <3>1. Before \in SUBSET Nat /\ Before # {}
      BY <2>5
    <3> HIDE DEF Before
    <3> QED BY <3>1, NatLeast
  <2> DEFINE p == b - d
             lo == p + 1
  <2>7. p \in i..b /\ H(p) < H(b) /\ d \in Nat
    BY <1>0, <2>6
  <2>8. p # b /\ p < b
    BY <1>0, <1>2, <2>7
  <2>9. ASSUME NEW k \in lo..b PROVE H(k) >= H(b)
    <3>1. b - k \in Nat /\ b - k <= b - i /\ b - (b - k) = k /\ ~(d <= b - k)
          /\ k \in 1..n
      BY <1>0, <2>7
    <3>2. ~(H(b - (b - k)) < H(b))
      BY <2>6, <3>1
    <3> QED BY <1>0, <1>2, <3>1, <3>2
  <2> HIDE DEF p
  <2>10. lo \in 1..n /\ lo - 1 = p /\ lo \in lo..b /\ p \in Int
    BY <1>0, <2>7, <2>8
  <2>11. H(lo) >= H(b) /\ path[lo] = kCallId /\ H(p) = H(b) - 1
    <3>1. H(lo) >= H(b)
      BY <2>9, <2>10
    <3>2. H(b) \in Int
      BY <1>0, <1>2
    <3> HIDE DEF lo
    <3> QED BY <1>2, <2>7, <2>10, <3>1, <3>2
  <2>12. lo # b
    <3>1. path[b] # kCallId
      BY MarkersApart
    <3> QED BY <2>11, <3>1
  <2>13. lo \in (i + 1)..(b - 1) /\ lo <= hi
    BY <1>0, <2>2, <2>7, <2>8, <2>12
  <2>14. ASSUME NEW k \in lo..(hi - 1) PROVE H(k) > H(p)
    <3>1. k \in lo..b \/ k \in b..(hi - 1)
      BY <1>0, <2>7
    <3>2. H(k) >= H(b)
      BY <2>3, <2>9, <3>1
    <3>3. H(k) \in Int /\ H(b) \in Int
      <4>1. k \in 1..n
        BY <1>0, <2>2, <2>7
      <4> QED BY <1>0, <1>2, <4>1
    <3> QED BY <2>11, <3>2, <3>3
  <2>15. IsCompleteCall(path, lo, hi)
    <3>1. H(hi) = H(lo - 1)
      BY <2>4, <2>10, <2>11
    <3> HIDE DEF lo
    <3> QED BY <1>4, <2>2, <2>10, <2>11, <2>13, <2>14, <3>1
  <2> QED BY <2>2, <2>13, <2>15
<1> QED BY <1>5, <1>6

\* The branches found after a branch are those that can follow it: at its
\* level or inside calls, each the first since the branch.
LEMMA NextAreFollowers ==
    ASSUME NEW path \in Seq(Ids), NEW i \in BranchPositions(path)
    PROVE  NextBranches(path, i) = Followers(path, i)
<1> DEFINE n == Len(path)
<1>0. n \in Int /\ i \in Int /\ 1 <= i /\ i <= n /\ i + 1 \in 1..(n + 1)
      /\ i \in 0..n /\ (i + 1) - 1 = i
  BY DEF BranchPositions
<1>1. NextBranches(path, i) = Firsts(path, i + 1)
  BY <1>0, CollectsFirsts DEF NextBranches, Collected
<1>2. ASSUME NEW j \in (i + 1)..n
      PROVE  Inside(path, i + 1, j)
               <=> \A k \in (i + 1)..j : Open(path, i + 1, k) >= 0
  <2>1. \A k \in (i + 1)..j :
           i + 1 \in 1..n /\ k \in ((i + 1) - 1)..n /\ k \in 0..n
    BY <1>0
  <2>2. \A k \in (i + 1)..j : /\ Open(path, i + 1, k) = Height(path, k) - Height(path, i)
                              /\ Height(path, k) \in Int /\ Height(path, i) \in Int
    BY <1>0, <2>1, OpenHeight, HeightType
  <2>3. \A k \in (i + 1)..j :
           Open(path, i + 1, k) >= 0 <=> Height(path, k) >= Height(path, i)
    BY <2>2
  <2> QED BY <1>0, <2>3 DEF Inside
<1>3. ASSUME NEW j \in (i + 1)..n, path[j] \in Bids
      PROVE  j \in Firsts(path, i + 1) <=> Follows(path, i, j)
  <2>1. \A b : b \in BranchPositions(path) \cap ((i + 1)..(j - 1))
               <=> b \in (i + 1)..(j - 1) /\ path[b] \in Bids
    BY <1>0 DEF BranchPositions
  <2>2. CASE ~Inside(path, i + 1, j)
    BY <1>2, <2>2 DEF Firsts, Follows
  <2>3. CASE Inside(path, i + 1, j)
    <3>1. \A b \in (i + 1)..(j - 1) : path[b] \in Bids =>
            (Ended(path, b, j) <=>
               \E lo \in (i + 1)..(b - 1), hi \in (b + 1)..(j - 1) :
                  IsCompleteCall(path, lo, hi))
      BY <1>0, <2>3, EndedIsComplete
    <3> QED BY <1>2, <1>3, <2>1, <2>3, <3>1 DEF Firsts, Follows
  <2> QED BY <2>2, <2>3
<1>4. \A j : j \in Firsts(path, i + 1) => j \in (i + 1)..n /\ path[j] \in Bids
  BY DEF Firsts
<1>5. \A j : j \in Followers(path, i) <=>
                j \in (i + 1)..n /\ path[j] \in Bids /\ Follows(path, i, j)
  BY <1>0 DEF Followers, BranchPositions
<1> QED BY <1>1, <1>3, <1>4, <1>5

-----------------------------------------------------------------------------
(* FindAlongCfg: a distance counts the branches still pending.             *)

\* The branches between i and j whose calls are still open at j: a distance
\* in the control-flow graph counts them.
Pending(path, i, j) ==
    {b \in (i + 1)..(j - 1) : path[b] \in Bids /\ ~Ended(path, b, j)}

Dist(path, i, j) == IF j = i THEN 0 ELSE 1 + Cardinality(Pending(path, i, j))

Reaches(path, i, j) == j = i \/ (j > i /\ Inside(path, i + 1, j))

LEMMA PendingFinite ==
    ASSUME NEW path, NEW i \in Int, NEW j \in Int
    PROVE  IsFiniteSet(Pending(path, i, j))
           /\ Cardinality(Pending(path, i, j)) \in Nat
<1>1. IsFiniteSet((i + 1)..(j - 1))
  BY FS_Interval
<1>2. Pending(path, i, j) \subseteq (i + 1)..(j - 1)
  BY DEF Pending
<1>3. IsFiniteSet(Pending(path, i, j))
  BY <1>1, <1>2, FS_Subset
<1> QED BY <1>3, FS_CardinalityType

\* Distances go through a first branch.
LEMMA DistThroughFirst ==
    ASSUME NEW path \in Seq(Ids), NEW i \in 1..Len(path),
           NEW b \in Firsts(path, i + 1),
           NEW t \in b..Len(path), path[t] \in Bids, Reaches(path, b, t)
    PROVE  /\ t > i /\ Inside(path, i + 1, t)
           /\ 1 + Cardinality(Pending(path, i, t)) <= 1 + Dist(path, b, t)
<1> DEFINE n == Len(path)
<1>0. n \in Int /\ i \in Int /\ b \in Int /\ t \in Int /\ i + 1 <= b /\ b <= t
      /\ 1 <= i /\ t <= n /\ (i + 1) - 1 = i /\ (b + 1) - 1 = b
  BY DEF Firsts
<1>1. /\ Inside(path, i + 1, b) /\ path[b] \in Bids
      /\ \A c \in (i + 1)..(b - 1) : path[c] \in Bids => Ended(path, c, b)
  BY DEF Firsts
<1>2. \A k \in 0..n : Height(path, k) \in Int
  BY HeightType
<1>3. Inside(path, i + 1, t)
  <2> SUFFICES ASSUME NEW k \in (i + 1)..t
               PROVE  Height(path, k) >= Height(path, i)
    BY <1>0 DEF Inside
  <2>1. CASE k \in (i + 1)..b
    BY <1>0, <1>1, <2>1 DEF Inside
  <2>2. CASE k \in (b + 1)..t
    <3>1. Height(path, k) >= Height(path, b)
      <4>1. t # b
        BY <1>0, <2>2
      <4>2. Inside(path, b + 1, t)
        BY <4>1 DEF Reaches
      <4> QED BY <1>0, <2>2, <4>2 DEF Inside
    <3>2. Height(path, b) >= Height(path, i)
      BY <1>0, <1>1 DEF Inside
    <3>3. k \in 0..n /\ b \in 0..n /\ i \in 0..n
      BY <1>0
    <3> QED BY <1>2, <3>1, <3>2, <3>3
  <2>3. k \in (i + 1)..b \/ k \in (b + 1)..t
    BY <1>0
  <2> QED BY <2>1, <2>2, <2>3
<1>4. \A c \in (i + 1)..(b - 1) : path[c] \in Bids => Ended(path, c, t)
  <2>1. \A c \in (i + 1)..(b - 1) : \A m \in c..(b - 1) : m \in c..(t - 1)
    BY <1>0
  <2> QED BY <1>1, <2>1 DEF Ended
<1>5. \A c \in Pending(path, i, t) : c = b \/ c \in Pending(path, b, t)
  <2> TAKE c \in Pending(path, i, t)
  <2>1. c \in (i + 1)..(t - 1) /\ path[c] \in Bids /\ ~Ended(path, c, t)
    BY DEF Pending
  <2>2. c \notin (i + 1)..(b - 1)
    BY <1>4, <2>1
  <2>3. c = b \/ c \in (b + 1)..(t - 1)
    BY <1>0, <2>1, <2>2
  <2> QED BY <2>1, <2>3 DEF Pending
<1>6. Cardinality(Pending(path, i, t)) \in Nat
      /\ IsFiniteSet(Pending(path, b, t))
      /\ Cardinality(Pending(path, b, t)) \in Nat
  BY <1>0, PendingFinite
<1>7. CASE t = b
  <2>1. Pending(path, i, t) = {}
    <3>1. Pending(path, b, t) = {} /\ b \notin (i + 1)..(t - 1)
      BY <1>0, <1>7 DEF Pending
    <3>2. \A c \in Pending(path, i, t) : c \in (i + 1)..(t - 1)
      BY DEF Pending
    <3> QED BY <1>5, <3>1, <3>2
  <2>2. Cardinality(Pending(path, i, t)) = 0
    BY <2>1, FS_EmptySet
  <2> QED BY <1>0, <1>3, <1>7, <2>2 DEF Dist
<1>8. CASE t # b
  <2>1. Pending(path, i, t) \subseteq Pending(path, b, t) \cup {b}
    BY <1>5
  <2>2. b \notin Pending(path, b, t)
    BY <1>0 DEF Pending
  <2>3. Cardinality(Pending(path, b, t) \cup {b})
          = Cardinality(Pending(path, b, t)) + 1
        /\ IsFiniteSet(Pending(path, b, t) \cup {b})
    BY <1>6, <2>2, FS_AddElement
  <2>4. Cardinality(Pending(path, i, t))
          <= Cardinality(Pending(path, b, t) \cup {b})
    BY <2>1, <2>3, FS_Subset
  <2> QED BY <1>0, <1>3, <1>6, <1>8, <2>3, <2>4 DEF Dist
<1> QED BY <1>7, <1>8

\* A branch that is reached is reached through a first one, one nearer.
LEMMA FirstToward ==
    ASSUME NEW path \in Seq(Ids), NEW i \in 1..Len(path),
           NEW t \in (i + 1)..Len(path), path[t] \in Bids,
           Inside(path, i + 1, t)
    PROVE  \E b \in Firsts(path, i + 1) :
              /\ b <= t /\ Reaches(path, b, t)
              /\ 1 + Dist(path, b, t) = 1 + Cardinality(Pending(path, i, t))
<1> DEFINE n == Len(path)
           P == Pending(path, i, t)
<1>0. n \in Int /\ i \in Int /\ t \in Int /\ i + 1 <= t
      /\ 1 <= i /\ t <= n /\ (i + 1) - 1 = i
  OBVIOUS
<1>1. \A k \in 0..n : Height(path, k) \in Int
  BY HeightType
<1>2. IsFiniteSet(P) /\ Cardinality(P) \in Nat
  BY <1>0, PendingFinite
<1>3. \A c : c \in P <=> /\ c \in (i + 1)..(t - 1) /\ path[c] \in Bids
                         /\ ~Ended(path, c, t)
  BY DEF Pending
<1> HIDE DEF P
<1>4. CASE P = {}
  <2>1. t \in Firsts(path, i + 1)
    BY <1>0, <1>3, <1>4 DEF Firsts
  <2>2. Cardinality(P) = 0
    BY <1>4, FS_EmptySet
  <2> QED BY <1>0, <2>1, <2>2 DEF Reaches, Dist, P
<1>5. CASE P # {}
  <2>1. PICK b \in P : \A c \in P : b <= c
    <3>1. P \in SUBSET Nat
      BY <1>0, <1>3
    <3> QED BY <1>5, <3>1, NatLeast
  <2>2. /\ b \in (i + 1)..(t - 1) /\ path[b] \in Bids /\ b \in Int
        /\ i + 1 <= b /\ b <= t - 1 /\ (b + 1) - 1 = b
        /\ \A m \in b..(t - 1) : ~(Height(path, m) < Height(path, b))
    BY <1>0, <1>3, <2>1 DEF Ended
  <2>3. \A m \in b..(t - 1) : Height(path, m) >= Height(path, b)
    <3>1. \A m \in b..(t - 1) : m \in 0..n /\ b \in 0..n
      BY <1>0, <2>2
    <3> QED BY <1>1, <2>2, <3>1
  <2>4. Inside(path, i + 1, b)
    BY <1>0, <2>2 DEF Inside
  <2>5. ASSUME NEW c \in (i + 1)..(b - 1), path[c] \in Bids
        PROVE  Ended(path, c, b)
    <3>0. c \in Int /\ i + 1 <= c /\ c < b /\ c \in (i + 1)..(t - 1) /\ ~(b <= c)
          /\ c \in 0..n /\ b \in 1..n /\ b - 1 \in c..(b - 1) /\ b - 1 \in 0..n
      BY <1>0, <2>2
    <3>1. PICK m \in c..(t - 1) : Height(path, m) < Height(path, c)
      BY <1>3, <2>1, <2>5, <3>0 DEF Ended
    <3>2. CASE m < b
      <4>1. m \in c..(b - 1)
        BY <2>2, <3>0, <3>2
      <4> QED BY <3>1, <4>1 DEF Ended
    <3>3. CASE m >= b
      <4>1. m \in b..(t - 1) /\ m \in 0..n
        BY <1>0, <2>2, <3>0, <3>3
      <4>2. Height(path, b) < Height(path, c)
        <5>1. Height(path, m) >= Height(path, b)
          BY <2>3, <4>1
        <5>2. Height(path, m) \in Int /\ Height(path, b) \in Int
              /\ Height(path, c) \in Int
          BY <1>1, <3>0, <4>1
        <5> QED BY <3>1, <5>1, <5>2
      <4>3. Height(path, b) = Height(path, b - 1)
        BY <2>2, <3>0, HeightStep
      <4> QED BY <3>0, <4>2, <4>3 DEF Ended
    <3> QED BY <2>2, <3>0, <3>2, <3>3
  <2>6. b \in Firsts(path, i + 1)
    <3>1. b \in (i + 1)..n
      BY <1>0, <2>2
    <3> QED BY <2>2, <2>4, <2>5, <3>1 DEF Firsts
  <2>7. Reaches(path, b, t)
    <3>1. Height(path, t) = Height(path, t - 1)
      BY <1>0, HeightStep
    <3>2. Height(path, t) >= Height(path, b)
      <4>1. t - 1 \in b..(t - 1)
        BY <1>0, <2>2
      <4> QED BY <2>3, <3>1, <4>1
    <3>3. \A k \in (b + 1)..t : k \in b..(t - 1) \/ k = t
      BY <1>0, <2>2
    <3> QED BY <1>0, <2>2, <2>3, <3>2, <3>3 DEF Reaches, Inside
  <2>8. P = Pending(path, b, t) \cup {b}
    <3>1. ASSUME NEW c PROVE c \in P <=> c \in Pending(path, b, t) \/ c = b
      <4>1. c \in Pending(path, b, t)
              <=> /\ c \in (b + 1)..(t - 1) /\ path[c] \in Bids
                  /\ ~Ended(path, c, t)
        BY DEF Pending
      <4>2. c \in (b + 1)..(t - 1) => c \in (i + 1)..(t - 1)
        BY <1>0, <2>2
      <4>3. c \in P => c = b \/ c \in (b + 1)..(t - 1)
        BY <1>0, <1>3, <2>1, <2>2
      <4> QED BY <1>3, <2>1, <4>1, <4>2, <4>3
    <3> QED BY <3>1
  <2>9. b \notin Pending(path, b, t) /\ IsFiniteSet(Pending(path, b, t))
        /\ Cardinality(Pending(path, b, t)) \in Nat
    <3>1. b \notin (b + 1)..(t - 1)
      BY <2>2
    <3>2. b \notin Pending(path, b, t)
      BY <3>1 DEF Pending
    <3> QED BY <1>0, <2>2, <3>2, PendingFinite
  <2>10. Cardinality(P) = Cardinality(Pending(path, b, t)) + 1
    BY <2>8, <2>9, FS_AddElement
  <2>11. Dist(path, b, t) = 1 + Cardinality(Pending(path, b, t)) /\ b <= t
    BY <1>0, <2>2 DEF Dist
  <2> QED BY <2>6, <2>7, <2>9, <2>10, <2>11 DEF P
<1> QED BY <1>4, <1>5

\* FindAlongCfg unfolds depth by depth.
Levels(path, i, dist, bs, f) ==
    /\ \A j \in i..Len(path) : j \in f[0] <=> path[j] \in bs
    /\ \A d \in 1..dist, j \in i..Len(path) :
          j \in f[d] <=> \/ path[j] \in bs
                        \/ NextBranches(path, j) \cap f[d - 1] # {}

LEMMA FindUnfolds ==
    ASSUME NEW path \in Seq(Ids), NEW i \in 1..Len(path), NEW dist \in Nat,
           NEW bs
    PROVE  \E f : /\ Levels(path, i, dist, bs, f)
                  /\ FindAlongCfg(path, i, dist, bs) <=> i \in f[dist]
<1> DEFINE found == {j \in i..Len(path) : path[j] \in bs}
           Back(W) == {j \in i..Len(path) : NextBranches(path, j) \cap W # {}}
           V == SUBSET (i..Len(path))
           S == [d \in 0..dist |-> [W \in V |-> found \cup Back(W)]]
           Body(f) == [d \in 0..dist |-> IF d = 0 THEN found
                                         ELSE found \cup Back(f[d - 1])]
           find == CHOOSE f : f = Body(f)
<1>1. FindAlongCfg(path, i, dist, bs) <=> i \in find[dist]
  BY DEF FindAlongCfg
<1>2. found \in V /\ \A W : Back(W) \in V
  OBVIOUS
<1> HIDE DEF found, Back, V
<1>3. S \in [0..dist -> [V -> V]]
  <2>1. \A W \in V : found \cup Back(W) \in V
    BY <1>2 DEF V
  <2> QED BY <2>1
<1>4. \A d \in 0..dist, W \in V : S[d][W] = found \cup Back(W)
  OBVIOUS
<1> HIDE DEF S
<1>5. PICK f \in [0..dist -> V] :
         f[0] = found /\ \A d \in (0 + 1)..dist : f[d] = S[d][f[d - 1]]
  <2>1. 0 \in Int /\ dist \in Int /\ 0 <= dist
    OBVIOUS
  <2>2. found \in V
    BY <1>2
  <2>3. Loops(0, dist, V, found, S) # {}
    BY <1>3, <2>1, <2>2, LoopExists
  <2> QED BY <2>3 DEF Loops
<1>6. f = Body(f)
  <2>1. \A d \in 0..dist : d # 0 => S[d][f[d - 1]] = found \cup Back(f[d - 1])
    <3> TAKE d \in 0..dist
    <3> HAVE d # 0
    <3>1. d - 1 \in 0..dist
      OBVIOUS
    <3>2. f[d - 1] \in V
      BY <1>5, <3>1
    <3> QED BY <1>4, <3>2
  <2>2. \A d \in 0..dist : f[d] = IF d = 0 THEN found ELSE S[d][f[d - 1]]
    <3>1. \A d \in 0..dist : d # 0 => d \in (0 + 1)..dist
      OBVIOUS
    <3> QED BY <1>5, <3>1
  <2>3. \A d \in 0..dist : f[d] = IF d = 0 THEN found
                                  ELSE found \cup Back(f[d - 1])
    BY <2>1, <2>2
  <2> QED BY <1>5, <2>3
<1>7. find = Body(find)
  <2>1. \E g : g = Body(g)
    BY <1>6
  <2> HIDE DEF Body
  <2> QED BY <2>1, Zenon
<1> HIDE DEF find
<1>8. /\ find[0] = found
      /\ \A d \in 1..dist : find[d] = found \cup Back(find[d - 1])
  <2>1. \A d \in 0..dist : find[d] = IF d = 0 THEN found
                                     ELSE found \cup Back(find[d - 1])
    BY <1>7, Zenon
  <2>2. 0 \in 0..dist /\ \A d \in 1..dist : d \in 0..dist /\ d # 0
    OBVIOUS
  <2> QED BY <2>1, <2>2
<1>9. \A j \in i..Len(path) : j \in find[0] <=> path[j] \in bs
  BY <1>8 DEF found
<1>10. ASSUME NEW d \in 1..dist, NEW j \in i..Len(path)
       PROVE  j \in find[d] <=> \/ path[j] \in bs
                                \/ NextBranches(path, j) \cap find[d - 1] # {}
  <2>1. find[d] = found \cup Back(find[d - 1])
    BY <1>8
  <2>2. j \in found <=> path[j] \in bs
    BY DEF found
  <2>3. j \in Back(find[d - 1])
          <=> NextBranches(path, j) \cap find[d - 1] # {}
    BY DEF Back
  <2> QED BY <2>1, <2>2, <2>3
<1>11. Levels(path, i, dist, bs, find)
  BY <1>9, <1>10 DEF Levels
<1> QED BY <1>1, <1>11

\* FindAlongCfg finds what is within the distance, and nothing else.
LEMMA FindsWithin ==
    ASSUME NEW path \in Seq(Ids), NEW i \in BranchPositions(path),
           NEW dist \in Nat, NEW bs \in SUBSET Bids
    PROVE  FindAlongCfg(path, i, dist, bs)
             <=> \E t \in i..Len(path) : /\ path[t] \in bs
                                        /\ Reaches(path, i, t)
                                        /\ Dist(path, i, t) <= dist
<1> DEFINE n == Len(path)
           Near(j, d) == \E t \in j..n : /\ path[t] \in bs
                                         /\ Reaches(path, j, t)
                                         /\ Dist(path, j, t) <= d
<1>0. n \in Int /\ i \in 1..n /\ i \in Int /\ path[i] \in Bids
  BY DEF BranchPositions
<1>1. PICK f : /\ Levels(path, i, dist, bs, f)
               /\ FindAlongCfg(path, i, dist, bs) <=> i \in f[dist]
  <2>1. i \in 1..Len(path)
    BY <1>0
  <2> QED BY <2>1, FindUnfolds
<1> DEFINE S == {d \in Nat : d <= dist =>
                   \A j \in i..n : path[j] \in Bids => (j \in f[d] <=> Near(j, d))}
<1>d. \A j, t \in i..n : /\ Dist(path, j, t) \in Nat
                         /\ Dist(path, j, t) <= 0 => t = j
                         /\ Dist(path, j, j) = 0 /\ Reaches(path, j, j)
                         /\ t # j => Dist(path, j, t)
                                       = 1 + Cardinality(Pending(path, j, t))
  <2> TAKE j, t \in i..n
  <2>1. Cardinality(Pending(path, j, t)) \in Nat
    BY <1>0, PendingFinite
  <2> QED BY <2>1 DEF Dist, Reaches
<1>n. \A j \in i..n : path[j] \in Bids =>
         NextBranches(path, j) = Firsts(path, j + 1)
  <2> TAKE j \in i..n
  <2>1. j + 1 \in 1..(n + 1)
    BY <1>0
  <2> QED BY <2>1, CollectsFirsts DEF NextBranches, Collected
<1>2. 0 \in S
  <2> SUFFICES ASSUME NEW j \in i..n, path[j] \in Bids
               PROVE  j \in f[0] <=> Near(j, 0)
    OBVIOUS
  <2>1. ASSUME path[j] \in bs PROVE Near(j, 0)
    <3>1. j \in j..n /\ Dist(path, j, j) <= 0 /\ Reaches(path, j, j)
      BY <1>0, <1>d
    <3> QED BY <2>1, <3>1
  <2>2. ASSUME Near(j, 0) PROVE path[j] \in bs
    <3>1. PICK t \in j..n : path[t] \in bs /\ Dist(path, j, t) <= 0
      BY <2>2
    <3>2. t \in i..n
      BY <1>0
    <3>3. t = j
      BY <1>d, <3>1, <3>2
    <3> QED BY <3>1, <3>3
  <2>3. j \in f[0] <=> path[j] \in bs
    BY <1>1 DEF Levels
  <2> QED BY <2>1, <2>2, <2>3
<1>3. ASSUME NEW e \in Nat, e \in S PROVE e + 1 \in S
  <2> SUFFICES ASSUME e + 1 <= dist, NEW j \in i..n, path[j] \in Bids
               PROVE  j \in f[e + 1] <=> Near(j, e + 1)
    OBVIOUS
  <2>0. j \in Int /\ j \in 1..n /\ (e + 1) - 1 = e /\ e + 1 \in 1..dist
        /\ e <= dist
    BY <1>0
  <2>1. j \in f[e + 1]
          <=> path[j] \in bs \/ \E b \in Firsts(path, j + 1) : b \in f[e]
    <3>1. j \in f[e + 1] <=> path[j] \in bs
                             \/ NextBranches(path, j) \cap f[e] # {}
      BY <1>1, <2>0 DEF Levels
    <3>2. NextBranches(path, j) = Firsts(path, j + 1)
      BY <1>n
    <3> QED BY <3>1, <3>2
  <2>2. \A b \in Firsts(path, j + 1) :
           /\ b \in i..n /\ path[b] \in Bids /\ b >= j + 1
           /\ b \in f[e] <=> Near(b, e)
    <3>1. \A b \in Firsts(path, j + 1) : b \in (j + 1)..n /\ path[b] \in Bids
      BY DEF Firsts
    <3>2. \A b \in (j + 1)..n : b \in i..n /\ b >= j + 1
      BY <1>0, <2>0
    <3>3. \A b \in i..n : path[b] \in Bids => (b \in f[e] <=> Near(b, e))
      BY <1>3, <2>0
    <3> HIDE DEF Near
    <3> QED BY <3>1, <3>2, <3>3
  <2>3. ASSUME path[j] \in bs PROVE Near(j, e + 1)
    <3>1. j \in j..n /\ Dist(path, j, j) <= e + 1 /\ Reaches(path, j, j)
      BY <1>0, <1>d
    <3> QED BY <2>3, <3>1
  <2>4. ASSUME NEW b \in Firsts(path, j + 1), Near(b, e)
        PROVE  Near(j, e + 1)
    <3>1. PICK t \in b..n : /\ path[t] \in bs /\ Reaches(path, b, t)
                            /\ Dist(path, b, t) <= e
      BY <2>4
    <3>2. t \in i..n /\ t \in j..n /\ b \in i..n /\ path[t] \in Bids
      BY <1>0, <2>0, <2>2, <3>1
    <3>3. /\ t > j /\ Inside(path, j + 1, t)
          /\ 1 + Cardinality(Pending(path, j, t)) <= 1 + Dist(path, b, t)
      BY <2>0, <3>1, <3>2, DistThroughFirst
    <3>4. Dist(path, j, t) <= 1 + Dist(path, b, t)
      BY <1>d, <2>0, <3>2, <3>3
    <3>5. Dist(path, j, t) <= e + 1
      <4>1. Dist(path, j, t) \in Nat /\ Dist(path, b, t) \in Nat
        BY <1>d, <3>2
      <4> QED BY <3>1, <3>4, <4>1
    <3> QED BY <3>1, <3>2, <3>3, <3>5 DEF Reaches
  <2>5. ASSUME Near(j, e + 1), path[j] \notin bs
        PROVE  \E b \in Firsts(path, j + 1) : Near(b, e)
    <3>1. PICK t \in j..n : /\ path[t] \in bs /\ Reaches(path, j, t)
                            /\ Dist(path, j, t) <= e + 1
      BY <2>5
    <3>2. t # j /\ t \in (j + 1)..n /\ t \in i..n /\ path[t] \in Bids
          /\ Inside(path, j + 1, t)
      BY <1>0, <2>0, <2>5, <3>1 DEF Reaches
    <3>3. PICK b \in Firsts(path, j + 1) :
             /\ b <= t /\ Reaches(path, b, t)
             /\ 1 + Dist(path, b, t) = 1 + Cardinality(Pending(path, j, t))
      BY <2>0, <3>2, FirstToward
    <3>4. b \in i..n /\ t \in b..n
      BY <1>0, <2>2, <3>2, <3>3
    <3>5. Dist(path, b, t) <= e
      <4>1. 1 + Dist(path, b, t) = Dist(path, j, t)
        BY <1>d, <3>2, <3>3
      <4>2. Dist(path, b, t) \in Nat
        BY <1>d, <3>2, <3>4
      <4> QED BY <3>1, <4>1, <4>2
    <3> QED BY <3>1, <3>3, <3>4, <3>5
  <2> HIDE DEF Near
  <2> QED BY <2>1, <2>2, <2>3, <2>4, <2>5
<1> HIDE DEF S
<1>4. dist \in S
  BY <1>2, <1>3, NatSet
<1>5. i \in i..n
  BY <1>0
<1> QED BY <1>0, <1>1, <1>4, <1>5 DEF S

-----------------------------------------------------------------------------
(* MinCflDistance: the stack holds the distance at every open level.       *)

\* The loop of MinCflDistance: its state, and its steps.
MinState == [cur_dist : Nat, stack : Seq(Nat), min_dist : Nat, over : BOOLEAN]

LEMMA MinOfTwo ==
    ASSUME NEW a \in Nat, NEW b \in Nat
    PROVE  Min({a, b}) \in Nat
           /\ \A d \in Nat : Min({a, b}) <= d <=> a <= d \/ b <= d
<1>1. \E x \in {a, b} : \A y \in {a, b} : x <= y
  OBVIOUS
<1>2. Min({a, b}) \in {a, b} /\ \A y \in {a, b} : Min({a, b}) <= y
  BY <1>1, Zenon DEF Min
<1> QED BY <1>2

LEMMA FrontLast ==
    ASSUME NEW s \in Seq(Nat), s # <<>>
    PROVE  /\ Last(s) = s[Len(s)] /\ Last(s) \in Nat /\ Len(s) >= 1
           /\ Front(s) \in Seq(Nat) /\ Len(Front(s)) = Len(s) - 1
           /\ \A k \in 1..(Len(s) - 1) : Front(s)[k] = s[k]
<1>1. Len(s) \in Nat /\ Len(s) >= 1 /\ Len(s) \in 1..Len(s)
  <2>1. Len(s) \in Nat /\ Len(s) # 0
    OBVIOUS
  <2> QED BY <2>1
<1>2. s[Len(s)] \in Nat
  BY <1>1
<1>3. /\ SubSeq(s, 1, Len(s) - 1) \in Seq(Nat)
      /\ Len(SubSeq(s, 1, Len(s) - 1)) = Len(s) - 1
      /\ \A k \in 1..(Len(s) - 1) : SubSeq(s, 1, Len(s) - 1)[k] = s[k]
  <2> DEFINE m == Len(s) - 1
  <2>1. m \in Nat /\ m <= Len(s)
    BY <1>1
  <2> HIDE DEF m
  <2>2. /\ SubSeq(s, 1, m) \in Seq(Nat)
        /\ Len(SubSeq(s, 1, m)) = IF 1 <= m THEN m - 1 + 1 ELSE 0
        /\ \A k \in 1..(m - 1 + 1) : SubSeq(s, 1, m)[k] = s[1 + k - 1]
    <3>1. \A k \in 1..m : s[k] \in Nat
      BY <1>1, <2>1
    <3> QED BY <2>1, <3>1, SubSeqProperties
  <2>3. Len(SubSeq(s, 1, m)) = m
        /\ \A k \in 1..m : SubSeq(s, 1, m)[k] = s[k]
    BY <2>1, <2>2
  <2> QED BY <2>1, <2>2, <2>3 DEF m
<1> QED BY <1>1, <1>2, <1>3 DEF Last, Front

LEMMA MinStepCall ==
    ASSUME NEW at \in MinState, NEW bs, ~at.over
    PROVE  /\ MinStep(at, kCallId, bs) \in MinState
           /\ MinStep(at, kCallId, bs).stack = Append(at.stack, at.cur_dist)
           /\ MinStep(at, kCallId, bs).cur_dist = at.cur_dist
           /\ MinStep(at, kCallId, bs).min_dist = at.min_dist
           /\ ~MinStep(at, kCallId, bs).over
<1>1. MinStep(at, kCallId, bs)
        = [at EXCEPT !.stack = Append(at.stack, at.cur_dist)]
  BY DEF MinStep
<1>2. Append(at.stack, at.cur_dist) \in Seq(Nat)
  BY DEF MinState
<1> QED BY <1>1, <1>2 DEF MinState

LEMMA MinStepReturn ==
    ASSUME NEW at \in MinState, NEW bs, ~at.over
    PROVE  /\ MinStep(at, kReturnId, bs) \in MinState
           /\ MinStep(at, kReturnId, bs).min_dist = at.min_dist
           /\ at.stack = <<>> => MinStep(at, kReturnId, bs).over
           /\ at.stack # <<>> =>
                 /\ MinStep(at, kReturnId, bs).stack = Front(at.stack)
                 /\ MinStep(at, kReturnId, bs).cur_dist = Last(at.stack)
                 /\ ~MinStep(at, kReturnId, bs).over
<1>1. kReturnId # kCallId
  BY MarkersApart
<1>2. CASE at.stack = <<>>
  BY <1>1, <1>2 DEF MinStep, MinState
<1>3. CASE at.stack # <<>>
  <2>1. MinStep(at, kReturnId, bs)
          = [at EXCEPT !.cur_dist = Last(at.stack), !.stack = Front(at.stack)]
    BY <1>1, <1>3 DEF MinStep
  <2>2. Front(at.stack) \in Seq(Nat) /\ Last(at.stack) \in Nat
    BY <1>3, FrontLast DEF MinState
  <2> QED BY <1>3, <2>1, <2>2 DEF MinState
<1> QED BY <1>2, <1>3

LEMMA MinStepBranch ==
    ASSUME NEW at \in MinState, NEW bs, ~at.over, NEW id \in Bids
    PROVE  /\ MinStep(at, id, bs) \in MinState
           /\ MinStep(at, id, bs).stack = at.stack
           /\ MinStep(at, id, bs).cur_dist = at.cur_dist + 1
           /\ \A d \in Nat :
                 MinStep(at, id, bs).min_dist <= d
                   <=> at.min_dist <= d \/ (id \in bs /\ at.cur_dist <= d)
           /\ ~MinStep(at, id, bs).over
<1> DEFINE m == IF id \in bs THEN Min({at.min_dist, at.cur_dist})
                ELSE at.min_dist
<1>1. id # kCallId /\ id # kReturnId
  BY MarkersApart
<1>2. MinStep(at, id, bs) = [at EXCEPT !.cur_dist = at.cur_dist + 1,
                                       !.min_dist = m]
  BY <1>1 DEF MinStep
<1>3. at.min_dist \in Nat /\ at.cur_dist \in Nat
  BY DEF MinState
<1>4. m \in Nat
      /\ \A d \in Nat :
            m <= d <=> at.min_dist <= d \/ (id \in bs /\ at.cur_dist <= d)
  BY <1>3, MinOfTwo
<1> HIDE DEF m
<1>5. MinStep(at, id, bs) = [cur_dist |-> at.cur_dist + 1, stack |-> at.stack,
                             min_dist |-> m, over |-> at.over]
  BY <1>2 DEF MinState
<1>6. at.stack \in Seq(Nat) /\ at.cur_dist + 1 \in Nat /\ at.over = FALSE
  BY <1>3 DEF MinState
<1>7. MinStep(at, id, bs) \in MinState
  BY <1>4, <1>5, <1>6 DEF MinState
<1> QED BY <1>4, <1>5, <1>6, <1>7

LEMMA MinStepOver ==
    ASSUME NEW at \in MinState, NEW bs, NEW id, at.over
    PROVE  MinStep(at, id, bs) = at
BY DEF MinStep

MinLoop(path, i, bs, f) ==
    /\ f \in [i..Len(path) -> MinState]
    /\ f[i] = [cur_dist |-> 1, stack |-> <<>>, min_dist |-> Infinity,
               over |-> FALSE]
    /\ \A j \in (i + 1)..Len(path) : f[j] = MinStep(f[j - 1], path[j], bs)

\* MinCflDistance unfolds entry by entry.
LEMMA MinUnfolds ==
    ASSUME NEW path \in Seq(Ids), NEW i \in 1..Len(path), NEW bs
    PROVE  \E f : /\ MinLoop(path, i, bs, f)
                  /\ MinCflDistance(path, i, bs)
                       = IF path[i] \in bs THEN 0 ELSE f[Len(path)].min_dist
<1> DEFINE n == Len(path)
           U == [cur_dist |-> 1, stack |-> <<>>, min_dist |-> Infinity,
                 over |-> FALSE]
           S == [j \in i..n |-> [at \in MinState |-> MinStep(at, path[j], bs)]]
           Body(f) == [j \in i..n |-> IF j = i THEN U
                                      ELSE MinStep(f[j - 1], path[j], bs)]
           loop == CHOOSE f : f = Body(f)
<1>0. n \in Int /\ i \in Int /\ 1 <= i /\ i <= n
  OBVIOUS
<1>1. MinCflDistance(path, i, bs)
        = IF path[i] \in bs THEN 0 ELSE loop[n].min_dist
  BY DEF MinCflDistance
<1>2. U \in MinState
  <2>1. Infinity \in Nat
    BY PathAssumption DEF Infinity
  <2> QED BY <2>1 DEF MinState
<1>3. ASSUME NEW j \in i..n, NEW at \in MinState
      PROVE  MinStep(at, path[j], bs) \in MinState
  <2>1. path[j] \in Bids \/ path[j] = kCallId \/ path[j] = kReturnId
    <3>1. j \in 1..n
      BY <1>0
    <3> QED BY <3>1, HeightStep
  <2>2. CASE at.over
    BY <2>2, MinStepOver
  <2>3. CASE ~at.over
    BY <2>1, <2>3, MinStepCall, MinStepReturn, MinStepBranch
  <2> QED BY <2>2, <2>3
<1> HIDE DEF n, U
<1>4. S \in [i..n -> [MinState -> MinState]]
  BY <1>3
<1>5. \A j \in i..n, at \in MinState : S[j][at] = MinStep(at, path[j], bs)
  OBVIOUS
<1> HIDE DEF S
<1>6. PICK f \in [i..n -> MinState] :
         f[i] = U /\ \A j \in (i + 1)..n : f[j] = S[j][f[j - 1]]
  <2>1. Loops(i, n, MinState, U, S) # {}
    BY <1>0, <1>2, <1>4, LoopExists
  <2> QED BY <2>1 DEF Loops
<1>7. \A j \in i..n : f[j] = IF j = i THEN U ELSE MinStep(f[j - 1], path[j], bs)
  <2> TAKE j \in i..n
  <2>1. CASE j # i
    <3>1. j \in (i + 1)..n /\ j - 1 \in i..n
      BY <1>0, <2>1
    <3> QED BY <1>5, <1>6, <2>1, <3>1
  <2> QED BY <1>6, <2>1
<1>8. f = Body(f)
  BY <1>6, <1>7
<1>9. loop = Body(loop)
  <2>1. \E g : g = Body(g)
    BY <1>8
  <2> HIDE DEF Body
  <2> QED BY <2>1, Zenon
<1> HIDE DEF loop
<1>10. \A j \in i..n :
          loop[j] = IF j = i THEN U ELSE MinStep(loop[j - 1], path[j], bs)
  BY <1>9, Zenon
<1> DEFINE T == {m \in Nat : i + m <= n => loop[i + m] \in MinState}
<1>11. 0 \in T
  <2>1. i + 0 = i /\ i \in i..n
    BY <1>0
  <2> QED BY <1>2, <1>10, <2>1
<1>12. ASSUME NEW m \in Nat, m \in T PROVE m + 1 \in T
  <2> SUFFICES ASSUME i + (m + 1) <= n PROVE loop[i + (m + 1)] \in MinState
    OBVIOUS
  <2>1. /\ i + (m + 1) \in i..n /\ i + (m + 1) # i
        /\ i + (m + 1) - 1 = i + m /\ i + m <= n
    BY <1>0
  <2>2. loop[i + m] \in MinState
    BY <1>12, <2>1
  <2>3. loop[i + (m + 1)] = MinStep(loop[i + m], path[i + (m + 1)], bs)
    BY <1>10, <2>1
  <2> QED BY <1>3, <2>1, <2>2, <2>3
<1> HIDE DEF T
<1>13. \A m \in Nat : m \in T
  BY <1>11, <1>12, NatSet
<1>14. loop \in [i..n -> MinState]
  <2>1. ASSUME NEW j \in i..n PROVE loop[j] \in MinState
    <3>1. j - i \in T /\ i + (j - i) = j /\ j <= n
      BY <1>0, <1>13
    <3> QED BY <3>1 DEF T
  <2>2. loop = [j \in i..n |-> loop[j]]
    BY <1>9
  <2> QED BY <2>1, <2>2
<1>15. MinLoop(path, i, bs, loop)
  <2>1. i \in i..n /\ \A j \in (i + 1)..n : j \in i..n /\ j # i
    BY <1>0
  <2> QED BY <1>10, <1>14, <2>1 DEF MinLoop, n, U
<1> QED BY <1>1, <1>15 DEF n

\* The distance of position j, counting the branches at height l or below.
Level(path, i, j, l) ==
    1 + Cardinality({b \in Pending(path, i, j) : Height(path, b) <= l})

\* What one more entry leaves open, and adds.
LEMMA PendingStep ==
    ASSUME NEW path \in Seq(Ids), NEW i \in 1..Len(path),
           NEW j \in (i + 1)..Len(path)
    PROVE  /\ \A b \in Pending(path, i, j) :
                 /\ Height(path, b) \in Int
                 /\ Height(path, b) <= Height(path, j - 1)
           /\ \A b : b \in Pending(path, i, j + 1) <=>
                 \/ b \in Pending(path, i, j) /\ Height(path, b) <= Height(path, j)
                 \/ b = j /\ path[j] \in Bids
           /\ j \notin Pending(path, i, j)
<1> DEFINE n == Len(path)
<1>0. n \in Int /\ i \in Int /\ j \in Int /\ i + 1 <= j /\ 1 <= i /\ j <= n
      /\ (j + 1) - 1 = j /\ j \in 0..n
  OBVIOUS
<1>1. \A k \in 0..n : Height(path, k) \in Int
  BY HeightType
<1>2. \A b \in (i + 1)..(j - 1) : j - 1 \in b..(j - 1) /\ b \in 0..n /\ j - 1 \in 0..n
  BY <1>0
<1>3. ASSUME NEW b \in Pending(path, i, j)
      PROVE  Height(path, b) \in Int /\ Height(path, b) <= Height(path, j - 1)
  <2>1. b \in (i + 1)..(j - 1) /\ ~(Height(path, j - 1) < Height(path, b))
    BY <1>2 DEF Pending, Ended
  <2> QED BY <1>1, <1>2, <2>1
<1>4. ASSUME NEW b \in (i + 1)..(j - 1)
      PROVE  Ended(path, b, j + 1)
               <=> Ended(path, b, j) \/ ~(Height(path, b) <= Height(path, j))
  <2>1. \A m : m \in b..((j + 1) - 1) <=> m \in b..(j - 1) \/ m = j
    BY <1>0
  <2>2. Height(path, j) < Height(path, b)
          <=> ~(Height(path, b) <= Height(path, j))
    BY <1>0, <1>1, <1>2
  <2> QED BY <2>1, <2>2 DEF Ended
<1>5. ~Ended(path, j, j + 1)
  <2>1. \A m \in j..((j + 1) - 1) : m = j
    BY <1>0
  <2>2. ~(Height(path, j) < Height(path, j))
    BY <1>0, <1>1
  <2> QED BY <2>1, <2>2 DEF Ended
<1>6. \A b : b \in (i + 1)..((j + 1) - 1) <=> b \in (i + 1)..(j - 1) \/ b = j
  BY <1>0
<1>7. j \notin (i + 1)..(j - 1)
  BY <1>0
<1> QED BY <1>3, <1>4, <1>5, <1>6, <1>7 DEF Pending

\* How one more entry changes the levels.
LEMMA LevelStep ==
    ASSUME NEW path \in Seq(Ids), NEW i \in 1..Len(path),
           NEW j \in (i + 1)..Len(path), NEW l \in Int
    PROVE  /\ Level(path, i, j, l) \in Nat
           /\ path[j] = kCallId => Level(path, i, j + 1, l) = Level(path, i, j, l)
           /\ path[j] = kReturnId /\ l <= Height(path, j) =>
                 Level(path, i, j + 1, l) = Level(path, i, j, l)
           /\ path[j] \in Bids /\ l < Height(path, j) =>
                 Level(path, i, j + 1, l) = Level(path, i, j, l)
           /\ path[j] \in Bids /\ l = Height(path, j) =>
                 Level(path, i, j + 1, l) = Level(path, i, j, l) + 1
           /\ l >= Height(path, j - 1) =>
                 Level(path, i, j, l) = 1 + Cardinality(Pending(path, i, j))
<1> DEFINE A == {b \in Pending(path, i, j) : Height(path, b) <= l}
           B == {b \in Pending(path, i, j + 1) : Height(path, b) <= l}
<1>0. i \in Int /\ j \in Int /\ j \in 1..Len(path)
  OBVIOUS
<1>1. IsFiniteSet(Pending(path, i, j))
  BY <1>0, PendingFinite
<1>2. IsFiniteSet(A) /\ Cardinality(A) \in Nat
  <2>1. A \subseteq Pending(path, i, j)
    OBVIOUS
  <2>2. IsFiniteSet(A)
    BY <1>1, <2>1, FS_Subset
  <2> QED BY <2>2, FS_CardinalityType
<1>3. Level(path, i, j, l) = 1 + Cardinality(A)
      /\ Level(path, i, j + 1, l) = 1 + Cardinality(B)
  BY DEF Level
<1>4. \A b \in Pending(path, i, j) :
         Height(path, b) \in Int /\ Height(path, b) <= Height(path, j - 1)
  BY PendingStep
<1>5. \A b : b \in Pending(path, i, j + 1) <=>
         \/ b \in Pending(path, i, j) /\ Height(path, b) <= Height(path, j)
         \/ b = j /\ path[j] \in Bids
  BY PendingStep
<1>6. j \notin A
  BY PendingStep
<1>h. /\ Height(path, j) \in Int /\ Height(path, j - 1) \in Int
      /\ path[j] = kCallId => Height(path, j) = Height(path, j - 1) + 1
      /\ path[j] = kReturnId => Height(path, j) = Height(path, j - 1) - 1
      /\ path[j] \in Bids => Height(path, j) = Height(path, j - 1)
  BY <1>0, HeightStep
<1>m. kCallId \notin Bids /\ kReturnId \notin Bids
  BY MarkersApart
<1>7. ASSUME path[j] = kCallId PROVE B = A
  BY <1>4, <1>5, <1>7, <1>h, <1>m
<1>8. ASSUME path[j] = kReturnId, l <= Height(path, j) PROVE B = A
  BY <1>4, <1>5, <1>8, <1>h, <1>m
<1>9. ASSUME path[j] \in Bids, l < Height(path, j) PROVE B = A
  BY <1>4, <1>5, <1>9, <1>h
<1>10. ASSUME path[j] \in Bids, l = Height(path, j) PROVE B = A \cup {j}
  BY <1>4, <1>5, <1>10, <1>h
<1>11. ASSUME l >= Height(path, j - 1) PROVE A = Pending(path, i, j)
  BY <1>4, <1>11, <1>h
<1> HIDE DEF A, B
<1>12. Cardinality(A \cup {j}) = Cardinality(A) + 1
  BY <1>2, <1>6, FS_AddElement
<1>13. Level(path, i, j, l) \in Nat
  BY <1>2, <1>3
<1>14. B = A => Level(path, i, j + 1, l) = Level(path, i, j, l)
  BY <1>3
<1>15. ASSUME B = A \cup {j}
       PROVE  Level(path, i, j + 1, l) = Level(path, i, j, l) + 1
  <2>1. Cardinality(B) = Cardinality(A) + 1
    BY <1>12, <1>15
  <2> QED BY <1>2, <1>3, <2>1
<1>16. A = Pending(path, i, j) =>
          Level(path, i, j, l) = 1 + Cardinality(Pending(path, i, j))
  BY <1>3
<1> QED BY <1>7, <1>8, <1>9, <1>10, <1>11, <1>13, <1>14, <1>15, <1>16

\* What MinCflDistance's loop knows after entry j.
LoopInv(path, i, bs, j, at) ==
    /\ at \in MinState
    /\ at.over <=> ~Inside(path, i + 1, j)
    /\ ~at.over =>
          /\ Len(at.stack) = Height(path, j) - Height(path, i)
          /\ at.cur_dist = Level(path, i, j + 1, Height(path, j))
          /\ \A t \in 1..Len(at.stack) :
                at.stack[t] = Level(path, i, j + 1, Height(path, i) + t - 1)
    /\ \A d \in 0..MaxLen :
          at.min_dist <= d <=>
            \E t \in (i + 1)..j : /\ path[t] \in bs /\ Inside(path, i + 1, t)
                                  /\ 1 + Cardinality(Pending(path, i, t)) <= d

\* The part of LoopInv about the least distance, kept by an entry that is no
\* branch, or is out of the function.
LEMMA LeastKept ==
    ASSUME NEW path \in Seq(Ids), NEW i \in 1..Len(path), NEW bs \in SUBSET Bids,
           NEW j \in (i + 1)..Len(path), NEW at, LoopInv(path, i, bs, j - 1, at),
           NEW next, next.min_dist = at.min_dist,
           path[j] \notin bs \/ ~Inside(path, i + 1, j)
    PROVE  \A d \in 0..MaxLen :
              next.min_dist <= d <=>
                \E t \in (i + 1)..j : /\ path[t] \in bs /\ Inside(path, i + 1, t)
                                      /\ 1 + Cardinality(Pending(path, i, t)) <= d
<1>1. i \in Int /\ j \in Int /\ i + 1 <= j
  OBVIOUS
<1>2. \A t : t \in (i + 1)..j <=> t \in (i + 1)..(j - 1) \/ t = j
  BY <1>1
<1> QED BY <1>2 DEF LoopInv

\* Staying inside is staying at or above the height of the start.
LEMMA InsideStep ==
    ASSUME NEW path \in Seq(Ids), NEW i \in 1..Len(path),
           NEW j \in (i + 1)..Len(path)
    PROVE  /\ Inside(path, i + 1, j)
                <=> Inside(path, i + 1, j - 1) /\ Height(path, j) >= Height(path, i)
           /\ Inside(path, i + 1, j - 1) => Height(path, j - 1) >= Height(path, i)
           /\ Height(path, i) \in Int
<1>1. i \in Int /\ j \in Int /\ i + 1 <= j /\ (i + 1) - 1 = i /\ i \in 0..Len(path)
  OBVIOUS
<1>2. \A k : k \in (i + 1)..j <=> k \in (i + 1)..(j - 1) \/ k = j
  BY <1>1
<1>3. j - 1 = i \/ j - 1 \in (i + 1)..(j - 1)
  BY <1>1
<1>4. Height(path, i) \in Int
  BY <1>1, HeightType
<1>5. Inside(path, i + 1, j - 1) => Height(path, j - 1) >= Height(path, i)
  BY <1>1, <1>3, <1>4 DEF Inside
<1>6. Inside(path, i + 1, j)
        <=> Inside(path, i + 1, j - 1) /\ Height(path, j) >= Height(path, i)
  BY <1>1, <1>2 DEF Inside
<1> QED BY <1>4, <1>5, <1>6

LEMMA LoopInvStep ==
    ASSUME NEW path \in Seq(Ids), NEW i \in 1..Len(path), NEW bs \in SUBSET Bids,
           NEW j \in (i + 1)..Len(path), NEW at, LoopInv(path, i, bs, j - 1, at)
    PROVE  LoopInv(path, i, bs, j, MinStep(at, path[j], bs))
<1> DEFINE next == MinStep(at, path[j], bs)
           h == Height(path, i)
           hp == Height(path, j - 1)
           hj == Height(path, j)
           L(l) == Level(path, i, j, l)
           M(l) == Level(path, i, j + 1, l)
           c == 1 + Cardinality(Pending(path, i, j))
           In == Inside(path, i + 1, j)
<1> SUFFICES LoopInv(path, i, bs, j, next)
  OBVIOUS
<1>0. j \in Int /\ (j - 1) + 1 = j /\ j \in 1..Len(path) /\ i \in Int
  OBVIOUS
<1>1. /\ at \in MinState
      /\ at.over <=> ~Inside(path, i + 1, j - 1)
      /\ ~at.over =>
            /\ Len(at.stack) = hp - h /\ at.cur_dist = L(hp)
            /\ \A t \in 1..Len(at.stack) : at.stack[t] = L(h + t - 1)
  BY <1>0 DEF LoopInv
<1>2. /\ In <=> Inside(path, i + 1, j - 1) /\ hj >= h
      /\ Inside(path, i + 1, j - 1) => hp >= h
      /\ h \in Int
  BY InsideStep
<1>3. /\ hj \in Int /\ hp \in Int
      /\ path[j] = kCallId => hj = hp + 1
      /\ path[j] = kReturnId => hj = hp - 1
      /\ path[j] \in Bids => hj = hp
      /\ path[j] \in Bids \/ path[j] = kCallId \/ path[j] = kReturnId
  BY <1>0, HeightStep
<1>4. \A l \in Int :
         /\ L(l) \in Nat
         /\ path[j] = kCallId => M(l) = L(l)
         /\ path[j] = kReturnId /\ l <= hj => M(l) = L(l)
         /\ path[j] \in Bids /\ l < hj => M(l) = L(l)
         /\ path[j] \in Bids /\ l = hj => M(l) = L(l) + 1
         /\ l >= hp => L(l) = c
  BY LevelStep
<1>5. path[j] \in Bids => path[j] # kCallId /\ path[j] # kReturnId
  BY MarkersApart
<1>6. at.stack \in Seq(Nat) /\ Len(at.stack) \in Nat /\ at.cur_dist \in Nat
  BY <1>1 DEF MinState
<1> DEFINE StackKept ==
             /\ Len(next.stack) = hj - h /\ next.cur_dist = M(hj)
             /\ \A t \in 1..Len(next.stack) : next.stack[t] = M(h + t - 1)
           Met(d) == \E t \in (i + 1)..j :
                            /\ path[t] \in bs /\ Inside(path, i + 1, t)
                            /\ 1 + Cardinality(Pending(path, i, t)) <= d
           Kept == \A d \in 0..MaxLen : next.min_dist <= d <=> Met(d)
<1>l. ASSUME next.min_dist = at.min_dist, path[j] \notin bs \/ ~In PROVE Kept
  <2> HIDE DEF next
  <2> QED BY <1>l, LeastKept
<1>o. next \in MinState /\ next.over /\ ~In /\ Kept
        => LoopInv(path, i, bs, j, next)
  BY DEF LoopInv
<1>i. next \in MinState /\ ~next.over /\ In /\ StackKept /\ Kept
        => LoopInv(path, i, bs, j, next)
  BY DEF LoopInv
<1> HIDE DEF h, hp, hj, L, M, c, In, Kept, Met
<1>7. CASE at.over
  <2>1. next = at
    BY <1>1, <1>7, MinStepOver
  <2>2. ~In
    BY <1>1, <1>2, <1>7
  <2> HIDE DEF next
  <2>3. next \in MinState /\ next.over /\ next.min_dist = at.min_dist
    BY <1>1, <1>7, <2>1, <2>2
  <2>4. Kept
    BY <1>l, <2>2, <2>3
  <2> QED BY <1>o, <2>2, <2>3, <2>4
<1>8. CASE ~at.over /\ path[j] = kCallId
  <2>1. /\ next \in MinState /\ next.stack = Append(at.stack, at.cur_dist)
        /\ next.cur_dist = at.cur_dist /\ next.min_dist = at.min_dist
        /\ ~next.over
    BY <1>1, <1>8, MinStepCall
  <2>2. path[j] \notin bs
    BY <1>8, MarkersApart
  <2> HIDE DEF next
  <2>3. In /\ hj = hp + 1 /\ hp >= h
    BY <1>1, <1>2, <1>3, <1>8
  <2>4. next.cur_dist = M(hj)
    <3>1. L(hp) = c
      BY <1>3, <1>4
    <3>2. L(hj) = c
      <4>1. hj >= hp
        BY <1>3, <2>3
      <4> QED BY <1>3, <1>4, <4>1
    <3>3. M(hj) = L(hj)
      BY <1>3, <1>4, <1>8
    <3> QED BY <1>1, <1>8, <2>1, <3>1, <3>2, <3>3
  <2>5. Len(next.stack) = hj - h
    <3>1. Len(at.stack) = hp - h /\ Len(next.stack) = Len(at.stack) + 1
      BY <1>1, <1>6, <1>8, <2>1
    <3> QED BY <1>2, <1>3, <2>3, <3>1
  <2>6. ASSUME NEW t \in 1..Len(next.stack) PROVE next.stack[t] = M(h + t - 1)
    <3>1. t \in Nat /\ h + t - 1 \in Int /\ M(h + t - 1) = L(h + t - 1)
      BY <1>2, <1>4, <1>8
    <3>2. CASE t \in 1..Len(at.stack)
      BY <1>1, <1>6, <1>8, <2>1, <3>1, <3>2
    <3>3. CASE t = Len(at.stack) + 1
      <4>1. next.stack[t] = L(hp)
        BY <1>1, <1>6, <1>8, <2>1, <3>3
      <4>2. h + t - 1 = hp
        BY <1>1, <1>2, <1>3, <1>8, <3>3
      <4> QED BY <3>1, <4>1, <4>2
    <3>4. t \in 1..Len(at.stack) \/ t = Len(at.stack) + 1
      BY <1>6, <2>1
    <3> QED BY <3>2, <3>3, <3>4
  <2>7. Kept
    BY <1>l, <2>1, <2>2
  <2>8. StackKept
    BY <2>4, <2>5, <2>6
  <2> HIDE DEF StackKept
  <2> QED BY <1>i, <2>1, <2>3, <2>7, <2>8
<1>9. CASE ~at.over /\ path[j] = kReturnId
  <2>1. /\ next \in MinState /\ next.min_dist = at.min_dist
        /\ at.stack = <<>> => next.over
        /\ at.stack # <<>> =>
              /\ next.stack = Front(at.stack) /\ next.cur_dist = Last(at.stack)
              /\ ~next.over
    BY <1>1, <1>9, MinStepReturn
  <2>2. path[j] \notin bs
    BY <1>9, MarkersApart
  <2> HIDE DEF next
  <2>3. hj = hp - 1 /\ hp >= h /\ (In <=> hj >= h) /\ Len(at.stack) = hp - h
    BY <1>1, <1>2, <1>3, <1>9
  <2>4. CASE at.stack = <<>>
    <3>1. Len(at.stack) = 0
      BY <2>4
    <3>2. ~In
      BY <1>2, <1>3, <2>3, <3>1
    <3>3. Kept
      BY <1>l, <2>1, <2>2
    <3> QED BY <1>o, <2>1, <2>4, <3>2, <3>3
  <2>5. CASE at.stack # <<>>
    <3>1. /\ Last(at.stack) = at.stack[Len(at.stack)] /\ Len(at.stack) >= 1
          /\ Len(Front(at.stack)) = Len(at.stack) - 1
          /\ \A k \in 1..(Len(at.stack) - 1) : Front(at.stack)[k] = at.stack[k]
      BY <1>6, <2>5, FrontLast
    <3>2. In
      BY <1>2, <1>3, <2>3, <3>1
    <3>3. Len(next.stack) = hj - h
      BY <1>2, <1>3, <2>1, <2>3, <2>5, <3>1
    <3>4. next.cur_dist = M(hj)
      <4>1. Len(at.stack) \in 1..Len(at.stack) /\ h + Len(at.stack) - 1 = hj
        <5>1. Len(at.stack) \in Int /\ Len(at.stack) >= 1
          BY <1>6, <3>1
        <5>2. Len(at.stack) = hp - h /\ hj = hp - 1
          BY <2>3
        <5>3. h \in Int /\ hp \in Int
          BY <1>2, <1>3
        <5> QED BY <5>1, <5>2, <5>3
      <4>2. next.cur_dist = L(hj)
        BY <1>1, <1>9, <2>1, <2>5, <3>1, <4>1
      <4>3. M(hj) = L(hj)
        BY <1>3, <1>4, <1>9
      <4> QED BY <4>2, <4>3
    <3>5. ASSUME NEW t \in 1..Len(next.stack)
          PROVE  next.stack[t] = M(h + t - 1)
      <4>1. t \in 1..(Len(at.stack) - 1) /\ t \in 1..Len(at.stack)
        BY <1>6, <2>1, <2>5, <3>1
      <4>2. next.stack[t] = L(h + t - 1)
        BY <1>1, <1>9, <2>1, <2>5, <3>1, <4>1
      <4>3. h + t - 1 \in Int /\ h + t - 1 <= hj
        <5>1. t \in Int /\ t <= Len(at.stack) - 1
          BY <1>6, <4>1
        <5> DEFINE m == Len(at.stack)
        <5>2. t \in Int /\ t <= m - 1 /\ m = hp - h /\ hj = hp - 1
          BY <2>3, <5>1
        <5>3. h \in Int /\ hp \in Int
          BY <1>2, <1>3
        <5> HIDE DEF m
        <5> QED BY <5>2, <5>3
      <4> QED BY <1>4, <1>9, <4>2, <4>3
    <3>6. Kept
      BY <1>l, <2>1, <2>2
    <3>7. StackKept
      BY <3>3, <3>4, <3>5
    <3> HIDE DEF StackKept
    <3> QED BY <1>i, <2>1, <2>5, <3>2, <3>6, <3>7
  <2> QED BY <2>4, <2>5
<1>10. CASE ~at.over /\ path[j] \in Bids
  <2>1. /\ next \in MinState /\ next.stack = at.stack
        /\ next.cur_dist = at.cur_dist + 1 /\ ~next.over
        /\ \A d \in Nat :
              next.min_dist <= d
                <=> at.min_dist <= d \/ (path[j] \in bs /\ at.cur_dist <= d)
    BY <1>1, <1>10, MinStepBranch
  <2> HIDE DEF next
  <2>2. hj = hp /\ hp >= h /\ In /\ Len(at.stack) = hp - h
    BY <1>1, <1>2, <1>3, <1>10
  <2>3. at.cur_dist = c /\ next.cur_dist = M(hj)
    <3>1. L(hp) = c /\ at.cur_dist = L(hp)
      BY <1>1, <1>3, <1>4, <1>10
    <3>2. M(hj) = L(hj) + 1
      BY <1>3, <1>4, <1>10
    <3> QED BY <2>1, <2>2, <3>1, <3>2
  <2>4. ASSUME NEW t \in 1..Len(next.stack) PROVE next.stack[t] = M(h + t - 1)
    <3>1. h + t - 1 \in Int /\ h + t - 1 < hj /\ t \in 1..Len(at.stack)
      BY <1>2, <1>3, <1>6, <2>1, <2>2
    <3> QED BY <1>1, <1>4, <1>10, <2>1, <3>1
  <2>5. ASSUME NEW d \in 0..MaxLen
        PROVE  next.min_dist <= d <=> Met(d)
    <3>1. at.min_dist <= d <=>
            \E t \in (i + 1)..(j - 1) :
               /\ path[t] \in bs /\ Inside(path, i + 1, t)
               /\ 1 + Cardinality(Pending(path, i, t)) <= d
      BY DEF LoopInv
    <3>2. \A t : t \in (i + 1)..j <=> t \in (i + 1)..(j - 1) \/ t = j
      BY <1>0
    <3>3. next.min_dist <= d
            <=> at.min_dist <= d \/ (path[j] \in bs /\ c <= d)
      BY <2>1, <2>3
    <3> QED BY <2>2, <3>1, <3>2, <3>3 DEF c, In, Met
  <2>6. Kept
    BY <2>5 DEF Kept
  <2>7. StackKept
    BY <2>1, <2>2, <2>3, <2>4
  <2> HIDE DEF StackKept
  <2> QED BY <1>i, <2>1, <2>2, <2>6, <2>7
<1> QED BY <1>1, <1>3, <1>7, <1>8, <1>9, <1>10 DEF MinState

LEMMA LoopInvBase ==
    ASSUME NEW path \in Seq(Ids), NEW i \in 1..Len(path), NEW bs \in SUBSET Bids
    PROVE  LoopInv(path, i, bs, i, [cur_dist |-> 1, stack |-> <<>>,
                                    min_dist |-> Infinity, over |-> FALSE])
<1> DEFINE at == [cur_dist |-> 1, stack |-> <<>>, min_dist |-> Infinity,
                  over |-> FALSE]
<1>0. i \in Int /\ (i + 1) - 1 = i /\ (i + 1)..i = {} /\ i \in 0..Len(path)
  OBVIOUS
<1>1. MaxLen \in Nat /\ Infinity \in Nat /\ Infinity = MaxLen + 1
  BY PathAssumption DEF Infinity
<1>2. at \in MinState
  BY <1>1 DEF MinState
<1>3. ~at.over /\ Inside(path, i + 1, i)
  BY <1>0 DEF Inside
<1>4. Len(at.stack) = Height(path, i) - Height(path, i) /\ 1..Len(at.stack) = {}
  <2>1. Height(path, i) \in Int
    BY <1>0, HeightType
  <2>2. Len(at.stack) = 0
    OBVIOUS
  <2> QED BY <2>1, <2>2
<1>5. at.cur_dist = Level(path, i, i + 1, Height(path, i))
  <2>1. {b \in Pending(path, i, i + 1) : Height(path, b) <= Height(path, i)} = {}
    BY <1>0 DEF Pending
  <2> QED BY <2>1, FS_EmptySet DEF Level
<1>6. \A d \in 0..MaxLen : ~(at.min_dist <= d)
  BY <1>1
<1> HIDE DEF at
<1>7. LoopInv(path, i, bs, i, at)
  BY <1>0, <1>2, <1>3, <1>4, <1>5, <1>6 DEF LoopInv
<1> QED BY <1>7 DEF at

\* What MinCflDistance returns: the least distance to a branch of bs, as far
\* as MaxLen tells distances apart.
LEMMA MinWithin ==
    ASSUME NEW path \in Seq(Ids), NEW i \in 1..Len(path), NEW bs \in SUBSET Bids,
           NEW dist \in 0..MaxLen
    PROVE  MinCflDistance(path, i, bs) <= dist
             <=> \E t \in i..Len(path) :
                   /\ path[t] \in bs /\ Reaches(path, i, t)
                   /\ Dist(path, i, t) <= dist
<1> DEFINE n == Len(path)
<1>0. n \in Int /\ i \in Int /\ i <= n /\ dist \in Nat
  OBVIOUS
<1>1. PICK f : /\ MinLoop(path, i, bs, f)
               /\ MinCflDistance(path, i, bs)
                    = IF path[i] \in bs THEN 0 ELSE f[Len(path)].min_dist
  BY MinUnfolds
<1> DEFINE S == {m \in Nat : i + m <= n => LoopInv(path, i, bs, i + m, f[i + m])}
<1>2. 0 \in S
  <2>1. LoopInv(path, i, bs, i, f[i])
    BY <1>1, LoopInvBase DEF MinLoop
  <2>2. i + 0 = i
    BY <1>0
  <2> QED BY <2>1, <2>2
<1>3. ASSUME NEW m \in Nat, m \in S PROVE m + 1 \in S
  <2> DEFINE j == i + (m + 1)
  <2> SUFFICES ASSUME j <= n PROVE LoopInv(path, i, bs, j, f[j])
    OBVIOUS
  <2>1. j \in (i + 1)..Len(path) /\ i + m <= n /\ j - 1 = i + m
    BY <1>0
  <2>2. LoopInv(path, i, bs, j - 1, f[j - 1])
    BY <1>3, <2>1
  <2>3. f[j] = MinStep(f[j - 1], path[j], bs)
    BY <1>1, <2>1 DEF MinLoop
  <2> HIDE DEF j
  <2> QED BY <2>1, <2>2, <2>3, LoopInvStep
<1> HIDE DEF S
<1>4. \A m \in Nat : m \in S
  BY <1>2, <1>3, NatSet
<1>5. LoopInv(path, i, bs, n, f[n])
  <2>1. n - i \in Nat /\ i + (n - i) = n
    BY <1>0
  <2>2. n - i \in S
    BY <1>4, <2>1
  <2> QED BY <1>0, <2>1, <2>2 DEF S
<1>6. f[n].min_dist <= dist <=>
        \E t \in (i + 1)..n : /\ path[t] \in bs /\ Inside(path, i + 1, t)
                              /\ 1 + Cardinality(Pending(path, i, t)) <= dist
  BY <1>5 DEF LoopInv
<1>7. /\ Reaches(path, i, i) /\ Dist(path, i, i) = 0
      /\ \A t \in (i + 1)..n :
           /\ Reaches(path, i, t) <=> Inside(path, i + 1, t)
           /\ Dist(path, i, t) = 1 + Cardinality(Pending(path, i, t))
  BY <1>0 DEF Reaches, Dist
<1>8. /\ i \in i..n
      /\ \A t : t \in i..n <=> t = i \/ t \in (i + 1)..n
  BY <1>0
<1>9. CASE path[i] \in bs
  <2>1. MinCflDistance(path, i, bs) <= dist
    BY <1>0, <1>1, <1>9
  <2>2. Dist(path, i, i) <= dist
    BY <1>0, <1>7
  <2> QED BY <1>7, <1>8, <1>9, <2>1, <2>2
<1>10. CASE path[i] \notin bs
  <2>1. MinCflDistance(path, i, bs) = f[n].min_dist
    BY <1>1, <1>10
  <2> QED BY <1>6, <1>7, <1>8, <1>10, <2>1
<1> QED BY <1>9, <1>10

\* The two algorithms agree on every path and every distance MaxLen tells apart.
LEMMA FindIsMin ==
    ASSUME NEW path \in Seq(Ids), NEW bs \in SUBSET Bids,
           NEW i \in BranchPositions(path), NEW dist \in 0..MaxLen
    PROVE  FindAlongCfg(path, i, dist, bs) <=> MinCflDistance(path, i, bs) <= dist
<1>1. i \in 1..Len(path) /\ path[i] \in Bids /\ dist \in Nat
  BY DEF BranchPositions
<1> QED BY <1>1, FindsWithin, MinWithin

-----------------------------------------------------------------------------
(* The recorded path *)

\* Both lists hold only what was pushed: markers never reach branches_.
PathTypes ==
    /\ trace \in Seq(Ids)
    /\ branches_ \in Seq(Bids)

LEMMA PathTypesStep ==
    ASSUME PathTypes, [PathNext]_path_vars
    PROVE  PathTypes'
<1>1. Bids \subseteq Ids /\ kCallId \in Ids /\ kReturnId \in Ids
  BY DEF Ids
<1>2. CASE RecordCall
  BY <1>1, <1>2 DEF RecordCall, Record, PushMarker, PathTypes
<1>3. CASE RecordReturn
  BY <1>1, <1>3 DEF RecordReturn, Record, PushMarker, PathTypes
<1>4. ASSUME NEW bid \in Bids, NEW symbolic \in BOOLEAN, RecordBranch(bid, symbolic)
      PROVE  PathTypes'
  <2>1. trace' = Append(trace, bid) /\ branches_' = Append(branches_, bid)
    BY <1>4 DEF RecordBranch, Record, PushBranch
  <2>2. bid \in Ids
    BY <1>1
  <2> QED BY <2>1, <2>2 DEF PathTypes
<1>5. CASE UNCHANGED path_vars
  BY <1>5 DEF path_vars, PathTypes
<1> QED BY <1>2, <1>3, <1>4, <1>5 DEF PathNext

LEMMA PathTyped == PathSpec => []PathTypes
<1>1. PathInit => PathTypes
  BY DEF PathInit, PathTypes
<1> QED BY <1>1, PathTypesStep, PTL DEF PathSpec

\* On every run as it happened, of any length and nesting, CollectNextBranches
\* returns exactly the branches its comment documents: those that can come
\* next when calls are skipped whole (concolic_search.cc:1518-1522).
THEOREM CollectsDocumented == PathSpec => []CollectedAsDocumented
<1>1. PathTypes => CollectedAsDocumented
  <2> SUFFICES ASSUME PathTypes, NEW i \in BranchPositions(trace)
               PROVE  NextBranches(trace, i) = Followers(trace, i)
    BY DEF CollectedAsDocumented
  <2> QED BY NextAreFollowers DEF PathTypes
<1> QED BY <1>1, PathTyped, PTL

\* DoSearch's two assertions on distances (concolic_search.cc:1358 and 1370)
\* hold on every path, with markers and without: FindAlongCfg succeeds within
\* a distance exactly when MinCflDistance is no greater.
THEOREM FindMatchesMin == PathSpec => []FindAgreesWithMin
<1>1. PathTypes => FindAgreesWithMin
  <2> SUFFICES ASSUME PathTypes, NEW path \in {trace, branches_},
                      NEW bs \in (SUBSET Bids) \ {{}},
                      NEW i \in BranchPositions(path), NEW dist \in 0..MaxLen
               PROVE  FindAlongCfg(path, i, dist, bs)
                        <=> MinCflDistance(path, i, bs) <= dist
    BY DEF FindAgreesWithMin
  <2>1. path \in Seq(Ids)
    <3>1. Bids \subseteq Ids
      BY DEF Ids
    <3>2. Seq(Bids) \subseteq Seq(Ids)
      BY <3>1
    <3> QED BY <3>2 DEF PathTypes
  <2> QED BY <2>1, FindIsMin
<1> QED BY <1>1, PathTyped, PTL

-----------------------------------------------------------------------------
(* What the recorded path leaves of it: branches_ holds no markers, and      *)
(* Strategies models the two functions by what they compute there.           *)

\* Without markers no height changes, so no branch's call ever ends.
LEMMA FlatPath ==
    ASSUME NEW path \in Seq(Bids), NEW i \in 1..Len(path),
           NEW t \in i..Len(path)
    PROVE  /\ path \in Seq(Ids) /\ path[t] \in Bids
           /\ Reaches(path, i, t) /\ Dist(path, i, t) = t - i
<1> DEFINE n == Len(path)
<1>0. n \in Nat /\ i \in Int /\ t \in Int /\ 1 <= i /\ i <= t /\ t <= n
  OBVIOUS
<1>1. path \in Seq(Ids)
  <2>1. Bids \subseteq Ids
    BY DEF Ids
  <2> QED BY <2>1
<1>2. \A k \in 1..n : path[k] \in Bids
  OBVIOUS
<1> HIDE DEF n
<1>3. \A k \in 0..n : Height(path, k) = 0
  <2> TAKE k \in 0..n
  <2>1. \A m \in 1..k : path[m] # kCallId /\ path[m] # kReturnId
    <3>1. \A m \in 1..k : m \in 1..n
      BY <1>0
    <3> QED BY <1>2, <3>1, MarkersApart
  <2>2. {m \in 1..k : path[m] = kCallId} = {}
        /\ {m \in 1..k : path[m] = kReturnId} = {}
    BY <2>1
  <2>3. Height(path, k) = Cardinality({}) - Cardinality({})
    BY <2>2 DEF Height, Open
  <2> QED BY <2>3, FS_EmptySet
<1>4. Reaches(path, i, t)
  <2>1. \A k \in (i + 1)..t : Height(path, k) >= Height(path, (i + 1) - 1)
    <3>1. (i + 1) - 1 \in 0..n /\ \A k \in (i + 1)..t : k \in 0..n
      BY <1>0
    <3>2. Height(path, (i + 1) - 1) = 0
          /\ \A k \in (i + 1)..t : Height(path, k) = 0
      BY <1>3, <3>1
    <3> QED BY <3>2
  <2>2. t = i \/ t > i
    BY <1>0
  <2> QED BY <2>1, <2>2 DEF Reaches, Inside
<1>5. CASE t = i
  BY <1>0, <1>1, <1>2, <1>4, <1>5 DEF Dist
<1>6. CASE t # i
  <2>1. Pending(path, i, t) = (i + 1)..(t - 1)
    <3>1. ASSUME NEW b \in (i + 1)..(t - 1)
          PROVE  path[b] \in Bids /\ ~Ended(path, b, t)
      <4>1. b \in 1..n /\ b \in 0..n /\ \A m \in b..(t - 1) : m \in 0..n
        BY <1>0
      <4>2. \A m \in b..(t - 1) : Height(path, m) = 0 /\ Height(path, b) = 0
        BY <1>3, <4>1
      <4> QED BY <1>2, <4>1, <4>2 DEF Ended
    <3> QED BY <3>1 DEF Pending
  <2>2. Cardinality((i + 1)..(t - 1)) = t - i - 1
    <3>1. i + 1 \in Int /\ t - 1 \in Int /\ i + 1 <= t
      BY <1>0, <1>6
    <3> DEFINE a == i + 1
               b == t - 1
    <3>2. Cardinality(a..b) = IF a > b THEN 0 ELSE b - a + 1
      <4> HIDE DEF a, b
      <4>1. a \in Int /\ b \in Int
        BY <3>1 DEF a, b
      <4> QED BY <4>1, FS_Interval
    <3> QED BY <1>0, <3>1, <3>2
  <2>3. Dist(path, i, t) = 1 + (t - i - 1)
    BY <1>6, <2>1, <2>2 DEF Dist
  <2> QED BY <1>0, <1>1, <1>2, <1>4, <2>3
<1> QED BY <1>5, <1>6

\* On the path the search is given, FindAlongCfg within a distance finds any
\* branch that many events on, of whatever function: Strategies' FoundWithin.
THEOREM FindOnRecordedPath ==
    ASSUME NEW path \in Seq(Bids), NEW i \in 1..Len(path),
           NEW dist \in Nat, NEW bs \in SUBSET Bids
    PROVE  FindAlongCfg(path, i, dist, bs)
             <=> \E k \in i..Min({i + dist, Len(path)}) : path[k] \in bs
<1> DEFINE n == Len(path)
           e == i + dist
           m == Min({e, n})
<1>0. n \in Nat /\ i \in Nat /\ i <= n /\ e \in Nat /\ e = i + dist
  OBVIOUS
<1> HIDE DEF n, e
<1>1. m \in Nat /\ \A d \in Nat : m <= d <=> e <= d \/ n <= d
  BY <1>0, MinOfTwo
<1> HIDE DEF m
<1>i. /\ m <= n <=> e <= n \/ n <= n
      /\ m <= e <=> e <= e \/ n <= e
      /\ m <= m <=> e <= m \/ n <= m
  BY <1>0, <1>1
<1>2. m <= n /\ m <= i + dist
  BY <1>0, <1>1, <1>i
<1>3. m = n \/ m = i + dist
  <2>1. m \in Nat /\ n \in Nat /\ e \in Nat /\ e = i + dist
    BY <1>0, <1>1
  <2> QED BY <1>i, <2>1
<1>4. \A k : k \in i..m <=> k \in i..n /\ k - i <= dist
  BY <1>0, <1>1, <1>2, <1>3
<1>5. i \in BranchPositions(path) /\ path \in Seq(Ids)
  <2>1. i \in i..Len(path)
    BY <1>0 DEF n
  <2> QED BY <2>1, FlatPath DEF BranchPositions, n
<1>6. FindAlongCfg(path, i, dist, bs)
        <=> \E t \in i..n : /\ path[t] \in bs /\ Reaches(path, i, t)
                            /\ Dist(path, i, t) <= dist
  BY <1>5, FindsWithin DEF n
<1>7. \A t \in i..n : Reaches(path, i, t) /\ Dist(path, i, t) = t - i
  BY FlatPath DEF n
<1> QED BY <1>4, <1>6, <1>7 DEF m, e, n

\* On the path the search is given, the one branch that follows is the next
\* on the path: what Strategies' SolveAlongCfg walks along.
THEOREM NextOnRecordedPath ==
    ASSUME NEW path \in Seq(Bids), NEW i \in 1..Len(path)
    PROVE  NextBranches(path, i) = {i + 1} \cap DOMAIN path
<1> DEFINE n == Len(path)
<1>0. n \in Nat /\ i \in Int /\ 1 <= i /\ i <= n /\ DOMAIN path = 1..n
  OBVIOUS
<1>1. \A k \in 1..n : path[k] \in Bids
  OBVIOUS
<1>2. i \in BranchPositions(path) /\ path \in Seq(Ids)
  <2>1. i \in i..Len(path)
    BY <1>0
  <2> QED BY <2>1, FlatPath DEF BranchPositions
<1>3. NextBranches(path, i) = Followers(path, i)
  BY <1>2, NextAreFollowers
<1>h. ASSUME NEW j \in 1..n, j > i, NEW k \in (i + 1)..j
      PROVE  Open(path, i + 1, k) = 0
  <2>1. \A m \in (i + 1)..k : path[m] # kCallId /\ path[m] # kReturnId
    <3>1. \A m \in (i + 1)..k : m \in 1..n
      BY <1>0
    <3> QED BY <1>1, <3>1, MarkersApart
  <2>2. {m \in (i + 1)..k : path[m] = kCallId} = {}
        /\ {m \in (i + 1)..k : path[m] = kReturnId} = {}
    BY <2>1
  <2>3. Open(path, i + 1, k) = Cardinality({}) - Cardinality({})
    BY <2>2 DEF Open
  <2> QED BY <2>3, FS_EmptySet
<1>4. ASSUME i + 1 \in 1..n PROVE i + 1 \in Followers(path, i)
  <2>1. (i + 1)..((i + 1) - 1) = {} /\ i + 1 > i
    BY <1>0
  <2>2. \A k \in (i + 1)..(i + 1) : Open(path, i + 1, k) >= 0
    BY <1>4, <1>h, <2>1
  <2>3. Follows(path, i, i + 1)
    BY <2>1, <2>2 DEF Follows
  <2> QED BY <1>0, <1>1, <1>4, <2>1, <2>3 DEF Followers, BranchPositions
<1>5. ASSUME NEW j \in Followers(path, i) PROVE j = i + 1 /\ j \in 1..n
  <2>1. j \in 1..n /\ j > i /\ Follows(path, i, j)
    BY <1>0 DEF Followers, BranchPositions
  <2> SUFFICES ASSUME j # i + 1 PROVE FALSE
    BY <2>1
  <2>2. /\ i + 1 \in (i + 1)..(j - 1) /\ i + 1 \in 1..n
        /\ (i + 1)..((i + 1) - 1) = {}
    BY <1>0, <2>1
  <2>3. i + 1 \in BranchPositions(path) \cap ((i + 1)..(j - 1))
    BY <1>0, <1>1, <2>2 DEF BranchPositions
  <2>4. \E lo \in (i + 1)..((i + 1) - 1), hi \in ((i + 1) + 1)..(j - 1) :
           IsCompleteCall(path, lo, hi)
    BY <2>1, <2>3 DEF Follows
  <2> QED BY <2>2, <2>4
<1> QED BY <1>0, <1>3, <1>4, <1>5

=============================================================================
