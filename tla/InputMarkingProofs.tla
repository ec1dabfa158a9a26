------------------------- MODULE InputMarkingProofs -------------------------
(***************************************************************************)
(* What the focus reports about itself, and the agreement of the values    *)
(* that a job's processes read, for every program, every number of         *)
(* processes and every input file.                                         *)
(***************************************************************************)
EXTENDS InputMarking, FiniteSetTheorems, WellFoundedInduction, TLAPS

Marked == {"int", "rank", "size", "local"}

TypeOK ==
    /\ program \in Programs
    /\ inputs \in [Ranks -> Seq(Int)] /\ num_inputs_ \in [Ranks -> Nat]
    /\ \A p \in Ranks : num_inputs_[p] <= Len(program[p])
                        /\ num_inputs_[p] <= Len(inputs[p])
    /\ bcasts \in Seq(Int) /\ received \in [Ranks -> Nat]
    /\ inComm \subseteq Ranks
    /\ rank_indices_ \in Seq(Nat)
    /\ rank_non_default_comm_indices_ \in Seq(Nat)
    /\ rank_non_default_comm_map_ \in Seq({Members(c) : c \in Comms})

-----------------------------------------------------------------------------
(* Local ranks.                                                            *)

LEMMA CommsFinite ==
    ASSUME NEW c \in Comms, NEW p \in c
    PROVE  /\ IsFiniteSet(c) /\ c \subseteq Int /\ Cardinality(c) \in Nat
           /\ IsFiniteSet({q \in c : q < p}) /\ LocalRank(c, p) \in Nat
<1>1. c \subseteq Ranks /\ Ranks \subseteq Int
  BY MarkingAssumption DEF Ranks
<1>2. IsFiniteSet(Ranks)
  <2>1. NumProcs - 1 \in Int
    BY MarkingAssumption
  <2> QED BY <2>1, FS_Interval DEF Ranks
<1>3. IsFiniteSet(c)
  BY <1>1, <1>2, FS_Subset
<1>4. IsFiniteSet({q \in c : q < p})
  BY <1>3, FS_Subset
<1> QED
  BY <1>1, <1>3, <1>4, FS_CardinalityType DEF LocalRank

\* A local rank is below the size of its communicator.
LEMMA LocalRankBelow ==
    ASSUME NEW c \in Comms, NEW p \in c
    PROVE  LocalRank(c, p) < Cardinality(c)
<1> DEFINE S == {q \in c : q < p}
<1>1. IsFiniteSet(c) /\ c \subseteq Int /\ IsFiniteSet(S)
      /\ Cardinality(c) \in Nat /\ Cardinality(S) \in Nat
  BY CommsFinite DEF LocalRank
<1>2. S \subseteq c /\ S # c
  BY <1>1
<1>3. Cardinality(S) <= Cardinality(c) /\ Cardinality(S) # Cardinality(c)
  <2> HIDE DEF S
  <2> QED BY <1>1, <1>2, FS_Subset
<1> QED
  BY <1>1, <1>3 DEF LocalRank

\* Two members of a communicator have two local ranks.
LEMMA LocalRankLess ==
    ASSUME NEW c \in Comms, NEW p \in c, NEW r \in c, p < r
    PROVE  LocalRank(c, p) < LocalRank(c, r)
<1> DEFINE S == {q \in c : q < p}
           T == {q \in c : q < r}
<1>1. c \subseteq Int /\ IsFiniteSet(S) /\ IsFiniteSet(T)
      /\ Cardinality(S) \in Nat /\ Cardinality(T) \in Nat
  BY CommsFinite DEF LocalRank
<1>2. S \subseteq T /\ p \in T /\ p \notin S
  <2>1. p \in Int /\ r \in Int /\ \A q \in c : q \in Int
    BY <1>1
  <2>2. \A q \in c : q < p => q < r
    BY <2>1
  <2>3. ~(p < p)
    BY <2>1
  <2> QED BY <2>2, <2>3
<1>3. Cardinality(S) <= Cardinality(T) /\ Cardinality(S) # Cardinality(T)
  <2> HIDE DEF S, T
  <2> QED BY <1>1, <1>2, FS_Subset
<1> QED
  BY <1>1, <1>3 DEF LocalRank

MemberAt(c, l) == CHOOSE r \in c : LocalRank(c, r) = l

LEMMA MemberAtFacts ==
    ASSUME NEW c, NEW l, \E r \in c : LocalRank(c, r) = l
    PROVE  MemberAt(c, l) \in c /\ LocalRank(c, MemberAt(c, l)) = l
  BY Zenon DEF MemberAt

\* The map that MPI_Gather leaves leads from a local rank back to its process.
LEMMA MembersFacts ==
    ASSUME NEW c \in Comms, NEW p \in c
    PROVE  /\ LocalRank(c, p) + 1 \in DOMAIN Members(c)
           /\ Members(c)[LocalRank(c, p) + 1] = p
<1> DEFINE l == LocalRank(c, p)
           n == Cardinality(c)
<1>1. l \in Nat /\ n \in Nat /\ l < n /\ c \subseteq Int
  BY CommsFinite, LocalRankBelow
<1>2. \A r \in c : LocalRank(c, r) = l => r = p
  <2> SUFFICES ASSUME NEW r \in c, LocalRank(c, r) = l, r # p
               PROVE  FALSE
    OBVIOUS
  <2>1. r < p \/ p < r
    BY <1>1
  <2> QED BY <1>1, <2>1, LocalRankLess
<1>3. Members(c) = [i \in 1..n |-> MemberAt(c, i - 1)]
  BY DEF Members, MemberAt
<1> HIDE DEF n
<1>4. l + 1 \in 1..n /\ l + 1 - 1 = l
  BY <1>1
<1>5. MemberAt(c, l) = p
  BY <1>2, MemberAtFacts
<1> HIDE DEF l
<1>6. Members(c)[l + 1] = p /\ l + 1 \in DOMAIN Members(c)
  BY <1>1, <1>3, <1>4, <1>5
<1> QED BY <1>6 DEF l

-----------------------------------------------------------------------------
(* What every mark does.                                                   *)

\* Process p gets v as its next input and keeps the others.
Put(p, v) ==
    /\ inputs' \in [Ranks -> Seq(Int)]
    /\ \A q \in Ranks : q # p => inputs'[q] = inputs[q]
    /\ Len(inputs'[p]) = IF HasInput(p) THEN Len(inputs[p]) ELSE num_inputs_[p] + 1
    /\ inputs'[p][num_inputs_[p] + 1] = v
    /\ \A k \in 1..Len(inputs[p]) :
          k # num_inputs_[p] + 1 => inputs'[p][k] = inputs[p][k]

LEMMA SetPuts ==
    ASSUME TypeOK, NEW p \in Ranks, NEW v \in Int, SetInput(p, v)
    PROVE  Put(p, v)
<1> DEFINE n == num_inputs_[p]
           s == inputs[p]
           x == IF n < Len(s) THEN [s EXCEPT ![n + 1] = v] ELSE Append(s, v)
<1>1. s \in Seq(Int) /\ n \in Nat /\ n <= Len(s) /\ Len(s) \in Nat
  BY DEF TypeOK
<1>2. inputs' = [inputs EXCEPT ![p] = x]
  BY DEF SetInput, HasInput
<1> HIDE DEF n, s
<1>3. /\ x \in Seq(Int) /\ Len(x) = (IF n < Len(s) THEN Len(s) ELSE n + 1)
      /\ x[n + 1] = v /\ \A k \in 1..Len(s) : k # n + 1 => x[k] = s[k]
  <2>1. CASE n < Len(s)
    <3>1. x = [s EXCEPT ![n + 1] = v] /\ n + 1 \in 1..Len(s)
      BY <1>1, <2>1
    <3> QED BY <1>1, <2>1, <3>1
  <2>2. CASE ~(n < Len(s))
    <3>1. x = Append(s, v) /\ n = Len(s)
      BY <1>1, <2>2
    <3> QED BY <1>1, <2>2, <3>1
  <2> QED BY <2>1, <2>2
<1> HIDE DEF x
<1>4. inputs'[p] = x /\ inputs' \in [Ranks -> Seq(Int)]
      /\ \A q \in Ranks : q # p => inputs'[q] = inputs[q]
  BY <1>2, <1>3 DEF TypeOK
<1> QED
  BY <1>3, <1>4 DEF Put, HasInput, n, s

LEMMA KeepPuts ==
    ASSUME TypeOK, NEW p \in Ranks, NEW w, HasInput(p) \/ w \in Int,
           KeepInput(p, w)
    PROVE  Put(p, IF HasInput(p) THEN inputs[p][num_inputs_[p] + 1] ELSE w)
<1>1. CASE HasInput(p)
  BY <1>1 DEF KeepInput, Put, TypeOK
<1>2. CASE ~HasInput(p)
  <2>1. SetInput(p, w)
    BY <1>2 DEF KeepInput
  <2>2. Put(p, w)
    BY <1>2, <2>1, SetPuts
  <2> QED BY <1>2, <2>2
<1> QED BY <1>1, <1>2

\* A process that has reached a mark has not come to the end.
LEMMA AtMarkFacts ==
    ASSUME TypeOK, NEW p \in Ranks, NEW kind, AtMark(p, kind)
    PROVE  /\ p \notin inComm /\ num_inputs_[p] < Len(program[p])
           /\ num_inputs_[p] \in Nat /\ num_inputs_[p] + 1 \in DOMAIN program[p]
           /\ program[p][num_inputs_[p] + 1].kind = kind
           /\ Current(p).limit \in Nat
<1>1. program \in Programs /\ num_inputs_[p] \in Nat
      /\ num_inputs_[p] <= Len(program[p])
  BY DEF TypeOK
<1>2. program[p] \in Seq(Range(program[p]))
      /\ \A m \in Range(program[p]) : m.limit \in Nat
  BY <1>1, MarkingAssumption
<1>3. Len(program[p]) \in Nat /\ DOMAIN program[p] = 1..Len(program[p])
  BY <1>2
<1>4. p \notin inComm /\ num_inputs_[p] # Len(program[p]) /\ Current(p).kind = kind
  BY DEF AtMark, Finished
<1>5. num_inputs_[p] < Len(program[p]) /\ num_inputs_[p] + 1 \in DOMAIN program[p]
  BY <1>1, <1>3, <1>4
<1>6. Current(p) = program[p][num_inputs_[p] + 1]
  BY DEF Current
<1>7. Current(p).limit \in Nat
  BY <1>2, <1>5, <1>6 DEF Range
<1> QED
  BY <1>1, <1>4, <1>5, <1>6, <1>7

\* A step of process p at a mark of this kind, with the value it leaves.
Marking(p, kind, v) ==
    /\ AtMark(p, kind) /\ kind \in Marked /\ Put(p, v)
    /\ num_inputs_' = [num_inputs_ EXCEPT ![p] = @ + 1]
    /\ program' = program


LEMMA MarkingFacts ==
    ASSUME TypeOK, NEW p \in Ranks, NEW kind, NEW v, Marking(p, kind, v)
    PROVE  /\ program' \in Programs /\ inputs' \in [Ranks -> Seq(Int)]
           /\ num_inputs_' \in [Ranks -> Nat]
           /\ \A q \in Ranks : num_inputs_'[q] <= Len(program'[q])
                               /\ num_inputs_'[q] <= Len(inputs'[q])
<1>1. /\ num_inputs_[p] < Len(program[p]) /\ num_inputs_[p] \in Nat
  BY AtMarkFacts DEF Marking
<1>2. /\ num_inputs_'[p] = num_inputs_[p] + 1 /\ num_inputs_' \in [Ranks -> Nat]
      /\ \A q \in Ranks : q # p => num_inputs_'[q] = num_inputs_[q]
  BY DEF Marking, TypeOK
<1>3. program[p] \in Seq(Range(program[p])) /\ inputs[p] \in Seq(Int)
  BY MarkingAssumption DEF TypeOK
<1>4. Len(program[p]) \in Nat /\ Len(inputs[p]) \in Nat
  BY <1>3
<1>5. num_inputs_'[p] <= Len(program'[p])
  BY <1>1, <1>2, <1>4 DEF Marking
<1>6. num_inputs_'[p] <= Len(inputs'[p])
  BY <1>1, <1>2, <1>4 DEF Marking, Put, HasInput
<1> QED
  BY <1>2, <1>5, <1>6 DEF Marking, Put, TypeOK

LEMMA NewInputMarks ==
    ASSUME TypeOK, NEW p \in Ranks, NEW ret, NewInput(p, ret)
    PROVE  Marking(p, "int", IF HasInput(p) THEN inputs[p][num_inputs_[p] + 1]
                             ELSE ret)
<1>1. AtMark(p, "int") /\ KeepInput(p, ret) /\ Count(p) /\ program' = program
  BY DEF NewInput
<1>2. HasInput(p) \/ ret \in Int
  <2>1. CASE ~HasInput(p) /\ p = 0
    <3>1. ret \in 0..(Current(p).limit - 1)
      BY <2>1 DEF NewInput
    <3> QED BY <1>1, <3>1, AtMarkFacts
  <2>2. CASE ~HasInput(p) /\ p # 0
    <3>1. Len(bcasts) > received[p] /\ ret = bcasts[received[p] + 1]
      BY <2>2 DEF NewInput
    <3>2. bcasts \in Seq(Int) /\ received[p] \in Nat
      BY DEF TypeOK
    <3>3. received[p] + 1 \in 1..Len(bcasts)
      BY <3>1, <3>2
    <3> QED BY <3>1, <3>2, <3>3
  <2> QED BY <2>1, <2>2
<1>3. Put(p, IF HasInput(p) THEN inputs[p][num_inputs_[p] + 1] ELSE ret)
  BY <1>1, <1>2, KeepPuts
<1> QED
  BY <1>1, <1>3 DEF Marking, Marked, Count

LEMMA NewInputRankMarks ==
    ASSUME TypeOK, NEW p \in Ranks, NewInputRank(p)
    PROVE  Marking(p, "rank", p)
<1>1. AtMark(p, "rank") /\ SetInput(p, p) /\ Count(p) /\ program' = program
  BY DEF NewInputRank
<1>2. p \in Int
  BY DEF Ranks
<1>3. Put(p, p)
  BY <1>1, <1>2, SetPuts
<1> QED
  BY <1>1, <1>3 DEF Marking, Marked, Count

LEMMA NewInputWorldSizeMarks ==
    ASSUME TypeOK, NEW p \in Ranks, NewInputWorldSize(p)
    PROVE  Marking(p, "size", IF HasInput(p) THEN inputs[p][num_inputs_[p] + 1]
                              ELSE NumProcs)
<1>1. AtMark(p, "size") /\ KeepInput(p, NumProcs) /\ Count(p) /\ program' = program
  BY DEF NewInputWorldSize
<1>2. NumProcs \in Int
  BY MarkingAssumption
<1>3. Put(p, IF HasInput(p) THEN inputs[p][num_inputs_[p] + 1] ELSE NumProcs)
  BY <1>1, <1>2, KeepPuts
<1> QED
  BY <1>1, <1>3 DEF Marking, Marked, Count

LEMMA NewInputLocalMarks ==
    ASSUME TypeOK, NEW p \in Ranks, NewInputRankNonDefaultComm(p)
    PROVE  Marking(p, "local", IF HasInput(p) THEN inputs[p][num_inputs_[p] + 1]
                               ELSE 0)
<1>1. AtMark(p, "local") /\ KeepInput(p, 0) /\ Count(p) /\ program' = program
  BY DEF NewInputRankNonDefaultComm
<1>2. Put(p, IF HasInput(p) THEN inputs[p][num_inputs_[p] + 1] ELSE 0)
  BY <1>1, KeepPuts
<1> QED
  BY <1>1, <1>2 DEF Marking, Marked, Count

-----------------------------------------------------------------------------
(* What the focus reports.                                                 *)

\* The visited mark of the focus that an index stands for.
MarkedAt(index, kind) ==
    index < num_inputs_[Focus] /\ program[Focus][index + 1].kind = kind

MarkedThen(index, kind) ==
    index < num_inputs_'[Focus] /\ program'[Focus][index + 1].kind = kind

RanksRight ==
    \A n \in 1..Len(rank_indices_) :
        /\ MarkedAt(rank_indices_[n], "rank")
        /\ inputs[Focus][rank_indices_[n] + 1] = Focus

LocalsInOrder ==
    LET indices == rank_non_default_comm_indices_
    IN /\ \A n \in 1..Len(indices) : MarkedAt(indices[n], "local")
       /\ \A m, n \in 1..Len(indices) : m < n => indices[m] < indices[n]

\* While the focus waits in a communicator, the last index is that of the
\* input that will be overwritten.
FocusWaits ==
    LET indices == rank_non_default_comm_indices_
    IN Focus \in inComm =>
          /\ Len(indices) > 0
          /\ indices[Len(indices)] + 1 = num_inputs_[Focus]

MapsRight ==
    \A n \in 1..Len(rank_non_default_comm_map_) :
        \E c \in Comms :
            /\ Focus \in c /\ rank_non_default_comm_map_[n] = Members(c)
            /\ inputs[Focus][rank_non_default_comm_indices_[n] + 1]
                = LocalRank(c, Focus)

\* The k-th map belongs to the k-th index: an index is without its map only
\* while the focus waits in that communicator.
MapsFollowIndices ==
    Len(rank_non_default_comm_indices_)
        = Len(rank_non_default_comm_map_) + (IF Focus \in inComm THEN 1 ELSE 0)

LocalsRight == LocalsInOrder /\ FocusWaits /\ MapsRight /\ MapsFollowIndices
FocusInv == RanksRight /\ LocalsRight

LEMMA FocusTypes ==
    ASSUME TypeOK
    PROVE  /\ Focus \in Ranks /\ Focus \in Int /\ num_inputs_[Focus] \in Nat
           /\ inputs[Focus] \in Seq(Int) /\ num_inputs_[Focus] <= Len(inputs[Focus])
           /\ Len(rank_indices_) \in Nat /\ Len(rank_non_default_comm_indices_) \in Nat
           /\ Len(rank_non_default_comm_map_) \in Nat
           /\ \A n \in 1..Len(rank_indices_) : rank_indices_[n] \in Nat
           /\ \A n \in 1..Len(rank_non_default_comm_indices_) :
                 rank_non_default_comm_indices_[n] \in Nat
<1>1. Focus \in Ranks /\ Focus \in Int
  BY MarkingAssumption DEF Ranks
<1> QED
  BY <1>1 DEF TypeOK

\* Later marks leave the inputs of earlier ones alone.
LEMMA EarlierKept ==
    ASSUME TypeOK, NEW p \in Ranks, NEW kind, NEW v, Marking(p, kind, v),
           NEW index \in Nat, NEW k, MarkedAt(index, k)
    PROVE  /\ MarkedThen(index, k)
           /\ inputs'[Focus][index + 1] = inputs[Focus][index + 1]
<1> DEFINE n == num_inputs_[Focus]
           len == Len(inputs[Focus])
<1>1. Focus \in Ranks /\ n \in Nat /\ inputs[Focus] \in Seq(Int) /\ n <= len
      /\ len \in Nat
  BY FocusTypes
<1>2. num_inputs_'[Focus] = n \/ num_inputs_'[Focus] = n + 1
  BY <1>1 DEF Marking, TypeOK
<1>3. index < n /\ program[Focus][index + 1].kind = k
  BY DEF MarkedAt
<1>4. index < num_inputs_'[Focus]
  BY <1>1, <1>2, <1>3
<1>5. CASE p = Focus
  <2>1. index + 1 \in 1..len /\ index + 1 # n + 1
    BY <1>1, <1>3
  <2>2. \A i \in 1..len : i # n + 1 => inputs'[Focus][i] = inputs[Focus][i]
    BY <1>5 DEF Marking, Put
  <2>3. inputs'[Focus][index + 1] = inputs[Focus][index + 1]
    BY <2>1, <2>2
  <2> QED BY <1>3, <1>4, <2>3 DEF MarkedThen, Marking
<1>6. CASE p # Focus
  <2>1. inputs'[Focus] = inputs[Focus]
    BY <1>1, <1>6 DEF Marking, Put
  <2> QED BY <1>3, <1>4, <2>1 DEF MarkedThen, Marking
<1> QED BY <1>5, <1>6

LEMMA RanksKept ==
    ASSUME TypeOK, RanksRight, NEW p \in Ranks, NEW kind, NEW v,
           Marking(p, kind, v), UNCHANGED rank_indices_
    PROVE  RanksRight'
<1> SUFFICES ASSUME NEW n \in 1..Len(rank_indices_)
             PROVE  /\ MarkedThen(rank_indices_[n], "rank")
                    /\ inputs'[Focus][rank_indices_[n] + 1] = Focus
  BY DEF RanksRight, MarkedAt, MarkedThen
<1>1. rank_indices_[n] \in Nat /\ MarkedAt(rank_indices_[n], "rank")
      /\ inputs[Focus][rank_indices_[n] + 1] = Focus
  BY FocusTypes DEF RanksRight
<1> QED
  BY <1>1, EarlierKept

LEMMA MapsFollowRange ==
    ASSUME TypeOK, MapsFollowIndices
    PROVE  /\ \A n \in 1..Len(rank_non_default_comm_map_) :
                 n \in 1..Len(rank_non_default_comm_indices_)
           /\ Focus \notin inComm => Len(rank_non_default_comm_indices_)
                                        = Len(rank_non_default_comm_map_)
           /\ Focus \in inComm => Len(rank_non_default_comm_indices_)
                                        = Len(rank_non_default_comm_map_) + 1
<1>1. Len(rank_non_default_comm_indices_) \in Nat /\ Len(rank_non_default_comm_map_) \in Nat
  BY FocusTypes
<1> QED
  BY <1>1 DEF MapsFollowIndices

LEMMA LocalsKept ==
    ASSUME TypeOK, LocalsRight, NEW p \in Ranks, NEW kind, NEW v,
           Marking(p, kind, v), Focus \in inComm' <=> Focus \in inComm,
           UNCHANGED <<rank_non_default_comm_indices_, rank_non_default_comm_map_>>
    PROVE  LocalsRight'
<1> DEFINE indices == rank_non_default_comm_indices_
           map == rank_non_default_comm_map_
<1>1. indices' = indices /\ map' = map
  OBVIOUS
<1>2. \A n \in 1..Len(indices) : indices[n] \in Nat /\ MarkedAt(indices[n], "local")
  BY FocusTypes DEF LocalsRight, LocalsInOrder
<1>3. ASSUME NEW n \in 1..Len(indices)
      PROVE  /\ MarkedThen(indices'[n], "local")
             /\ inputs'[Focus][indices'[n] + 1] = inputs[Focus][indices[n] + 1]
  BY <1>1, <1>2, EarlierKept
<1>4. LocalsInOrder'
  BY <1>1, <1>3 DEF LocalsRight, LocalsInOrder, MarkedAt, MarkedThen
<1>5. FocusWaits'
  <2>1. CASE p = Focus
    <3>1. Focus \notin inComm
      BY <2>1, AtMarkFacts DEF Marking
    <3> QED BY <3>1 DEF FocusWaits
  <2>2. CASE p # Focus
    <3>1. num_inputs_'[Focus] = num_inputs_[Focus]
      BY <2>2, FocusTypes DEF Marking, TypeOK
    <3> QED BY <1>1, <3>1 DEF LocalsRight, FocusWaits
  <2> QED BY <2>1, <2>2
<1>6. MapsRight'
  <2> SUFFICES ASSUME NEW n \in 1..Len(map)
               PROVE  \E c \in Comms :
                        /\ Focus \in c /\ map'[n] = Members(c)
                        /\ inputs'[Focus][indices'[n] + 1] = LocalRank(c, Focus)
    BY <1>1 DEF MapsRight
  <2>1. n \in 1..Len(indices)
    BY MapsFollowRange DEF LocalsRight
  <2>2. PICK c \in Comms :
           /\ Focus \in c /\ map[n] = Members(c)
           /\ inputs[Focus][indices[n] + 1] = LocalRank(c, Focus)
    BY DEF LocalsRight, MapsRight
  <2> QED BY <1>1, <1>3, <2>1, <2>2
<1>7. MapsFollowIndices'
  BY <1>1 DEF LocalsRight, MapsFollowIndices
<1> QED
  BY <1>4, <1>5, <1>6, <1>7 DEF LocalsRight

\* The focus marks its rank: the index stands for the rank it has.
LEMMA RankMarked ==
    ASSUME TypeOK, RanksRight, NewInputRank(Focus)
    PROVE  RanksRight' /\ rank_indices_' \in Seq(Nat)
<1> DEFINE k == num_inputs_[Focus]
           len == Len(rank_indices_)
<1>1. Marking(Focus, "rank", Focus)
  BY FocusTypes, NewInputRankMarks
<1>2. rank_indices_' = Append(rank_indices_, k)
  BY DEF NewInputRank, LogIndex
<1>3. k \in Nat /\ len \in Nat /\ rank_indices_ \in Seq(Nat)
  BY FocusTypes DEF TypeOK
<1>4. rank_indices_' \in Seq(Nat) /\ Len(rank_indices_') = len + 1
      /\ rank_indices_'[len + 1] = k
      /\ \A n \in 1..len : rank_indices_'[n] = rank_indices_[n]
  BY <1>2, <1>3
<1>5. MarkedThen(k, "rank") /\ inputs'[Focus][k + 1] = Focus
  <2>1. program[Focus][k + 1].kind = "rank"
    BY <1>1, FocusTypes, AtMarkFacts DEF Marking
  <2>2. inputs'[Focus][k + 1] = Focus
    BY <1>1 DEF Marking, Put
  <2>3. program' = program /\ num_inputs_'[Focus] = k + 1
    BY <1>1, FocusTypes DEF Marking, TypeOK
  <2>4. k < k + 1
    BY <1>3
  <2> QED BY <2>1, <2>2, <2>3, <2>4 DEF MarkedThen
<1>6. RanksRight'
  <2> SUFFICES ASSUME NEW n \in 1..Len(rank_indices_')
               PROVE  /\ MarkedThen(rank_indices_'[n], "rank")
                      /\ inputs'[Focus][rank_indices_'[n] + 1] = Focus
    BY DEF RanksRight, MarkedAt, MarkedThen
  <2>1. CASE n = len + 1
    BY <1>4, <1>5, <2>1
  <2>2. CASE n # len + 1
    <3>1. n \in 1..len
      BY <1>3, <1>4, <2>2
    <3>2. rank_indices_[n] \in Nat /\ MarkedAt(rank_indices_[n], "rank")
          /\ inputs[Focus][rank_indices_[n] + 1] = Focus
      BY <3>1, FocusTypes DEF RanksRight
    <3>3. MarkedThen(rank_indices_[n], "rank")
          /\ inputs'[Focus][rank_indices_[n] + 1] = inputs[Focus][rank_indices_[n] + 1]
      BY <1>1, <3>2, EarlierKept, FocusTypes
    <3> QED BY <1>4, <3>1, <3>2, <3>3
  <2> QED BY <2>1, <2>2
<1> QED BY <1>4, <1>6

\* The focus marks a local rank and waits for its communicator.
LEMMA LocalMarked ==
    ASSUME TypeOK, LocalsRight, NewInputRankNonDefaultComm(Focus)
    PROVE  LocalsRight' /\ rank_non_default_comm_indices_' \in Seq(Nat)
<1> DEFINE indices == rank_non_default_comm_indices_
           map == rank_non_default_comm_map_
           k == num_inputs_[Focus]
           len == Len(indices)
<1>1. PICK v : Marking(Focus, "local", v)
  BY FocusTypes, NewInputLocalMarks
<1>2. indices' = Append(indices, k) /\ map' = map /\ inComm' = inComm \cup {Focus}
  BY DEF NewInputRankNonDefaultComm, LogIndex
<1>3. k \in Nat /\ len \in Nat /\ indices \in Seq(Nat) /\ Len(map) \in Nat
  BY FocusTypes DEF TypeOK
<1>4. indices' \in Seq(Nat) /\ Len(indices') = len + 1 /\ indices'[len + 1] = k
      /\ \A n \in 1..len : indices'[n] = indices[n]
  BY <1>2, <1>3
<1>5. program' = program /\ num_inputs_'[Focus] = k + 1 /\ Focus \notin inComm
      /\ program[Focus][k + 1].kind = "local"
  BY <1>1, FocusTypes, AtMarkFacts DEF Marking, TypeOK
<1>6. \A n \in 1..len : indices[n] \in Nat /\ MarkedAt(indices[n], "local")
  BY FocusTypes DEF LocalsRight, LocalsInOrder
<1>7. \A n \in 1..len :
         /\ MarkedThen(indices[n], "local") /\ indices[n] < k
         /\ inputs'[Focus][indices[n] + 1] = inputs[Focus][indices[n] + 1]
  BY <1>1, <1>6, EarlierKept, FocusTypes DEF MarkedAt
<1>8. MarkedThen(k, "local")
  BY <1>3, <1>5 DEF MarkedThen
<1>9. len = Len(map)
  BY <1>5, MapsFollowRange DEF LocalsRight
<1> HIDE DEF len, k
<1>10. LocalsInOrder'
  <2>1. \A n \in 1..Len(indices') : MarkedThen(indices'[n], "local")
    <3> TAKE n \in 1..Len(indices')
    <3>1. n \in 1..len \/ n = len + 1
      BY <1>3, <1>4
    <3> QED BY <1>4, <1>7, <1>8, <3>1
  <2>2. ASSUME NEW m \in 1..Len(indices'), NEW n \in 1..Len(indices'), m < n
        PROVE  indices'[m] < indices'[n]
    <3>1. m \in 1..len
      BY <1>3, <1>4, <2>2
    <3>2. CASE n \in 1..len
      BY <1>4, <2>2, <3>1, <3>2 DEF LocalsRight, LocalsInOrder, len
    <3>3. CASE n \notin 1..len
      <4>1. n = len + 1
        BY <1>3, <1>4, <3>3
      <4> QED BY <1>4, <1>7, <3>1, <4>1
    <3> QED BY <3>2, <3>3
  <2> QED BY <2>1, <2>2 DEF LocalsInOrder, MarkedAt, MarkedThen
<1>11. FocusWaits'
  <2>1. Len(indices') > 0 /\ indices'[Len(indices')] + 1 = num_inputs_'[Focus]
    BY <1>3, <1>4, <1>5
  <2> QED BY <2>1 DEF FocusWaits
<1>12. MapsRight'
  <2> SUFFICES ASSUME NEW n \in 1..Len(map)
               PROVE  \E c \in Comms :
                        /\ Focus \in c /\ map'[n] = Members(c)
                        /\ inputs'[Focus][indices'[n] + 1] = LocalRank(c, Focus)
    BY <1>2 DEF MapsRight
  <2>1. n \in 1..len
    BY <1>9
  <2>2. PICK c \in Comms :
           /\ Focus \in c /\ map[n] = Members(c)
           /\ inputs[Focus][indices[n] + 1] = LocalRank(c, Focus)
    BY DEF LocalsRight, MapsRight
  <2> QED BY <1>2, <1>4, <1>7, <2>1, <2>2
<1>13. MapsFollowIndices'
  <2>1. Focus \in inComm' /\ Len(map') = Len(map) /\ Len(indices') = Len(map) + 1
    BY <1>2, <1>4, <1>9
  <2> QED BY <2>1 DEF MapsFollowIndices
<1> QED
  BY <1>4, <1>10, <1>11, <1>12, <1>13 DEF LocalsRight

\* The collective: the focus's rank in the communicator replaces its input.
LEMMA CollectiveFocus ==
    ASSUME TypeOK, FocusInv, NEW c \in Comms, CrestRankNonDefaultComm2(c), Focus \in c
    PROVE  /\ FocusInv' /\ inputs' \in [Ranks -> Seq(Int)]
           /\ \A p \in Ranks : Len(inputs'[p]) = Len(inputs[p])
           /\ \A p \in Ranks, k \in Nat :
                 program[p][k].kind # "local" => inputs'[p][k] = inputs[p][k]
           /\ \A p \in Ranks, k \in Nat :
                 k > num_inputs_[p] => inputs'[p][k] = inputs[p][k]
           /\ rank_non_default_comm_map_' \in Seq({Members(d) : d \in Comms})
<1> DEFINE indices == rank_non_default_comm_indices_
           map == rank_non_default_comm_map_
           k == num_inputs_[Focus]
           s == inputs[Focus]
           l == LocalRank(c, Focus)
           x == [s EXCEPT ![k] = l]
           last == Len(indices)
<1>1. /\ Focus \in inComm /\ inComm' = inComm \ c /\ map' = Append(map, Members(c))
      /\ inputs' = [inputs EXCEPT ![Focus] = x]
      /\ program' = program /\ num_inputs_' = num_inputs_
      /\ rank_indices_' = rank_indices_ /\ indices' = indices
  BY DEF CrestRankNonDefaultComm2
<1>2. l \in Nat
  BY CommsFinite
<1>3. k \in Nat /\ s \in Seq(Int) /\ k <= Len(s) /\ Focus \in Ranks
      /\ Len(indices) \in Nat /\ Len(map) \in Nat /\ last \in Nat
  BY FocusTypes
<1>4. last > 0 /\ indices[last] + 1 = k /\ last \in 1..Len(indices)
  BY <1>1, <1>3 DEF FocusInv, LocalsRight, FocusWaits
<1>5. program[Focus][k].kind = "local" /\ k > 0 /\ k \in 1..Len(s)
  <2>1. MarkedAt(indices[last], "local") /\ indices[last] \in Nat
    BY <1>4, FocusTypes DEF FocusInv, LocalsRight, LocalsInOrder
  <2>2. k > 0 /\ k \in 1..Len(s)
    BY <1>3, <1>4, <2>1
  <2> QED BY <1>4, <2>1, <2>2 DEF MarkedAt
<1> HIDE DEF l, s
<1>6. x \in Seq(Int) /\ Len(x) = Len(s) /\ x[k] = l /\ \A i : i # k => x[i] = s[i]
  BY <1>2, <1>3, <1>5
<1> HIDE DEF x
<1>7. inputs'[Focus] = x /\ inputs' \in [Ranks -> Seq(Int)]
      /\ \A p \in Ranks : p # Focus => inputs'[p] = inputs[p]
  BY <1>1, <1>3, <1>6 DEF TypeOK
<1>8. \A i : i # k => inputs'[Focus][i] = inputs[Focus][i]
  BY <1>6, <1>7 DEF s
<1>9. \A i, m : MarkedAt(i, m) => MarkedThen(i, m)
  BY <1>1 DEF MarkedAt, MarkedThen
<1>10. RanksRight'
  <2> SUFFICES ASSUME NEW n \in 1..Len(rank_indices_)
               PROVE  /\ MarkedThen(rank_indices_[n], "rank")
                      /\ inputs'[Focus][rank_indices_[n] + 1] = Focus
    BY <1>1 DEF RanksRight, MarkedAt, MarkedThen
  <2>1. MarkedAt(rank_indices_[n], "rank")
        /\ inputs[Focus][rank_indices_[n] + 1] = Focus
    BY DEF FocusInv, RanksRight
  <2>2. rank_indices_[n] + 1 # k
    BY <1>5, <2>1 DEF MarkedAt
  <2> QED BY <1>8, <1>9, <2>1, <2>2
<1>11. LocalsInOrder'
  BY <1>1, <1>9 DEF FocusInv, LocalsRight, LocalsInOrder, MarkedAt, MarkedThen
<1>12. FocusWaits'
  BY <1>1 DEF FocusWaits
<1>13. last = Len(map) + 1
  BY <1>1, MapsFollowRange DEF FocusInv, LocalsRight
<1>14. MapsFollowIndices'
  <2>1. Len(map') = Len(map) + 1 /\ Focus \notin inComm'
    BY <1>1, <1>3 DEF TypeOK
  <2> QED BY <1>1, <1>3, <1>13, <2>1 DEF MapsFollowIndices
<1>15. map' \in Seq({Members(d) : d \in Comms}) /\ Len(map') = Len(map) + 1
       /\ map'[Len(map) + 1] = Members(c)
       /\ \A n \in 1..Len(map) : map'[n] = map[n]
  <2>1. map \in Seq({Members(d) : d \in Comms})
        /\ Members(c) \in {Members(d) : d \in Comms}
    BY DEF TypeOK
  <2> HIDE DEF map
  <2> QED BY <1>1, <2>1 DEF map
<1>16. MapsRight'
  <2> SUFFICES ASSUME NEW n \in 1..Len(map')
               PROVE  \E d \in Comms :
                        /\ Focus \in d /\ map'[n] = Members(d)
                        /\ inputs'[Focus][indices[n] + 1] = LocalRank(d, Focus)
    BY <1>1 DEF MapsRight
  <2>1. CASE n = Len(map) + 1
    <3>1. indices[n] + 1 = k
      BY <1>4, <1>13, <2>1
    <3>2. inputs'[Focus][indices[n] + 1] = LocalRank(c, Focus)
      BY <1>6, <1>7, <3>1 DEF l
    <3> QED BY <1>15, <2>1, <3>2
  <2>2. CASE n # Len(map) + 1
    <3>1. n \in 1..Len(map) /\ n \in 1..Len(indices) /\ n < last
      BY <1>3, <1>13, <1>15, <2>2
    <3>2. PICK d \in Comms :
             /\ Focus \in d /\ map[n] = Members(d)
             /\ inputs[Focus][indices[n] + 1] = LocalRank(d, Focus)
      BY <3>1 DEF FocusInv, LocalsRight, MapsRight
    <3>3. indices[n] < indices[last] /\ indices[n] \in Nat /\ indices[last] \in Nat
      BY <1>4, <3>1, FocusTypes DEF FocusInv, LocalsRight, LocalsInOrder
    <3>4. indices[n] + 1 # k
      BY <1>4, <3>3
    <3> QED BY <1>8, <1>15, <3>1, <3>2, <3>4
  <2> QED BY <2>1, <2>2
<1>17. \A p \in Ranks : Len(inputs'[p]) = Len(inputs[p])
  BY <1>6, <1>7 DEF s
<1>18. \A p \in Ranks, i \in Nat :
          program[p][i].kind # "local" => inputs'[p][i] = inputs[p][i]
  BY <1>5, <1>7, <1>8
<1>19. \A p \in Ranks, i \in Nat :
          i > num_inputs_[p] => inputs'[p][i] = inputs[p][i]
  <2> SUFFICES ASSUME NEW p \in Ranks, NEW i \in Nat, i > num_inputs_[p]
               PROVE  inputs'[p][i] = inputs[p][i]
    OBVIOUS
  <2>1. CASE p = Focus
    <3>1. i # k
      BY <1>3, <2>1
    <3> QED BY <1>8, <2>1, <3>1
  <2>2. CASE p # Focus
    BY <1>7, <2>2
  <2> QED BY <2>1, <2>2
<1>20. FocusInv'
  BY <1>10, <1>11, <1>12, <1>14, <1>16 DEF FocusInv, LocalsRight
<1> QED
  BY <1>7, <1>15, <1>17, <1>18, <1>19, <1>20

-----------------------------------------------------------------------------
(* What the processes agree on.                                            *)

\* The values that are drawn for marks after the n-th up to the k-th.
Drawn(marks, n, k) == {j \in (n + 1)..k : marks[j].kind = "int"}
Draws(marks, n, k) == Cardinality(Drawn(marks, n, k))

\* The k-th input of these marks, read from f or made when f has ended.
InputOf(f, marks, sent, k) ==
    IF k <= Len(f) THEN f[k]
    ELSE IF marks[k].kind = "size" THEN NumProcs
    ELSE sent[Draws(marks, Len(f), k)]

\* Every process has read f, and the same broadcasts in the same order.
SyncedWith(f) ==
    /\ \A p \in Ranks :
        /\ Len(f) <= Len(inputs[p])
        /\ num_inputs_[p] < Len(inputs[p]) => Len(inputs[p]) = Len(f)
        /\ received[p] = Draws(program[p], Len(f), num_inputs_[p])
        /\ received[p] <= Len(bcasts)
        /\ \A k \in 1..num_inputs_[p] :
              program[p][k].kind \in {"int", "size"}
                  => inputs[p][k] = InputOf(f, program[p], bcasts, k)
        /\ \A k \in (num_inputs_[p] + 1)..Len(inputs[p]) : inputs[p][k] = f[k]
    /\ Len(bcasts) = received[0]

Synced == \E f \in Files : SyncedWith(f)

LEMMA DrawsFacts ==
    ASSUME NEW marks, NEW n \in Nat, NEW k \in Nat
    PROVE  /\ Draws(marks, n, k) \in Nat
           /\ Draws(marks, n, k + 1)
                = IF k + 1 > n /\ marks[k + 1].kind = "int"
                  THEN Draws(marks, n, k) + 1 ELSE Draws(marks, n, k)
<1> DEFINE S == Drawn(marks, n, k)
           T == Drawn(marks, n, k + 1)
<1>1. IsFiniteSet(S)
  <2>1. IsFiniteSet((n + 1)..k)
    BY FS_Interval
  <2>2. S \subseteq (n + 1)..k
    BY DEF Drawn
  <2> QED BY <2>1, <2>2, FS_Subset
<1>2. Cardinality(S) \in Nat
  BY <1>1, FS_CardinalityType
<1>3. CASE k + 1 > n /\ marks[k + 1].kind = "int"
  <2>1. T = S \cup {k + 1} /\ k + 1 \notin S
    BY <1>3 DEF Drawn
  <2> HIDE DEF S, T
  <2>2. Cardinality(T) = Cardinality(S) + 1
    BY <1>1, <2>1, FS_AddElement
  <2> QED BY <1>2, <1>3, <2>2 DEF S, T, Draws
<1>4. CASE ~(k + 1 > n /\ marks[k + 1].kind = "int")
  <2>1. T = S
    BY <1>4 DEF Drawn
  <2> HIDE DEF S, T
  <2> QED BY <1>2, <1>4, <2>1 DEF S, T, Draws
<1> QED BY <1>3, <1>4

LEMMA DrawsGrow ==
    ASSUME NEW marks, NEW n \in Nat, NEW k \in Nat, NEW m \in Nat, k <= m
    PROVE  Draws(marks, n, k) <= Draws(marks, n, m)
<1>1. IsFiniteSet((n + 1)..m)
  BY FS_Interval
<1>2. Drawn(marks, n, m) \subseteq (n + 1)..m
      /\ Drawn(marks, n, k) \subseteq Drawn(marks, n, m)
  BY DEF Drawn
<1>3. IsFiniteSet(Drawn(marks, n, m))
  BY <1>1, <1>2, FS_Subset
<1> QED
  BY <1>2, <1>3, FS_Subset DEF Draws

\* A drawn value has a number from one on.
LEMMA DrawsPositive ==
    ASSUME NEW marks, NEW n \in Nat, NEW k \in Nat \ {0}, k > n,
           marks[k].kind = "int"
    PROVE  Draws(marks, n, k) >= 1
<1>1. PICK j \in Nat : k = j + 1
  <2>1. k - 1 \in Nat /\ k = (k - 1) + 1
    OBVIOUS
  <2> QED BY <2>1
<1>2. Draws(marks, n, j) \in Nat
      /\ Draws(marks, n, j + 1)
            = IF j + 1 > n /\ marks[j + 1].kind = "int"
              THEN Draws(marks, n, j) + 1 ELSE Draws(marks, n, j)
  BY DrawsFacts
<1>3. j + 1 > n /\ marks[j + 1].kind = "int"
  BY <1>1
<1>4. Draws(marks, n, k) = Draws(marks, n, j) + 1
  BY <1>1, <1>2, <1>3
<1> QED BY <1>2, <1>4

\* A mark that leaves what was sent, and what others received, and that
\* gives p the value that its number stands for.
Agrees(f, p, kind, v) ==
    LET n == num_inputs_[p] + 1
    IN /\ bcasts' \in Seq(Int) /\ Len(bcasts) <= Len(bcasts')
       /\ \A i \in 1..Len(bcasts) : bcasts'[i] = bcasts[i]
       /\ \A q \in Ranks : q # p => received'[q] = received[q]
       /\ received'[p] = Draws(program[p], Len(f), n)
       /\ received'[p] <= Len(bcasts') /\ Len(bcasts') = received'[0]
       /\ kind \in {"int", "size"} => v = InputOf(f, program[p], bcasts', n)

LEMMA SyncedMark ==
    ASSUME TypeOK, NEW f \in Files, SyncedWith(f), NEW p \in Ranks, NEW kind, NEW v,
           Marking(p, kind, v), Agrees(f, p, kind, v)
    PROVE  SyncedWith(f)'
<1> DEFINE n == num_inputs_[p]
           m == Len(f)
           len == Len(inputs[p])
<1>1. m \in Nat /\ n \in Nat /\ len \in Nat /\ n <= len /\ m <= len
      /\ (n < len => len = m) /\ Len(bcasts) \in Nat
  BY SMTT(30), MarkingAssumption DEF TypeOK, SyncedWith
<1>2. /\ program' = program /\ num_inputs_'[p] = n + 1
      /\ \A q \in Ranks : q # p => num_inputs_'[q] = num_inputs_[q]
      /\ program[p][n + 1].kind = kind
  BY AtMarkFacts DEF Marking, TypeOK
<1>3. /\ \A q \in Ranks : q # p => inputs'[q] = inputs[q]
      /\ Len(inputs'[p]) = IF n < len THEN len ELSE n + 1
      /\ inputs'[p][n + 1] = v
      /\ \A k \in 1..len : k # n + 1 => inputs'[p][k] = inputs[p][k]
  BY DEF Marking, Put, HasInput
<1>4. \* What a broadcast number stands for does not change.
      ASSUME NEW q \in Ranks, NEW k \in 1..num_inputs_[q],
             program[q][k].kind \in {"int", "size"}
      PROVE  InputOf(f, program[q], bcasts', k) = InputOf(f, program[q], bcasts, k)
  <2>1. CASE k > m /\ program[q][k].kind = "int"
    <3>1. num_inputs_[q] \in Nat /\ k \in Nat \ {0} /\ k <= num_inputs_[q]
      BY DEF TypeOK
    <3>2. Draws(program[q], m, k) >= 1 /\ Draws(program[q], m, k) \in Nat
      BY <1>1, <2>1, <3>1, DrawsPositive, DrawsFacts
    <3>3. Draws(program[q], m, k) <= Draws(program[q], m, num_inputs_[q])
      BY <1>1, <3>1, DrawsGrow
    <3>4. Draws(program[q], m, num_inputs_[q]) <= Len(bcasts)
      BY DEF SyncedWith
    <3>5. Draws(program[q], m, num_inputs_[q]) \in Nat
      BY <1>1, <3>1, DrawsFacts
    <3>6. Draws(program[q], m, k) \in 1..Len(bcasts)
      BY <1>1, <3>2, <3>3, <3>4, <3>5
    <3> QED BY <3>6 DEF InputOf, Agrees
  <2>2. CASE ~(k > m /\ program[q][k].kind = "int")
    <3>1. k <= m \/ program[q][k].kind = "size"
      BY <1>1, <1>4, <2>2
    <3> QED BY <3>1 DEF InputOf
  <2> QED BY <2>1, <2>2
<1>5. ASSUME NEW q \in Ranks, q # p
      PROVE  /\ m <= Len(inputs'[q])
             /\ num_inputs_'[q] < Len(inputs'[q]) => Len(inputs'[q]) = m
             /\ received'[q] = Draws(program'[q], m, num_inputs_'[q])
             /\ received'[q] <= Len(bcasts')
             /\ \A k \in 1..num_inputs_'[q] :
                   program'[q][k].kind \in {"int", "size"}
                       => inputs'[q][k] = InputOf(f, program'[q], bcasts', k)
             /\ \A k \in (num_inputs_'[q] + 1)..Len(inputs'[q]) : inputs'[q][k] = f[k]
  <2>1. /\ m <= Len(inputs[q])
        /\ num_inputs_[q] < Len(inputs[q]) => Len(inputs[q]) = m
        /\ received[q] = Draws(program[q], m, num_inputs_[q])
        /\ received[q] <= Len(bcasts)
        /\ \A k \in 1..num_inputs_[q] :
              program[q][k].kind \in {"int", "size"}
                  => inputs[q][k] = InputOf(f, program[q], bcasts, k)
        /\ \A k \in (num_inputs_[q] + 1)..Len(inputs[q]) : inputs[q][k] = f[k]
    BY DEF SyncedWith
  <2>2. received'[q] = received[q] /\ Len(bcasts) <= Len(bcasts') /\ Len(bcasts') \in Nat
        /\ received[q] \in Nat
    BY <1>5 DEF Agrees, TypeOK
  <2>3. inputs'[q] = inputs[q] /\ num_inputs_'[q] = num_inputs_[q]
    BY <1>2, <1>3, <1>5
  <2>4. received'[q] <= Len(bcasts')
    BY <1>1, <2>1, <2>2
  <2>5. \A k \in 1..num_inputs_'[q] :
           program'[q][k].kind \in {"int", "size"}
               => inputs'[q][k] = InputOf(f, program'[q], bcasts', k)
    BY <1>2, <1>4, <2>1, <2>3
  <2> QED BY <1>2, <2>1, <2>2, <2>3, <2>4, <2>5
<1>6. /\ m <= Len(inputs'[p])
      /\ num_inputs_'[p] < Len(inputs'[p]) => Len(inputs'[p]) = m
      /\ received'[p] = Draws(program'[p], m, num_inputs_'[p])
      /\ received'[p] <= Len(bcasts')
  <2>1. m <= Len(inputs'[p])
    BY <1>1, <1>3
  <2>2. num_inputs_'[p] < Len(inputs'[p]) => Len(inputs'[p]) = m
    BY <1>1, <1>2, <1>3
  <2>3. received'[p] = Draws(program[p], m, n + 1) /\ received'[p] <= Len(bcasts')
    BY DEF Agrees
  <2> QED BY <1>2, <2>1, <2>2, <2>3
<1>7. ASSUME NEW k \in 1..num_inputs_'[p], program'[p][k].kind \in {"int", "size"}
      PROVE  inputs'[p][k] = InputOf(f, program'[p], bcasts', k)
  <2>1. CASE k = n + 1
    <3>1. v = InputOf(f, program[p], bcasts', n + 1)
      BY <1>2, <1>7, <2>1 DEF Agrees
    <3> QED BY <1>2, <1>3, <2>1, <3>1
  <2>2. CASE k # n + 1
    <3>1. k \in 1..n /\ k \in 1..len
      BY <1>1, <1>2, <2>2
    <3>2. inputs'[p][k] = inputs[p][k]
      BY <1>3, <2>2, <3>1
    <3>3. inputs[p][k] = InputOf(f, program[p], bcasts, k)
      BY <1>2, <1>7, <3>1 DEF SyncedWith
    <3> QED BY <1>2, <1>4, <1>7, <3>1, <3>2, <3>3
  <2> QED BY <2>1, <2>2
<1>8. ASSUME NEW k \in (num_inputs_'[p] + 1)..Len(inputs'[p])
      PROVE  inputs'[p][k] = f[k]
  <2>1. n < len /\ k \in (n + 1)..len /\ k # n + 1 /\ k \in 1..len
    BY <1>1, <1>2, <1>3
  <2>2. inputs[p][k] = f[k]
    BY <2>1 DEF SyncedWith
  <2> QED BY <1>3, <2>1, <2>2
<1>9. Len(bcasts') = received'[0]
  BY DEF Agrees
<1> HIDE DEF m
<1> QED
  BY <1>5, <1>6, <1>7, <1>8, <1>9 DEF SyncedWith, m

\* A new variable: rank 0 sends what it drew, the others take what was sent.
LEMMA NewInputAgrees ==
    ASSUME TypeOK, NEW f \in Files, SyncedWith(f), NEW p \in Ranks, NEW ret,
           NewInput(p, ret)
    PROVE  Agrees(f, p, "int", IF HasInput(p) THEN inputs[p][num_inputs_[p] + 1]
                               ELSE ret)
<1> DEFINE n == num_inputs_[p]
           m == Len(f)
           len == Len(inputs[p])
           r == received[p]
           b == Len(bcasts)
<1>1. f \in Seq(Int) /\ inputs[p] \in Seq(Int) /\ bcasts \in Seq(Int)
      /\ n \in Nat /\ r \in Nat /\ n <= len
  BY MarkingAssumption DEF TypeOK
<1>2. 0 \in Ranks
  BY MarkingAssumption DEF Ranks
<1>3. m <= len /\ (n < len => len = m) /\ r = Draws(program[p], m, n)
      /\ r <= b /\ b = received[0]
  BY DEF SyncedWith
<1>4. /\ m \in Nat /\ n \in Nat /\ len \in Nat /\ n <= len /\ m <= len
      /\ (n < len => len = m) /\ b \in Nat /\ r \in Nat /\ r <= b
      /\ bcasts \in Seq(Int) /\ 0 \in Ranks /\ b = received[0]
      /\ r = Draws(program[p], m, n)
  BY <1>1, <1>2, <1>3
<1>5. AtMark(p, "int") /\ program[p][n + 1].kind = "int"
  BY AtMarkFacts DEF NewInput
<1>6. m \in Nat /\ n \in Nat
  BY <1>4
<1>7. Draws(program[p], m, n + 1) = IF n + 1 > m THEN r + 1 ELSE r
  <2> HIDE DEF m, n, r
  <2>1. Draws(program[p], m, n + 1)
            = IF n + 1 > m /\ program[p][n + 1].kind = "int"
              THEN Draws(program[p], m, n) + 1 ELSE Draws(program[p], m, n)
    BY <1>6, DrawsFacts
  <2> QED BY <1>4, <1>5, <2>1
<1>8. CASE HasInput(p)
  <2>1. bcasts' = bcasts /\ received' = received
    BY <1>8 DEF NewInput
  <2>2. n < len
    BY <1>8 DEF HasInput
  <2>3. len = m /\ n + 1 <= m /\ ~(n + 1 > m) /\ n + 1 \in (n + 1)..len
    BY <1>4, <2>2
  <2>4. inputs[p][n + 1] = f[n + 1]
    BY <2>3 DEF SyncedWith
  <2>5. inputs[p][n + 1] = InputOf(f, program[p], bcasts', n + 1)
    BY <2>3, <2>4 DEF InputOf
  <2> HIDE DEF b, m, r
  <2>6. received'[p] = Draws(program[p], m, n + 1)
    BY <1>7, <2>1, <2>3 DEF r
  <2> QED BY <1>4, <1>8, <2>1, <2>5, <2>6 DEF Agrees, b, m, r
<1>9. CASE ~HasInput(p)
  <2>1. received' = [received EXCEPT ![p] = @ + 1]
    BY <1>9 DEF NewInput
  <2>2. received'[p] = r + 1 /\ \A q \in Ranks : q # p => received'[q] = received[q]
    BY <2>1 DEF TypeOK
  <2>3. n = len /\ n + 1 > m
    BY <1>4, <1>9 DEF HasInput
  <2>4. Draws(program[p], m, n + 1) = r + 1
    BY <1>7, <2>3
  <2>5. ASSUME ret = bcasts'[r + 1]
        PROVE  ret = InputOf(f, program[p], bcasts', n + 1)
    <3>1. ~(n + 1 <= m)
      BY <1>4, <2>3
    <3> QED BY <1>5, <2>4, <2>5, <3>1 DEF InputOf
  <2>6. CASE p = 0
    <3>1. ret \in Int /\ bcasts' = Append(bcasts, ret)
      BY <1>5, <1>9, <2>6, AtMarkFacts DEF NewInput
    <3> HIDE DEF b
    <3>2. bcasts' \in Seq(Int) /\ Len(bcasts') = b + 1 /\ bcasts'[b + 1] = ret
          /\ \A i \in 1..b : bcasts'[i] = bcasts[i]
      BY <1>4, <3>1 DEF b
    <3>3. r = b
      BY <1>4, <2>6
    <3>4. ret = InputOf(f, program[p], bcasts', n + 1)
      BY <2>5, <3>2, <3>3
    <3>5. b <= Len(bcasts') /\ r + 1 <= Len(bcasts') /\ Len(bcasts') = r + 1
      BY <1>4, <3>2, <3>3
    <3> HIDE DEF m, r
    <3> QED BY <1>9, <2>2, <2>4, <2>6, <3>2, <3>4, <3>5 DEF Agrees, b, m
  <2>7. CASE p # 0
    <3>1. b > r /\ ret = bcasts[r + 1] /\ bcasts' = bcasts
      BY <1>9, <2>7 DEF NewInput
    <3>2. received'[0] = received[0]
      BY <1>4, <2>2, <2>7
    <3>3. r + 1 <= b /\ b <= b
      BY <1>4, <3>1
    <3>4. ret = InputOf(f, program[p], bcasts', n + 1)
      BY <2>5, <3>1
    <3> HIDE DEF m, r
    <3> QED BY <1>4, <1>9, <2>2, <2>4, <3>1, <3>2, <3>3, <3>4 DEF Agrees, m
  <2> QED BY <2>6, <2>7
<1> QED BY <1>8, <1>9

\* The other marks send nothing, and mark no drawn value.
LEMMA OtherMarkAgrees ==
    ASSUME TypeOK, NEW f \in Files, SyncedWith(f), NEW p \in Ranks,
           NEW kind, NEW v, kind # "int", AtMark(p, kind),
           UNCHANGED <<bcasts, received>>,
           kind = "size" => v = InputOf(f, program[p], bcasts, num_inputs_[p] + 1)
    PROVE  Agrees(f, p, kind, v)
<1> DEFINE n == num_inputs_[p]
           m == Len(f)
<1>1. m \in Nat /\ n \in Nat /\ 0 \in Ranks /\ bcasts \in Seq(Int)
      /\ Len(bcasts) \in Nat
  BY SMTT(30), MarkingAssumption DEF TypeOK, Ranks
<1>2. program[p][n + 1].kind # "int"
  BY AtMarkFacts
<1>3. Draws(program[p], m, n + 1) = Draws(program[p], m, n)
  BY <1>1, <1>2, DrawsFacts
<1>4. received[p] = Draws(program[p], m, n) /\ received[p] <= Len(bcasts)
      /\ Len(bcasts) = received[0]
  BY DEF SyncedWith
<1> HIDE DEF m
<1> QED
  BY <1>1, <1>3, <1>4 DEF Agrees, m

\* The size of the job: read from the file, or what MPI_Comm_size returned.
LEMMA WorldSizeAgrees ==
    ASSUME TypeOK, NEW f \in Files, SyncedWith(f), NEW p \in Ranks,
           NewInputWorldSize(p)
    PROVE  Agrees(f, p, "size", IF HasInput(p) THEN inputs[p][num_inputs_[p] + 1]
                                ELSE NumProcs)
<1> DEFINE n == num_inputs_[p]
           m == Len(f)
           len == Len(inputs[p])
<1>1. /\ m \in Nat /\ n \in Nat /\ len \in Nat /\ n <= len /\ m <= len
      /\ (n < len => len = m)
  BY MarkingAssumption DEF TypeOK, SyncedWith
<1>2. AtMark(p, "size") /\ UNCHANGED <<bcasts, received>>
  BY DEF NewInputWorldSize
<1>3. program[p][n + 1].kind = "size"
  BY <1>2, AtMarkFacts
<1>4. CASE HasInput(p)
  <2>1. len = m /\ n + 1 <= m /\ n + 1 \in (n + 1)..len
    BY <1>1, <1>4 DEF HasInput
  <2>2. inputs[p][n + 1] = f[n + 1]
    BY <2>1 DEF SyncedWith
  <2>3. inputs[p][n + 1] = InputOf(f, program[p], bcasts, n + 1)
    BY <2>1, <2>2 DEF InputOf
  <2> QED BY <1>2, <1>4, <2>3, OtherMarkAgrees
<1>5. CASE ~HasInput(p)
  <2>1. ~(n + 1 <= m)
    BY <1>1, <1>5 DEF HasInput
  <2>2. NumProcs = InputOf(f, program[p], bcasts, n + 1)
    BY <1>3, <2>1 DEF InputOf
  <2> QED BY <1>2, <1>5, <2>2, OtherMarkAgrees
<1> QED BY <1>4, <1>5

\* A collective changes no value that the processes agree on.
LEMMA CollectiveSynced ==
    ASSUME TypeOK, FocusInv, NEW f \in Files, SyncedWith(f), NEW c \in Comms,
           CrestRankNonDefaultComm2(c)
    PROVE  SyncedWith(f)'
<1>1. /\ program' = program /\ num_inputs_' = num_inputs_
      /\ bcasts' = bcasts /\ received' = received
  BY DEF CrestRankNonDefaultComm2
<1>2. /\ \A p \in Ranks : Len(inputs'[p]) = Len(inputs[p])
      /\ \A p \in Ranks, k \in Nat :
            program[p][k].kind # "local" => inputs'[p][k] = inputs[p][k]
      /\ \A p \in Ranks, k \in Nat :
            k > num_inputs_[p] => inputs'[p][k] = inputs[p][k]
  <2>1. CASE Focus \in c
    BY <2>1, CollectiveFocus
  <2>2. CASE Focus \notin c
    BY <2>2 DEF CrestRankNonDefaultComm2
  <2> QED BY <2>1, <2>2
<1>3. \A p \in Ranks : num_inputs_[p] \in Nat /\ Len(inputs[p]) \in Nat
  BY DEF TypeOK
<1>4. ASSUME NEW p \in Ranks
      PROVE  /\ \A k \in 1..num_inputs_[p] :
                   program[p][k].kind \in {"int", "size"}
                       => inputs'[p][k] = InputOf(f, program[p], bcasts, k)
             /\ \A k \in (num_inputs_[p] + 1)..Len(inputs'[p]) :
                   inputs'[p][k] = f[k]
  <2>1. ASSUME NEW k \in 1..num_inputs_[p], program[p][k].kind \in {"int", "size"}
        PROVE  inputs'[p][k] = InputOf(f, program[p], bcasts, k)
    <3>1. inputs[p][k] = InputOf(f, program[p], bcasts, k)
      BY <2>1 DEF SyncedWith
    <3>2. k \in Nat /\ program[p][k].kind # "local"
      BY <1>3, <2>1
    <3> QED BY <1>2, <3>1, <3>2
  <2>2. ASSUME NEW k \in (num_inputs_[p] + 1)..Len(inputs'[p])
        PROVE  inputs'[p][k] = f[k]
    <3>1. k \in Nat /\ k > num_inputs_[p]
          /\ k \in (num_inputs_[p] + 1)..Len(inputs[p])
      BY <1>2, <1>3
    <3>2. inputs[p][k] = f[k]
      BY <3>1 DEF SyncedWith
    <3> QED BY <1>2, <3>1, <3>2
  <2> QED BY <2>1, <2>2
<1>5. ASSUME NEW p \in Ranks
      PROVE  /\ Len(f) <= Len(inputs'[p])
             /\ num_inputs_[p] < Len(inputs'[p]) => Len(inputs'[p]) = Len(f)
             /\ received[p] = Draws(program[p], Len(f), num_inputs_[p])
             /\ received[p] <= Len(bcasts)
  BY <1>2 DEF SyncedWith
<1>6. Len(bcasts) = received[0]
  BY DEF SyncedWith
<1> QED
  BY <1>1, <1>4, <1>5, <1>6 DEF SyncedWith

-----------------------------------------------------------------------------
(* The inductive invariant.                                                *)

IInv == TypeOK /\ FocusInv /\ Synced

LEMMA InitIInv == Init => IInv
<1> SUFFICES ASSUME Init
             PROVE  IInv
  OBVIOUS
<1>1. PICK f \in Files : inputs = [p \in Ranks |-> f]
  BY DEF Init
<1>2. f \in Seq(Int) /\ Len(f) \in Nat /\ Focus \in Ranks /\ 0 \in Ranks
  BY MarkingAssumption DEF Ranks
<1>3. \A p \in Ranks : Len(program[p]) \in Nat
  BY MarkingAssumption DEF Init
<1>4. TypeOK
  BY <1>1, <1>2, <1>3 DEF Init, TypeOK
<1>5. FocusInv
  BY <1>2 DEF Init, FocusInv, RanksRight, LocalsRight, LocalsInOrder, FocusWaits,
              MapsRight, MapsFollowIndices
<1>6. \A marks : Draws(marks, Len(f), 0) = 0
  <2> SUFFICES ASSUME NEW marks
               PROVE  Draws(marks, Len(f), 0) = 0
    OBVIOUS
  <2>1. Drawn(marks, Len(f), 0) = {}
    BY <1>2 DEF Drawn
  <2> QED BY <2>1, FS_EmptySet DEF Draws
<1>7. SyncedWith(f)
  BY <1>1, <1>2, <1>6 DEF Init, SyncedWith
<1> QED BY <1>4, <1>5, <1>7 DEF IInv, Synced

\* A mark keeps the invariant when the values still agree and the focus's
\* own records do.
LEMMA MarkKeeps ==
    ASSUME IInv, NEW p \in Ranks, NEW kind, NEW v, Marking(p, kind, v),
           \A f \in Files : SyncedWith(f) => Agrees(f, p, kind, v),
           received' \in [Ranks -> Nat], inComm' \subseteq Ranks,
           rank_indices_' \in Seq(Nat), rank_non_default_comm_indices_' \in Seq(Nat),
           rank_non_default_comm_map_' = rank_non_default_comm_map_,
           RanksRight', LocalsRight'
    PROVE  IInv'
<1>1. PICK f \in Files : SyncedWith(f)
  BY DEF IInv, Synced
<1>2. SyncedWith(f)'
  BY <1>1, SyncedMark DEF IInv
<1>3. bcasts' \in Seq(Int)
  BY <1>1 DEF Agrees
<1>4. /\ program' \in Programs /\ inputs' \in [Ranks -> Seq(Int)]
      /\ num_inputs_' \in [Ranks -> Nat]
      /\ \A q \in Ranks : num_inputs_'[q] <= Len(program'[q])
                          /\ num_inputs_'[q] <= Len(inputs'[q])
  BY MarkingFacts DEF IInv
<1>5. rank_non_default_comm_map_' \in Seq({Members(c) : c \in Comms})
  BY DEF IInv, TypeOK
<1>6. TypeOK'
  BY <1>3, <1>4, <1>5 DEF TypeOK
<1> QED BY <1>2, <1>6 DEF IInv, FocusInv, Synced

LEMMA NewInputSafe ==
    ASSUME IInv, NEW p \in Ranks, NEW ret, NewInput(p, ret)
    PROVE  IInv'
<1> DEFINE v == IF HasInput(p) THEN inputs[p][num_inputs_[p] + 1] ELSE ret
<1>1. TypeOK /\ RanksRight /\ LocalsRight
  BY DEF IInv, FocusInv
<1>2. Marking(p, "int", v)
  BY <1>1, NewInputMarks
<1>3. \A f \in Files : SyncedWith(f) => Agrees(f, p, "int", v)
  BY <1>1, NewInputAgrees
<1>4. inComm' = inComm /\ focusVars' = focusVars
  BY DEF NewInput
<1>5. received' \in [Ranks -> Nat]
  <2>1. received' = received \/ received' = [received EXCEPT ![p] = @ + 1]
    BY DEF NewInput
  <2>2. received \in [Ranks -> Nat]
    BY <1>1 DEF TypeOK
  <2> QED BY <2>1, <2>2
<1> HIDE DEF v
<1>6. RanksRight' /\ LocalsRight'
  BY <1>1, <1>2, <1>4, RanksKept, LocalsKept DEF focusVars
<1>7. /\ inComm' \subseteq Ranks /\ rank_indices_' \in Seq(Nat)
      /\ rank_non_default_comm_indices_' \in Seq(Nat)
      /\ rank_non_default_comm_map_' = rank_non_default_comm_map_
  BY <1>1, <1>4 DEF TypeOK, focusVars
<1> QED BY <1>2, <1>3, <1>5, <1>6, <1>7, MarkKeeps

LEMMA NewInputRankSafe ==
    ASSUME IInv, NEW p \in Ranks, NewInputRank(p)
    PROVE  IInv'
<1>1. TypeOK /\ RanksRight /\ LocalsRight
  BY DEF IInv, FocusInv
<1>2. Marking(p, "rank", p)
  BY <1>1, NewInputRankMarks
<1>3. /\ UNCHANGED <<bcasts, received>> /\ AtMark(p, "rank") /\ inComm' = inComm
      /\ rank_non_default_comm_indices_' = rank_non_default_comm_indices_
      /\ rank_non_default_comm_map_' = rank_non_default_comm_map_
      /\ rank_indices_' = LogIndex(p, rank_indices_)
  BY DEF NewInputRank
<1>4. \A f \in Files : SyncedWith(f) => Agrees(f, p, "rank", p)
  BY <1>1, <1>3, OtherMarkAgrees
<1>5. LocalsRight'
  BY <1>1, <1>2, <1>3, LocalsKept
<1>6. RanksRight' /\ rank_indices_' \in Seq(Nat)
  <2>1. CASE p = Focus
    BY <1>1, <2>1, RankMarked
  <2>2. CASE p # Focus
    <3>1. rank_indices_' = rank_indices_
      BY <1>3, <2>2 DEF LogIndex
    <3>2. RanksRight'
      BY <1>1, <1>2, <3>1, RanksKept
    <3> QED BY <1>1, <3>1, <3>2 DEF TypeOK
  <2> QED BY <2>1, <2>2
<1>7. /\ received' \in [Ranks -> Nat] /\ inComm' \subseteq Ranks
      /\ rank_non_default_comm_indices_' \in Seq(Nat)
  BY <1>1, <1>3 DEF TypeOK
<1> QED BY <1>2, <1>3, <1>4, <1>5, <1>6, <1>7, MarkKeeps

LEMMA NewInputWorldSizeSafe ==
    ASSUME IInv, NEW p \in Ranks, NewInputWorldSize(p)
    PROVE  IInv'
<1> DEFINE v == IF HasInput(p) THEN inputs[p][num_inputs_[p] + 1] ELSE NumProcs
<1>1. TypeOK /\ RanksRight /\ LocalsRight
  BY DEF IInv, FocusInv
<1>2. Marking(p, "size", v)
  BY <1>1, NewInputWorldSizeMarks
<1>3. \A f \in Files : SyncedWith(f) => Agrees(f, p, "size", v)
  BY <1>1, WorldSizeAgrees
<1>4. /\ received' = received /\ inComm' = inComm
      /\ UNCHANGED <<rank_indices_, rank_non_default_comm_indices_,
                     rank_non_default_comm_map_>>
  BY DEF NewInputWorldSize
<1> HIDE DEF v
<1>5. RanksRight' /\ LocalsRight'
  BY <1>1, <1>2, <1>4, RanksKept, LocalsKept
<1>6. /\ received' \in [Ranks -> Nat] /\ inComm' \subseteq Ranks
      /\ rank_indices_' \in Seq(Nat) /\ rank_non_default_comm_indices_' \in Seq(Nat)
      /\ rank_non_default_comm_map_' = rank_non_default_comm_map_
  BY <1>1, <1>4 DEF TypeOK
<1> QED BY <1>2, <1>3, <1>5, <1>6, MarkKeeps

LEMMA NewInputLocalSafe ==
    ASSUME IInv, NEW p \in Ranks, NewInputRankNonDefaultComm(p)
    PROVE  IInv'
<1> DEFINE v == IF HasInput(p) THEN inputs[p][num_inputs_[p] + 1] ELSE 0
<1>1. TypeOK /\ RanksRight /\ LocalsRight
  BY DEF IInv, FocusInv
<1>2. Marking(p, "local", v)
  BY <1>1, NewInputLocalMarks
<1>3. /\ UNCHANGED <<bcasts, received>> /\ AtMark(p, "local")
      /\ inComm' = inComm \cup {p} /\ rank_indices_' = rank_indices_
      /\ rank_non_default_comm_map_' = rank_non_default_comm_map_
      /\ rank_non_default_comm_indices_' = LogIndex(p, rank_non_default_comm_indices_)
  BY DEF NewInputRankNonDefaultComm
<1> HIDE DEF v
<1>4. \A f \in Files : SyncedWith(f) => Agrees(f, p, "local", v)
  BY <1>1, <1>3, OtherMarkAgrees
<1>5. RanksRight'
  BY <1>1, <1>2, <1>3, RanksKept
<1>6. LocalsRight' /\ rank_non_default_comm_indices_' \in Seq(Nat)
  <2>1. CASE p = Focus
    BY <1>1, <2>1, LocalMarked
  <2>2. CASE p # Focus
    <3>1. rank_non_default_comm_indices_' = rank_non_default_comm_indices_
          /\ (Focus \in inComm' <=> Focus \in inComm)
      BY <1>3, <2>2 DEF LogIndex
    <3>2. LocalsRight'
      BY <1>1, <1>2, <1>3, <3>1, LocalsKept
    <3> QED BY <1>1, <3>1, <3>2 DEF TypeOK
  <2> QED BY <2>1, <2>2
<1>7. /\ received' \in [Ranks -> Nat] /\ inComm' \subseteq Ranks
      /\ rank_indices_' \in Seq(Nat)
  BY <1>1, <1>3 DEF TypeOK
<1> QED BY <1>2, <1>3, <1>4, <1>5, <1>6, <1>7, MarkKeeps

LEMMA CollectiveSafe ==
    ASSUME IInv, NEW c \in Comms, CrestRankNonDefaultComm2(c)
    PROVE  IInv'
<1>1. TypeOK /\ FocusInv
  BY DEF IInv
<1>2. /\ program' = program /\ num_inputs_' = num_inputs_
      /\ bcasts' = bcasts /\ received' = received /\ inComm' = inComm \ c
      /\ rank_indices_' = rank_indices_
      /\ rank_non_default_comm_indices_' = rank_non_default_comm_indices_
  BY DEF CrestRankNonDefaultComm2
<1>3. Synced'
  BY CollectiveSynced DEF IInv, Synced
<1>4. CASE Focus \in c
  <2>1. /\ FocusInv' /\ inputs' \in [Ranks -> Seq(Int)]
        /\ \A p \in Ranks : Len(inputs'[p]) = Len(inputs[p])
        /\ rank_non_default_comm_map_' \in Seq({Members(d) : d \in Comms})
    BY <1>1, <1>4, CollectiveFocus
  <2>2. TypeOK'
    BY <1>1, <1>2, <2>1 DEF TypeOK
  <2> QED BY <1>3, <2>1, <2>2 DEF IInv
<1>5. CASE Focus \notin c
  <2>1. inputs' = inputs /\ rank_non_default_comm_map_' = rank_non_default_comm_map_
    BY <1>5 DEF CrestRankNonDefaultComm2
  <2>2. TypeOK'
    BY <1>1, <1>2, <2>1 DEF TypeOK
  <2>3. Focus \in inComm' <=> Focus \in inComm
    BY <1>2, <1>5
  <2>4. FocusInv'
    BY <1>1, <1>2, <2>1, <2>3
       DEF FocusInv, RanksRight, LocalsRight, LocalsInOrder, FocusWaits, MapsRight,
           MapsFollowIndices, MarkedAt
  <2> QED BY <1>3, <2>2, <2>4 DEF IInv
<1> QED BY <1>4, <1>5

LEMMA NextIInv == IInv /\ [Next]_vars => IInv'
<1> SUFFICES ASSUME IInv, [Next]_vars
             PROVE  IInv'
  OBVIOUS
<1>1. CASE \E p \in Ranks : Step(p)
  <2> PICK p \in Ranks : Step(p)
    BY <1>1
  <2> QED
    BY NewInputSafe, NewInputRankSafe, NewInputWorldSizeSafe, NewInputLocalSafe
       DEF Step
<1>2. CASE \E c \in Comms : CrestRankNonDefaultComm2(c)
  BY <1>2, CollectiveSafe
<1>3. CASE UNCHANGED vars
  <2>1. TypeOK'
    BY <1>3 DEF vars, focusVars, IInv, TypeOK
  <2>2. FocusInv'
    BY <1>3 DEF vars, focusVars, IInv, FocusInv, RanksRight, LocalsRight,
                LocalsInOrder, FocusWaits, MapsRight, MapsFollowIndices, MarkedAt
  <2>3. ASSUME NEW f, SyncedWith(f)
        PROVE  SyncedWith(f)'
    BY <1>3, <2>3 DEF vars, SyncedWith
  <2>4. Synced'
    BY <2>3 DEF IInv, Synced
  <2> QED BY <2>1, <2>2, <2>4 DEF IInv
<1> QED BY <1>1, <1>2, <1>3 DEF Next, Ended

\* The inductive invariant holds: types, what the focus has recorded of itself,
\* and the values every process owes to the file and to rank 0.
THEOREM IInvHolds == Spec => []IInv
<1>1. Init => IInv
  BY InitIInv
<1>2. IInv /\ [Next]_vars => IInv'
  BY NextIInv
<1> QED BY <1>1, <1>2, PTL DEF Spec

-----------------------------------------------------------------------------
(* The properties.                                                         *)

LEMMA FocusKnown ==
    ASSUME TypeOK, FocusInv
    PROVE  FocusKnowsItself
<1>1. \A n \in DOMAIN rank_indices_ : inputs[Focus][rank_indices_[n] + 1] = Focus
  <2>1. DOMAIN rank_indices_ = 1..Len(rank_indices_)
    BY DEF TypeOK
  <2> QED BY <2>1 DEF FocusInv, RanksRight
<1>2. ASSUME NEW n \in DOMAIN rank_non_default_comm_map_
      PROVE  LET local == inputs[Focus][rank_non_default_comm_indices_[n] + 1]
                 map == rank_non_default_comm_map_[n]
             IN  local + 1 \in DOMAIN map /\ map[local + 1] = Focus
  <2>1. n \in 1..Len(rank_non_default_comm_map_)
    BY <1>2 DEF TypeOK
  <2>2. PICK c \in Comms :
           /\ Focus \in c /\ rank_non_default_comm_map_[n] = Members(c)
           /\ inputs[Focus][rank_non_default_comm_indices_[n] + 1]
               = LocalRank(c, Focus)
    BY <2>1 DEF FocusInv, LocalsRight, MapsRight
  <2> QED BY <2>2, MembersFacts
<1> QED BY <1>1, <1>2 DEF FocusKnowsItself

\* The rank the focus reports is its own, whatever the solver put in the input
\* file, and its rank in a communicator leads through the map of that
\* communicator back to it (symbolic_interpreter.cc NewInputRank; libcrest's
\* __CrestRankNonDefaultComm2).
THEOREM FocusHolds == Spec => []FocusKnowsItself
<1>1. IInv => FocusKnowsItself
  BY FocusKnown DEF IInv
<1> QED BY <1>1, IInvHolds, PTL

\* Two visits of a variable have two numbers.
LEMMA VisitLess ==
    ASSUME NEW marks, NEW k \in Nat, NEW m \in Nat, 1 <= k, k < m,
           marks[k].var = marks[m].var
    PROVE  Cardinality({j \in 1..k : marks[j].var = marks[k].var})
            # Cardinality({j \in 1..m : marks[j].var = marks[m].var})
<1> DEFINE S == {j \in 1..k : marks[j].var = marks[k].var}
           T == {j \in 1..m : marks[j].var = marks[m].var}
<1>1. IsFiniteSet(T)
  <2>1. IsFiniteSet(1..m) /\ T \subseteq 1..m
    BY FS_Interval
  <2> HIDE DEF T
  <2> QED BY <2>1, FS_Subset
<1>2. S \subseteq T /\ m \in T /\ m \notin S
  OBVIOUS
<1> HIDE DEF S, T
<1>3. Cardinality(S) # Cardinality(T)
  BY <1>1, <1>2, FS_Subset
<1> QED BY <1>3 DEF S, T

\* One program for all ranks, which is what a job of the driver runs.
SPMD == \A prog \in Programs : \A p, q \in Ranks : prog[p] = prog[q]

\* When all processes run one program, each has read the same value at the
\* same visit of a mark, however far apart they are
\* (symbolic_interpreter.cc:378-380).
THEOREM ValuesHold ==
    ASSUME SPMD
    PROVE  Spec => []ValuesSynchronized
<1>1. ASSUME IInv
      PROVE  ValuesSynchronized
  <2> SUFFICES ASSUME NEW p \in Ranks, NEW q \in Ranks,
                      NEW k \in Marks(p, {"int", "size"}),
                      NEW m \in Marks(q, {"int", "size"}),
                      program[p][k].var = program[q][m].var,
                      Visit(p, k) = Visit(q, m)
               PROVE  inputs[p][k] = inputs[q][m]
    BY DEF ValuesSynchronized
  <2>1. program[p] = program[q]
    BY <1>1 DEF SPMD, IInv, TypeOK
  <2>2. /\ k \in 1..num_inputs_[p] /\ program[p][k].kind \in {"int", "size"}
        /\ m \in 1..num_inputs_[q] /\ program[q][m].kind \in {"int", "size"}
    BY DEF Marks
  <2>3. k \in Nat /\ m \in Nat /\ 1 <= k /\ 1 <= m
    BY <1>1, <2>2 DEF IInv, TypeOK
  <2>4. program[p][k].var = program[p][m].var
        /\ Cardinality({j \in 1..k : program[p][j].var = program[p][k].var})
            = Cardinality({j \in 1..m : program[p][j].var = program[p][m].var})
    BY <2>1 DEF Visit
  <2>5. ~(k < m)
    BY <2>3, <2>4, VisitLess
  <2>6. ~(m < k)
    BY <2>3, <2>4, VisitLess
  <2>7. k = m
    BY <2>3, <2>5, <2>6
  <2>8. PICK f \in Files : SyncedWith(f)
    BY <1>1 DEF IInv, Synced
  <2>9. inputs[p][k] = InputOf(f, program[p], bcasts, k)
        /\ inputs[q][m] = InputOf(f, program[q], bcasts, m)
    BY <2>2, <2>8 DEF SyncedWith
  <2> QED BY <2>1, <2>7, <2>9
<1>2. IInv => ValuesSynchronized
  BY <1>1
<1> QED BY <1>2, IInvHolds, PTL

-----------------------------------------------------------------------------
(* Nobody waits for ever: what a waiting process waits for will come.      *)

\* The "local" marks up to the k-th, and those of p whose collective is done.
Locals(marks, k) == Cardinality({j \in 1..k : marks[j].kind = "local"})
Passed(p) == Locals(program[p], num_inputs_[p]) - (IF p \in inComm THEN 1 ELSE 0)

\* Processes wait in a communicator at a local mark, and the members of a
\* communicator have been through as many of its collectives.
WaitsAtLocal ==
    \A p \in inComm : /\ num_inputs_[p] >= 1
                      /\ program[p][num_inputs_[p]].kind = "local"
CommInv ==
    /\ WaitsAtLocal
    /\ \A c \in Comms : \A p, q \in c : Passed(p) = Passed(q)

LEMMA LocalsFacts ==
    ASSUME NEW marks, NEW k \in Nat
    PROVE  /\ Locals(marks, k) \in Nat
           /\ Locals(marks, k + 1) = IF marks[k + 1].kind = "local"
                                     THEN Locals(marks, k) + 1
                                     ELSE Locals(marks, k)
<1> DEFINE S == {j \in 1..k : marks[j].kind = "local"}
           T == {j \in 1..(k + 1) : marks[j].kind = "local"}
<1>1. IsFiniteSet(S)
  <2>1. IsFiniteSet(1..k)
    BY FS_Interval
  <2>2. S \subseteq 1..k
    OBVIOUS
  <2> QED BY <2>1, <2>2, FS_Subset
<1>2. k + 1 \notin S
  OBVIOUS
<1>3. marks[k + 1].kind = "local" => T = S \cup {k + 1}
  OBVIOUS
<1>4. marks[k + 1].kind # "local" => T = S
  OBVIOUS
<1>5. Locals(marks, k) = Cardinality(S) /\ Locals(marks, k + 1) = Cardinality(T)
  BY DEF Locals
<1> HIDE DEF S, T
<1>6. Cardinality(S) \in Nat
  BY <1>1, FS_CardinalityType
<1>7. Cardinality(S \cup {k + 1}) = Cardinality(S) + 1
  BY <1>1, <1>2, FS_AddElement
<1> QED BY <1>3, <1>4, <1>5, <1>6, <1>7

LEMMA LocalsGrow ==
    ASSUME NEW marks, NEW k \in Nat, NEW m \in Nat, k <= m
    PROVE  Locals(marks, k) <= Locals(marks, m)
<1> DEFINE S == {j \in 1..k : marks[j].kind = "local"}
           T == {j \in 1..m : marks[j].kind = "local"}
<1>1. IsFiniteSet(1..m)
  BY FS_Interval
<1>2. T \subseteq 1..m /\ S \subseteq T
  OBVIOUS
<1>3. IsFiniteSet(T)
  BY <1>1, <1>2, FS_Subset
<1> HIDE DEF S, T
<1>4. Cardinality(S) <= Cardinality(T)
  BY <1>2, <1>3, FS_Subset
<1> QED BY <1>4 DEF S, T, Locals

\* A mark changes nobody's count: at a local mark the process goes to wait.
LEMMA MarkPasses ==
    ASSUME TypeOK, CommInv, NEW p \in Ranks, NEW kind, NEW v, Marking(p, kind, v),
           inComm' = IF kind = "local" THEN inComm \cup {p} ELSE inComm
    PROVE  CommInv'
<1> DEFINE n == num_inputs_[p]
<1>1. /\ n \in Nat /\ p \notin inComm /\ program[p][n + 1].kind = kind
      /\ program' = program /\ num_inputs_'[p] = n + 1
      /\ \A q \in Ranks : q # p => num_inputs_'[q] = num_inputs_[q]
  BY AtMarkFacts DEF Marking, TypeOK
<1>2. WaitsAtLocal'
  <2> SUFFICES ASSUME NEW q \in inComm'
               PROVE  /\ num_inputs_'[q] >= 1
                      /\ program'[q][num_inputs_'[q]].kind = "local"
    BY DEF WaitsAtLocal
  <2>1. CASE q = p
    BY <1>1, <2>1
  <2>2. CASE q # p
    <3>1. q \in inComm /\ q \in Ranks
      BY <2>2 DEF TypeOK
    <3> QED BY <1>1, <2>2, <3>1 DEF CommInv, WaitsAtLocal
  <2> QED BY <2>1, <2>2
<1>3. ASSUME NEW q \in Ranks PROVE Passed(q)' = Passed(q)
  <2>1. CASE q = p
    <3>1. /\ Locals(program[p], n) \in Nat
          /\ Locals(program[p], n + 1)
               = IF kind = "local" THEN Locals(program[p], n) + 1
                 ELSE Locals(program[p], n)
      BY <1>1, LocalsFacts
    <3>2. Passed(p) = Locals(program[p], n)
      BY <1>1, <3>1 DEF Passed
    <3>3. Passed(p)' = Locals(program[p], n + 1) - (IF kind = "local" THEN 1 ELSE 0)
      BY <1>1 DEF Passed
    <3> QED BY <2>1, <3>1, <3>2, <3>3
  <2>2. CASE q # p
    BY <1>1, <2>2 DEF Passed
  <2> QED BY <2>1, <2>2
<1>4. \A c \in Comms : c \subseteq Ranks
  BY MarkingAssumption
<1>5. ASSUME NEW c \in Comms, NEW q \in c, NEW r \in c
      PROVE  Passed(q)' = Passed(r)'
  <2>1. Passed(q) = Passed(r) /\ q \in Ranks /\ r \in Ranks
    BY <1>4 DEF CommInv
  <2> QED BY <1>3, <2>1
<1> QED BY <1>2, <1>5 DEF CommInv

\* A collective raises the counts of all its members.
LEMMA CollectivePasses ==
    ASSUME TypeOK, CommInv, NEW c \in Comms, CrestRankNonDefaultComm2(c)
    PROVE  CommInv'
<1>1. /\ program' = program /\ num_inputs_' = num_inputs_
      /\ inComm' = inComm \ c /\ c \subseteq inComm
  BY DEF CrestRankNonDefaultComm2
<1>2. WaitsAtLocal'
  BY <1>1 DEF CommInv, WaitsAtLocal
<1>3. \A p \in Ranks : Locals(program[p], num_inputs_[p]) \in Nat
  <2>1. \A p \in Ranks : num_inputs_[p] \in Nat
    BY DEF TypeOK
  <2> QED BY <2>1, LocalsFacts
<1>4. ASSUME NEW d \in Comms, NEW p \in d, NEW q \in d
      PROVE  Passed(p)' = Passed(q)'
  <2>1. p \in Ranks /\ q \in Ranks /\ Passed(p) = Passed(q)
    BY MarkingAssumption DEF CommInv
  <2>2. d = c \/ d \cap c = {}
    BY MarkingAssumption
  <2>3. CASE d = c
    <3>1. \A r \in c : /\ Passed(r) = Locals(program[r], num_inputs_[r]) - 1
                       /\ Passed(r)' = Locals(program[r], num_inputs_[r]) - 0
      BY <1>1 DEF Passed
    <3> QED BY <1>3, <2>1, <2>3, <3>1
  <2>4. CASE d \cap c = {}
    <3>1. \A r \in d : Passed(r)' = Passed(r)
      BY <1>1, <2>4 DEF Passed
    <3> QED BY <2>1, <3>1
  <2> QED BY <2>2, <2>3, <2>4
<1> QED BY <1>2, <1>4 DEF CommInv

LEMMA CommInvariant == Spec => []CommInv
<1>1. ASSUME Init PROVE CommInv
  <2>1. ASSUME NEW p \in Ranks PROVE Passed(p) = 0
    <3>1. {j \in 1..0 : program[p][j].kind = "local"} = {}
      OBVIOUS
    <3>2. Locals(program[p], 0) = 0
      BY <3>1, FS_EmptySet DEF Locals
    <3>3. num_inputs_[p] = 0 /\ inComm = {}
      BY <1>1 DEF Init
    <3> QED BY <3>2, <3>3 DEF Passed
  <2>2. \A c \in Comms : c \subseteq Ranks
    BY MarkingAssumption
  <2>3. \A c \in Comms : \A p, q \in c : Passed(p) = Passed(q)
    BY <2>1, <2>2
  <2>4. WaitsAtLocal
    BY <1>1 DEF Init, WaitsAtLocal
  <2> QED BY <2>3, <2>4 DEF CommInv
<1>2. ASSUME IInv, CommInv, [Next]_vars PROVE CommInv'
  <2>1. TypeOK
    BY <1>2 DEF IInv
  <2>2. ASSUME NEW p \in Ranks, Step(p) PROVE CommInv'
    <3>1. ASSUME NEW ret, NewInput(p, ret) PROVE CommInv'
      <4>1. Marking(p, "int", IF HasInput(p) THEN inputs[p][num_inputs_[p] + 1]
                              ELSE ret)
        BY <2>1, <3>1, NewInputMarks
      <4>2. inComm' = inComm
        BY <3>1 DEF NewInput
      <4> QED BY <1>2, <2>1, <4>1, <4>2, MarkPasses
    <3>2. ASSUME NewInputRank(p) PROVE CommInv'
      <4>1. Marking(p, "rank", p) /\ inComm' = inComm
        BY <2>1, <3>2, NewInputRankMarks DEF NewInputRank
      <4> QED BY <1>2, <2>1, <4>1, MarkPasses
    <3>3. ASSUME NewInputWorldSize(p) PROVE CommInv'
      <4>1. Marking(p, "size", IF HasInput(p) THEN inputs[p][num_inputs_[p] + 1]
                               ELSE NumProcs)
        BY <2>1, <3>3, NewInputWorldSizeMarks
      <4>2. inComm' = inComm
        BY <3>3 DEF NewInputWorldSize
      <4> QED BY <1>2, <2>1, <4>1, <4>2, MarkPasses
    <3>4. ASSUME NewInputRankNonDefaultComm(p) PROVE CommInv'
      <4>1. Marking(p, "local", IF HasInput(p) THEN inputs[p][num_inputs_[p] + 1]
                                ELSE 0)
        BY <2>1, <3>4, NewInputLocalMarks
      <4>2. inComm' = inComm \cup {p}
        BY <3>4 DEF NewInputRankNonDefaultComm
      <4> QED BY <1>2, <2>1, <4>1, <4>2, MarkPasses
    <3> QED BY <2>2, <3>1, <3>2, <3>3, <3>4 DEF Step
  <2>3. CASE UNCHANGED vars
    BY <1>2, <2>3 DEF vars, CommInv, WaitsAtLocal, Passed
  <2> QED BY <1>2, <2>1, <2>2, <2>3, CollectivePasses DEF Next, Ended
<1> QED BY <1>1, <1>2, IInvHolds, PTL DEF Spec

\* Every process is in some communicator that its local marks are made in.
LocalsInComms ==
    \A prog \in Programs : \A p \in Ranks : \A m \in Range(prog[p]) :
        m.kind = "local" => \E c \in Comms : p \in c

LEMMA NatLeast ==
    ASSUME NEW T \in SUBSET Nat, T # {}
    PROVE  \E x \in T : \A y \in T : x <= y
<1>1. PICK x \in T : \A y \in T : <<y, x>> \notin OpToRel(<, Nat)
  BY NatLessThanWellFounded, WFMin
<1>2. \A y \in T : ~(y < x)
  BY <1>1 DEF OpToRel
<1> QED BY <1>2

\* A process that is behind all others cannot wait in a communicator: who is
\* missing there would be farther behind.
LEMMA LastNotInComm ==
    ASSUME SPMD, LocalsInComms, TypeOK, CommInv, NEW p \in inComm,
           \A q \in Ranks : ~Finished(q) => num_inputs_[p] <= num_inputs_[q]
    PROVE  \E c \in Comms : c # {} /\ c \subseteq inComm
<1> DEFINE marks == program[p]
           n == num_inputs_[p]
<1>1. p \in Ranks /\ program \in Programs /\ n \in Nat /\ n >= 1 /\ n <= Len(marks)
      /\ marks[n].kind = "local"
  BY DEF TypeOK, CommInv, WaitsAtLocal
<1>2. marks \in Seq(Range(marks))
  BY <1>1, MarkingAssumption
<1>3. marks[n] \in Range(marks)
  <2>1. n \in DOMAIN marks
    BY <1>1, <1>2
  <2> QED BY <2>1 DEF Range
<1>4. PICK c \in Comms : p \in c
  BY <1>1, <1>3 DEF LocalsInComms
<1> SUFFICES ASSUME NEW q \in c, q \notin inComm PROVE FALSE
  BY <1>4
<1>5. q \in Ranks /\ program[q] = marks /\ num_inputs_[q] \in Nat
      /\ num_inputs_[q] <= Len(program[q]) /\ Passed(q) = Passed(p)
  BY <1>1, <1>4, MarkingAssumption DEF SPMD, TypeOK, CommInv
<1> DEFINE k == num_inputs_[q]
<1>6. Locals(marks, k) \in Nat /\ Locals(marks, n) \in Nat
  BY <1>1, <1>5, LocalsFacts
<1>7. Locals(marks, k) = Locals(marks, n) - 1
  BY <1>5, <1>6 DEF Passed
<1>8. k < n
  <2> SUFFICES ASSUME n <= k PROVE FALSE
    BY <1>1, <1>5
  <2>1. Locals(marks, n) <= Locals(marks, k)
    BY <1>1, <1>5, LocalsGrow
  <2> QED BY <1>6, <1>7, <2>1
<1>9. ~Finished(q)
  <2>1. Len(program[q]) = Len(marks) /\ Len(marks) \in Nat
    BY <1>2, <1>5
  <2> QED BY <1>1, <1>5, <1>8, <2>1 DEF Finished
<1> QED BY <1>1, <1>5, <1>8, <1>9

\* A process behind all others waits for no broadcast that rank 0 has yet to
\* reach: rank 0 is at the same mark.
LEMMA LastHasBroadcast ==
    ASSUME SPMD, TypeOK, Synced, NEW p \in Ranks, ~Finished(p), p \notin inComm,
           \A q \in Ranks : ~Finished(q) => num_inputs_[p] <= num_inputs_[q],
           Current(p).kind = "int", ~HasInput(p), Len(bcasts) <= received[p]
    PROVE  num_inputs_[0] = num_inputs_[p] /\ program[0] = program[p]
<1> DEFINE marks == program[p]
           n == num_inputs_[p]
           k == num_inputs_[0]
<1>1. 0 \in Ranks
  BY MarkingAssumption DEF Ranks
<1>2. PICK f \in Files : SyncedWith(f)
  BY DEF Synced
<1> DEFINE m == Len(f)
<1>3. m \in Nat
  BY MarkingAssumption
<1>4. /\ n \in Nat /\ k \in Nat /\ n <= Len(marks) /\ k <= Len(program[0])
      /\ program[0] = marks /\ Len(inputs[p]) \in Nat
  BY <1>1 DEF SPMD, TypeOK
<1>5. Len(marks) \in Nat
  <2>1. marks \in Seq(Range(marks))
    BY MarkingAssumption DEF TypeOK
  <2> QED BY <2>1
<1>6. n # Len(marks) /\ marks[n + 1].kind = "int"
  BY DEF Finished, Current
<1>7. m <= Len(inputs[p]) /\ received[p] = Draws(marks, m, n)
      /\ Len(bcasts) = received[0] /\ received[0] = Draws(marks, m, k)
  BY <1>1, <1>2, <1>4 DEF SyncedWith
<1>8. n + 1 > m
  BY <1>3, <1>4, <1>7 DEF HasInput
<1> HIDE DEF m
<1>9. /\ Draws(marks, m, n) \in Nat /\ Draws(marks, m, k) \in Nat
      /\ Draws(marks, m, n + 1) = Draws(marks, m, n) + 1
  BY <1>3, <1>4, <1>6, <1>8, DrawsFacts
<1>10. k <= n
  <2> SUFFICES ASSUME n + 1 <= k PROVE FALSE
    BY <1>4
  <2>1. Draws(marks, m, n + 1) <= Draws(marks, m, k)
    BY <1>3, <1>4, DrawsGrow
  <2> QED BY <1>7, <1>9, <2>1
<1>11. ~Finished(0)
  BY <1>4, <1>5, <1>6, <1>10 DEF Finished
<1>12. n <= k
  BY <1>1, <1>11
<1> QED BY <1>4, <1>10, <1>12

\* When all ranks run one program and every process has the communicators its
\* local marks are made in, no state of a job is a deadlock: as long as one
\* process has a mark left, some process can take its step or some collective
\* has all its members (the MPI_Bcast of symbolic_interpreter.cc:383 and the
\* collectives of libcrest's __CrestRankNonDefaultComm2).
THEOREM NoDeadlock ==
    ASSUME SPMD, LocalsInComms
    PROVE  Spec => []NobodyStuck
<1>1. ASSUME IInv, CommInv PROVE NobodyStuck
  <2> SUFFICES ASSUME \E p \in Ranks : ~Finished(p),
                      \A c \in Comms : ~(c # {} /\ c \subseteq inComm)
               PROVE  \E p \in Ranks : Ready(p)
    BY DEF NobodyStuck
  <2>1. TypeOK /\ Synced
    BY <1>1 DEF IInv
  <2>2. PICK p \in Ranks :
           /\ ~Finished(p)
           /\ \A q \in Ranks : ~Finished(q) => num_inputs_[p] <= num_inputs_[q]
    <3> DEFINE T == {num_inputs_[q] : q \in {r \in Ranks : ~Finished(r)}}
    <3>1. T \subseteq Nat /\ T # {}
      BY <2>1 DEF TypeOK
    <3>2. PICK x \in T : \A y \in T : x <= y
      BY <3>1, NatLeast
    <3> QED BY <3>2
  <2>3. p \notin inComm
    BY <1>1, <2>1, <2>2, LastNotInComm
  <2>4. CASE Ready(p)
    BY <2>4
  <2>5. CASE ~Ready(p)
    <3>1. /\ Current(p).kind = "int" /\ ~HasInput(p)
          /\ ~(Len(bcasts) > received[p])
      BY <2>2, <2>3, <2>5 DEF Ready
    <3>2. Len(bcasts) <= received[p]
      <4>1. Len(bcasts) \in Nat /\ received[p] \in Nat
        BY <2>1 DEF TypeOK
      <4> QED BY <3>1, <4>1
    <3>3. num_inputs_[0] = num_inputs_[p] /\ program[0] = program[p]
      BY <2>1, <2>2, <2>3, <3>1, <3>2, LastHasBroadcast
    <3>4. 0 \in Ranks
      BY MarkingAssumption DEF Ranks
    <3>5. 0 \notin inComm
      BY <1>1, <2>1, <2>2, <3>3, LastNotInComm
    <3>6. ~Finished(0)
      BY <2>2, <2>3, <3>3 DEF Finished
    <3>7. Ready(0)
      BY <3>5, <3>6 DEF Ready
    <3> QED BY <3>4, <3>7
  <2> QED BY <2>4, <2>5
<1>2. IInv /\ CommInv => NobodyStuck
  BY <1>1
<1> QED BY <1>2, IInvHolds, CommInvariant, PTL
=============================================================================
