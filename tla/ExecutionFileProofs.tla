------------------------- MODULE ExecutionFileProofs -------------------------
(***************************************************************************)
(* What two objects hold after any number of jobs, whole files, cut files  *)
(* and jobs that left no file, for every set of shapes and bounds.         *)
(***************************************************************************)
EXTENDS ExecutionFile, FiniteSetTheorems, TLAPS

-----------------------------------------------------------------------------
(* Where Serialize puts what.                                              *)

Preds == [job : Nat, vars : SUBSET Nat, state : {"live", "deleted", "null"}]
ItemSet == Nat \cup (Int \X Int) \cup Seq(Int) \cup Preds

\* The types of an execution, and the fields it has.
Typed(e) ==
    /\ e.inputs \in Seq(Nat) /\ e.tag \in Nat
    /\ e.limits \in Seq(Int \X Int) /\ e.map \in Seq(Seq(Int))
    /\ e.ranks \in Seq(Nat) /\ e.comms \in Seq(Nat) /\ e.sizes \in Seq(Nat)
    /\ e.branches \in Seq(Nat) /\ e.idx \in Seq(Nat)
    /\ e.constraints \in Seq(Preds) /\ Len(e.idx) = Len(e.constraints)

\* Position p of t holds the length of q, and q follows.
SectionAt(t, p, q) ==
    /\ p \in Nat \ {0} /\ p + Len(q) <= Len(t)
    /\ t[p] = Len(q)
    /\ \A i \in 1..Len(q) : t[p + i] = q[i]

LimitsAt(e) == Len(e.inputs) + 3
RanksAt(e) == LimitsAt(e) + Len(e.limits) + 1
CommsAt(e) == RanksAt(e) + Len(e.ranks) + 1
MapAt(e) == CommsAt(e) + Len(e.comms) + 1
SizesAt(e) == MapAt(e) + Len(e.map) + 1
BranchesAt(e) == SizesAt(e) + Len(e.sizes) + 1
CountAt(e) == BranchesAt(e) + Len(e.branches) + 1
End(e) == CountAt(e) + Len(e.constraints) + Len(e.constraints)

IndicesLaid(t, e) ==
    /\ SectionAt(t, 1, e.inputs) /\ t[Len(e.inputs) + 2] = e.tag
    /\ SectionAt(t, LimitsAt(e), e.limits)
    /\ SectionAt(t, RanksAt(e), e.ranks)
    /\ SectionAt(t, CommsAt(e), e.comms)
    /\ SectionAt(t, MapAt(e), e.map)
    /\ SectionAt(t, SizesAt(e), e.sizes)

Laid(t, e) ==
    /\ IndicesLaid(t, e)
    /\ SectionAt(t, BranchesAt(e), e.branches)
    /\ SectionAt(t, CountAt(e), e.idx)
    /\ \A i \in 1..Len(e.constraints) :
          t[CountAt(e) + Len(e.constraints) + i] = e.constraints[i]
    /\ Len(t) = End(e)

LEMMA SeqOfMore ==
    ASSUME NEW S, NEW T, S \subseteq T, NEW q \in Seq(S)
    PROVE  q \in Seq(T)
  OBVIOUS

LEMMA ConcatFacts ==
    ASSUME NEW S, NEW a \in Seq(S), NEW b \in Seq(S)
    PROVE  /\ a \o b \in Seq(S) /\ Len(a \o b) = Len(a) + Len(b)
           /\ \A i \in 1..Len(a) : (a \o b)[i] = a[i]
           /\ \A i \in 1..Len(b) : (a \o b)[Len(a) + i] = b[i]
  OBVIOUS

LEMMA FramedFacts ==
    ASSUME NEW q \in Seq(ItemSet)
    PROVE  /\ Framed(q) \in Seq(ItemSet) /\ Len(Framed(q)) = 1 + Len(q)
           /\ SectionAt(Framed(q), 1, q)
<1>1. Len(q) \in Nat /\ <<Len(q)>> \in Seq(ItemSet)
  BY DEF ItemSet
<1>2. Len(<<Len(q)>>) = 1 /\ <<Len(q)>>[1] = Len(q)
  OBVIOUS
<1> QED
  BY <1>1, <1>2, ConcatFacts DEF Framed, SectionAt

\* What lies in a stays where it is when b is appended.
LEMMA SectionStays ==
    ASSUME NEW S, NEW a \in Seq(S), NEW b \in Seq(S), NEW T, NEW q \in Seq(T),
           NEW p, SectionAt(a, p, q)
    PROVE  SectionAt(a \o b, p, q)
<1>1. p \in Nat \ {0} /\ p + Len(q) <= Len(a) /\ Len(q) \in Nat /\ Len(a) \in Nat
      /\ Len(b) \in Nat
  BY DEF SectionAt
<1>2. p \in 1..Len(a) /\ \A i \in 1..Len(q) : p + i \in 1..Len(a)
  BY <1>1
<1>3. Len(a \o b) = Len(a) + Len(b) /\ \A i \in 1..Len(a) : (a \o b)[i] = a[i]
  BY ConcatFacts
<1>4. p + Len(q) <= Len(a \o b)
  BY <1>1, <1>3
<1> QED
  BY <1>1, <1>2, <1>3, <1>4 DEF SectionAt

\* A section appended to a, or put behind it, begins where a ends.
LEMMA SectionMoves ==
    ASSUME NEW S, NEW a \in Seq(S), NEW b \in Seq(S), NEW T, NEW q \in Seq(T),
           NEW p, SectionAt(b, p, q)
    PROVE  SectionAt(a \o b, Len(a) + p, q)
<1>1. p \in Nat \ {0} /\ p + Len(q) <= Len(b) /\ Len(q) \in Nat /\ Len(a) \in Nat
      /\ Len(b) \in Nat
  BY DEF SectionAt
<1>2. p \in 1..Len(b) /\ \A i \in 1..Len(q) : p + i \in 1..Len(b)
  BY <1>1
<1>3. Len(a \o b) = Len(a) + Len(b)
      /\ \A i \in 1..Len(b) : (a \o b)[Len(a) + i] = b[i]
  BY ConcatFacts
<1>4. Len(a) + p + Len(q) <= Len(a \o b) /\ Len(a) + p \in Nat \ {0}
  BY <1>1, <1>3
<1>5. \A i \in 1..Len(q) : Len(a) + p + i = Len(a) + (p + i)
  BY <1>1
<1> QED
  BY <1>1, <1>2, <1>3, <1>4, <1>5 DEF SectionAt

LEMMA FramedAppends ==
    ASSUME NEW a \in Seq(ItemSet), NEW q \in Seq(ItemSet)
    PROVE  /\ a \o Framed(q) \in Seq(ItemSet)
           /\ Len(a \o Framed(q)) = Len(a) + 1 + Len(q)
           /\ SectionAt(a \o Framed(q), Len(a) + 1, q)
<1>1. Framed(q) \in Seq(ItemSet) /\ Len(Framed(q)) = 1 + Len(q)
      /\ SectionAt(Framed(q), 1, q)
  BY FramedFacts
<1>2. SectionAt(a \o Framed(q), Len(a) + 1, q)
  BY <1>1, SectionMoves
<1>3. a \o Framed(q) \in Seq(ItemSet)
      /\ Len(a \o Framed(q)) = Len(a) + Len(Framed(q))
  BY <1>1, ConcatFacts
<1>4. Len(a) \in Nat /\ Len(q) \in Nat
  OBVIOUS
<1> QED
  BY <1>1, <1>2, <1>3, <1>4

LEMMA ItemSequences ==
    ASSUME NEW e, Typed(e)
    PROVE  /\ {e.inputs, e.limits, e.ranks, e.comms, e.map, e.sizes, e.branches,
               e.idx, e.constraints} \subseteq Seq(ItemSet)
           /\ e.tag \in ItemSet /\ Len(e.constraints) \in ItemSet
<1>1. Nat \subseteq ItemSet /\ (Int \X Int) \subseteq ItemSet
      /\ Seq(Int) \subseteq ItemSet /\ Preds \subseteq ItemSet
  BY DEF ItemSet
<1>2. e.limits \in Seq(ItemSet) /\ e.map \in Seq(ItemSet)
      /\ e.constraints \in Seq(ItemSet)
  BY <1>1, SeqOfMore DEF Typed
<1>3. \A q \in Seq(Nat) : q \in Seq(ItemSet)
  BY <1>1, SeqOfMore
<1>4. e.tag \in ItemSet /\ Len(e.constraints) \in Nat
  BY <1>1 DEF Typed
<1> QED
  BY <1>1, <1>2, <1>3, <1>4 DEF Typed

LEMMA LengthTypes ==
    ASSUME NEW e, Typed(e)
    PROVE  /\ Len(e.inputs) \in Nat /\ Len(e.limits) \in Nat
           /\ Len(e.ranks) \in Nat /\ Len(e.comms) \in Nat
           /\ Len(e.map) \in Nat /\ Len(e.sizes) \in Nat
           /\ Len(e.branches) \in Nat /\ Len(e.constraints) \in Nat
           /\ LimitsAt(e) \in Nat /\ RanksAt(e) \in Nat /\ CommsAt(e) \in Nat
           /\ MapAt(e) \in Nat /\ SizesAt(e) \in Nat /\ BranchesAt(e) \in Nat
           /\ CountAt(e) \in Nat /\ End(e) \in Nat
           /\ Len(e.inputs) + 3 <= LimitsAt(e) /\ LimitsAt(e) < RanksAt(e)
           /\ RanksAt(e) < CommsAt(e) /\ CommsAt(e) < MapAt(e)
           /\ MapAt(e) < SizesAt(e) /\ SizesAt(e) < BranchesAt(e)
           /\ BranchesAt(e) < CountAt(e) /\ CountAt(e) <= End(e)
<1>1. /\ e.inputs \in Seq(Nat) /\ e.limits \in Seq(Int \X Int)
      /\ e.ranks \in Seq(Nat) /\ e.comms \in Seq(Nat)
      /\ e.map \in Seq(Seq(Int)) /\ e.sizes \in Seq(Nat)
      /\ e.branches \in Seq(Nat) /\ e.constraints \in Seq(Preds)
  BY DEF Typed
<1>2. \A S : \A q \in Seq(S) : Len(q) \in Nat
  OBVIOUS
<1>3. Len(e.inputs) \in Nat /\ Len(e.limits) \in Nat
      /\ Len(e.ranks) \in Nat /\ Len(e.comms) \in Nat
      /\ Len(e.map) \in Nat /\ Len(e.sizes) \in Nat
      /\ Len(e.branches) \in Nat /\ Len(e.constraints) \in Nat
  BY <1>1, <1>2, Zenon
<1> DEFINE i == Len(e.inputs)
           l == Len(e.limits)
           r == Len(e.ranks)
           k == Len(e.comms)
           m == Len(e.map)
           s == Len(e.sizes)
           b == Len(e.branches)
           c == Len(e.constraints)
<1>4. i \in Nat /\ l \in Nat /\ r \in Nat /\ k \in Nat /\ m \in Nat /\ s \in Nat
      /\ b \in Nat /\ c \in Nat
  BY <1>3
<1>5. /\ LimitsAt(e) = i + 3 /\ RanksAt(e) = LimitsAt(e) + l + 1
      /\ CommsAt(e) = RanksAt(e) + r + 1 /\ MapAt(e) = CommsAt(e) + k + 1
      /\ SizesAt(e) = MapAt(e) + m + 1 /\ BranchesAt(e) = SizesAt(e) + s + 1
      /\ CountAt(e) = BranchesAt(e) + b + 1 /\ End(e) = CountAt(e) + c + c
  BY Zenon DEF LimitsAt, RanksAt, CommsAt, MapAt, SizesAt, BranchesAt, CountAt, End
<1> HIDE DEF i, l, r, k, m, s, b, c
<1>6. LimitsAt(e) \in Nat /\ i + 3 <= LimitsAt(e)
  BY <1>4, <1>5
<1>7. RanksAt(e) \in Nat /\ LimitsAt(e) < RanksAt(e)
  BY <1>4, <1>5, <1>6
<1>8. CommsAt(e) \in Nat /\ RanksAt(e) < CommsAt(e)
  BY <1>4, <1>5, <1>7
<1>9. MapAt(e) \in Nat /\ CommsAt(e) < MapAt(e)
  BY <1>4, <1>5, <1>8
<1>10. SizesAt(e) \in Nat /\ MapAt(e) < SizesAt(e)
  BY <1>4, <1>5, <1>9
<1>11. BranchesAt(e) \in Nat /\ SizesAt(e) < BranchesAt(e)
  BY <1>4, <1>5, <1>10
<1>12. CountAt(e) \in Nat /\ BranchesAt(e) < CountAt(e)
  BY <1>4, <1>5, <1>11
<1>13. End(e) \in Nat /\ CountAt(e) <= End(e)
  BY <1>4, <1>5, <1>12
<1> QED
  BY <1>3, <1>6, <1>7, <1>8, <1>9, <1>10, <1>11, <1>12, <1>13 DEF i

\* The indices, in the order in which Serialize writes them.
LEMMA IndicesWritten ==
    ASSUME NEW e, Typed(e)
    PROVE  /\ SerializeIndices(e) \in Seq(ItemSet)
           /\ Len(SerializeIndices(e)) = BranchesAt(e) - 1
           /\ IndicesLaid(SerializeIndices(e), e)
<1> DEFINE a1 == Framed(e.inputs)
           a2 == a1 \o <<e.tag>>
           a3 == a2 \o Framed(e.limits)
           a4 == a3 \o Framed(e.ranks)
           a5 == a4 \o Framed(e.comms)
           a6 == a5 \o Framed(e.map)
           a7 == a6 \o Framed(e.sizes)
           I == Len(e.inputs)
<1>1. /\ e.inputs \in Seq(ItemSet) /\ e.limits \in Seq(ItemSet)
      /\ e.ranks \in Seq(ItemSet) /\ e.comms \in Seq(ItemSet)
      /\ e.map \in Seq(ItemSet) /\ e.sizes \in Seq(ItemSet)
      /\ e.tag \in ItemSet
  BY ItemSequences
<1>2. SerializeIndices(e) = a7
  BY DEF SerializeIndices
<1>3. a1 \in Seq(ItemSet) /\ Len(a1) = 1 + I /\ SectionAt(a1, 1, e.inputs)
  BY <1>1, FramedFacts
<1>4. <<e.tag>> \in Seq(ItemSet) /\ Len(<<e.tag>>) = 1 /\ <<e.tag>>[1] = e.tag
  BY <1>1
<1>5. a2 \in Seq(ItemSet) /\ Len(a2) = LimitsAt(e) - 1
      /\ SectionAt(a2, 1, e.inputs) /\ a2[I + 2] = e.tag
  <2>1. a2 \in Seq(ItemSet) /\ Len(a2) = Len(a1) + 1 /\ a2[Len(a1) + 1] = e.tag
    <3> HIDE DEF a1
    <3> QED BY <1>3, <1>4, ConcatFacts
  <2>2. SectionAt(a2, 1, e.inputs)
    <3> HIDE DEF a1
    <3> QED BY <1>1, <1>3, <1>4, SectionStays
  <2>3. Len(a1) + 1 = I + 2 /\ I + 2 = LimitsAt(e) - 1
    BY <1>3, LengthTypes DEF LimitsAt
  <2> QED BY <2>1, <2>2, <2>3
<1> HIDE DEF a1, a2
<1>6. a3 \in Seq(ItemSet) /\ Len(a3) = RanksAt(e) - 1
      /\ SectionAt(a3, 1, e.inputs) /\ a3[I + 2] = e.tag
      /\ SectionAt(a3, LimitsAt(e), e.limits)
  <2>1. a3 \in Seq(ItemSet) /\ Len(a3) = Len(a2) + 1 + Len(e.limits)
        /\ SectionAt(a3, Len(a2) + 1, e.limits) /\ Framed(e.limits) \in Seq(ItemSet)
    BY <1>1, <1>5, FramedAppends, FramedFacts
  <2>2. SectionAt(a3, 1, e.inputs)
    BY <1>1, <1>5, <2>1, SectionStays
  <2>3. Len(a2) + 1 = LimitsAt(e) /\ Len(a2) + 1 + Len(e.limits) = RanksAt(e) - 1
        /\ I + 2 \in 1..Len(a2)
    BY <1>5, LengthTypes DEF LimitsAt, RanksAt
  <2>4. a3[I + 2] = e.tag
    BY <1>5, <2>1, <2>3, ConcatFacts
  <2> QED BY <2>1, <2>2, <2>3, <2>4
<1> HIDE DEF a3
<1>7. a4 \in Seq(ItemSet) /\ Len(a4) = CommsAt(e) - 1
      /\ SectionAt(a4, 1, e.inputs) /\ a4[I + 2] = e.tag
      /\ SectionAt(a4, LimitsAt(e), e.limits)
      /\ SectionAt(a4, RanksAt(e), e.ranks)
  <2>1. a4 \in Seq(ItemSet) /\ Len(a4) = Len(a3) + 1 + Len(e.ranks)
        /\ SectionAt(a4, Len(a3) + 1, e.ranks) /\ Framed(e.ranks) \in Seq(ItemSet)
    BY <1>1, <1>6, FramedAppends, FramedFacts
  <2>2. SectionAt(a4, 1, e.inputs) /\ SectionAt(a4, LimitsAt(e), e.limits)
    BY <1>1, <1>6, <2>1, SectionStays
  <2>3. Len(a3) + 1 = RanksAt(e) /\ Len(a3) + 1 + Len(e.ranks) = CommsAt(e) - 1
        /\ I + 2 \in 1..Len(a3)
    <3> DEFINE n == Len(a3)
    <3>1. n = RanksAt(e) - 1 /\ I \in Nat /\ I + 3 <= LimitsAt(e)
      BY <1>6, LengthTypes
    <3> HIDE DEF n, I
    <3>2. n + 1 = RanksAt(e) /\ I + 2 \in 1..n
      BY <3>1, LengthTypes
    <3>3. CommsAt(e) - 1 = RanksAt(e) + Len(e.ranks)
      BY LengthTypes DEF CommsAt
    <3> QED BY <3>1, <3>2, <3>3, LengthTypes DEF n, I
  <2>4. a4[I + 2] = e.tag
    BY <1>6, <2>1, <2>3, ConcatFacts
  <2> QED BY <2>1, <2>2, <2>3, <2>4
<1> HIDE DEF a4
<1>8. a5 \in Seq(ItemSet) /\ Len(a5) = MapAt(e) - 1
      /\ SectionAt(a5, 1, e.inputs) /\ a5[I + 2] = e.tag
      /\ SectionAt(a5, LimitsAt(e), e.limits)
      /\ SectionAt(a5, RanksAt(e), e.ranks) /\ SectionAt(a5, CommsAt(e), e.comms)
  <2>1. a5 \in Seq(ItemSet) /\ Len(a5) = Len(a4) + 1 + Len(e.comms)
        /\ SectionAt(a5, Len(a4) + 1, e.comms) /\ Framed(e.comms) \in Seq(ItemSet)
    BY <1>1, <1>7, FramedAppends, FramedFacts
  <2>2. SectionAt(a5, 1, e.inputs) /\ SectionAt(a5, LimitsAt(e), e.limits)
        /\ SectionAt(a5, RanksAt(e), e.ranks)
    BY <1>1, <1>7, <2>1, SectionStays
  <2>3. Len(a4) + 1 = CommsAt(e) /\ Len(a4) + 1 + Len(e.comms) = MapAt(e) - 1
        /\ I + 2 \in 1..Len(a4)
    <3> DEFINE n == Len(a4)
    <3>1. n = CommsAt(e) - 1 /\ I \in Nat /\ I + 3 <= LimitsAt(e)
      BY <1>7, LengthTypes
    <3> HIDE DEF n, I
    <3>2. n + 1 = CommsAt(e) /\ I + 2 \in 1..n
      BY <3>1, LengthTypes
    <3>3. MapAt(e) - 1 = CommsAt(e) + Len(e.comms)
      BY LengthTypes DEF MapAt
    <3> QED BY <3>1, <3>2, <3>3, LengthTypes DEF n, I
  <2>4. a5[I + 2] = e.tag
    BY <1>7, <2>1, <2>3, ConcatFacts
  <2> QED BY <2>1, <2>2, <2>3, <2>4
<1> HIDE DEF a5
<1>9. a6 \in Seq(ItemSet) /\ Len(a6) = SizesAt(e) - 1
      /\ SectionAt(a6, 1, e.inputs) /\ a6[I + 2] = e.tag
      /\ SectionAt(a6, LimitsAt(e), e.limits)
      /\ SectionAt(a6, RanksAt(e), e.ranks) /\ SectionAt(a6, CommsAt(e), e.comms)
      /\ SectionAt(a6, MapAt(e), e.map)
  <2>1. a6 \in Seq(ItemSet) /\ Len(a6) = Len(a5) + 1 + Len(e.map)
        /\ SectionAt(a6, Len(a5) + 1, e.map) /\ Framed(e.map) \in Seq(ItemSet)
    BY <1>1, <1>8, FramedAppends, FramedFacts
  <2>2. SectionAt(a6, 1, e.inputs) /\ SectionAt(a6, LimitsAt(e), e.limits)
        /\ SectionAt(a6, RanksAt(e), e.ranks) /\ SectionAt(a6, CommsAt(e), e.comms)
    BY <1>1, <1>8, <2>1, SectionStays
  <2>3. Len(a5) + 1 = MapAt(e) /\ Len(a5) + 1 + Len(e.map) = SizesAt(e) - 1
        /\ I + 2 \in 1..Len(a5)
    <3> DEFINE n == Len(a5)
    <3>1. n = MapAt(e) - 1 /\ I \in Nat /\ I + 3 <= LimitsAt(e)
      BY <1>8, LengthTypes
    <3> HIDE DEF n, I
    <3>2. n + 1 = MapAt(e) /\ I + 2 \in 1..n
      BY <3>1, LengthTypes
    <3>3. SizesAt(e) - 1 = MapAt(e) + Len(e.map)
      BY LengthTypes DEF SizesAt
    <3> QED BY <3>1, <3>2, <3>3, LengthTypes DEF n, I
  <2>4. a6[I + 2] = e.tag
    BY <1>8, <2>1, <2>3, ConcatFacts
  <2> QED BY <2>1, <2>2, <2>3, <2>4
<1> HIDE DEF a6
<1>10. a7 \in Seq(ItemSet) /\ Len(a7) = BranchesAt(e) - 1
      /\ SectionAt(a7, 1, e.inputs) /\ a7[I + 2] = e.tag
      /\ SectionAt(a7, LimitsAt(e), e.limits)
      /\ SectionAt(a7, RanksAt(e), e.ranks) /\ SectionAt(a7, CommsAt(e), e.comms)
      /\ SectionAt(a7, MapAt(e), e.map) /\ SectionAt(a7, SizesAt(e), e.sizes)
  <2>1. a7 \in Seq(ItemSet) /\ Len(a7) = Len(a6) + 1 + Len(e.sizes)
        /\ SectionAt(a7, Len(a6) + 1, e.sizes) /\ Framed(e.sizes) \in Seq(ItemSet)
    BY <1>1, <1>9, FramedAppends, FramedFacts
  <2>2. SectionAt(a7, 1, e.inputs) /\ SectionAt(a7, LimitsAt(e), e.limits)
        /\ SectionAt(a7, RanksAt(e), e.ranks) /\ SectionAt(a7, CommsAt(e), e.comms)
        /\ SectionAt(a7, MapAt(e), e.map)
    BY <1>1, <1>9, <2>1, SectionStays
  <2>3. Len(a6) + 1 = SizesAt(e) /\ Len(a6) + 1 + Len(e.sizes) = BranchesAt(e) - 1
        /\ I + 2 \in 1..Len(a6)
    <3> DEFINE n == Len(a6)
    <3>1. n = SizesAt(e) - 1 /\ I \in Nat /\ I + 3 <= LimitsAt(e)
      BY <1>9, LengthTypes
    <3> HIDE DEF n, I
    <3>2. n + 1 = SizesAt(e) /\ I + 2 \in 1..n
      BY <3>1, LengthTypes
    <3>3. BranchesAt(e) - 1 = SizesAt(e) + Len(e.sizes)
      BY LengthTypes DEF BranchesAt
    <3> QED BY <3>1, <3>2, <3>3, LengthTypes DEF n, I
  <2>4. a7[I + 2] = e.tag
    BY <1>9, <2>1, <2>3, ConcatFacts
  <2> QED BY <2>1, <2>2, <2>3, <2>4
<1> HIDE DEF a7
<1> QED
  BY <1>2, <1>10 DEF IndicesLaid

\* The whole file.
LEMMA Written ==
    ASSUME NEW e, Typed(e)
    PROVE  /\ Serialize(e) \in Seq(ItemSet)
           /\ Len(SerializeIndices(e)) = BranchesAt(e) - 1
           /\ Laid(Serialize(e), e)
<1> DEFINE a == SerializeIndices(e)
           b1 == Framed(e.branches)
           b2 == b1 \o <<Len(e.constraints)>>
           b3 == b2 \o e.idx
           b4 == b3 \o e.constraints
           b == Len(e.branches)
           c == Len(e.constraints)
           t == a \o b4
<1>1. e.branches \in Seq(ItemSet) /\ e.idx \in Seq(ItemSet)
      /\ e.constraints \in Seq(ItemSet) /\ c \in ItemSet /\ b \in Nat /\ c \in Nat
      /\ Len(e.idx) = c
  BY ItemSequences, LengthTypes DEF Typed
<1>2. Serialize(e) = t
  BY DEF Serialize, SerializePath
<1>3. a \in Seq(ItemSet) /\ Len(a) = BranchesAt(e) - 1 /\ IndicesLaid(a, e)
  BY IndicesWritten
<1> HIDE DEF a
<1>4. b1 \in Seq(ItemSet) /\ Len(b1) = 1 + b /\ SectionAt(b1, 1, e.branches)
  BY <1>1, FramedFacts
<1> HIDE DEF b1
<1>5. b2 \in Seq(ItemSet) /\ Len(b2) = b + 2 /\ SectionAt(b2, 1, e.branches)
      /\ b2[b + 2] = c
  <2>1. <<c>> \in Seq(ItemSet) /\ Len(<<c>>) = 1 /\ <<c>>[1] = c
    BY <1>1
  <2>2. b2 \in Seq(ItemSet) /\ Len(b2) = Len(b1) + 1 /\ b2[Len(b1) + 1] = c
    BY <1>4, <2>1, ConcatFacts
  <2>3. SectionAt(b2, 1, e.branches)
    BY <1>1, <1>4, <2>1, SectionStays
  <2>4. Len(b1) + 1 = b + 2
    BY <1>1, <1>4
  <2> QED BY <2>2, <2>3, <2>4
<1> HIDE DEF b2
<1>6. b3 \in Seq(ItemSet) /\ Len(b3) = b + 2 + c /\ SectionAt(b3, 1, e.branches)
      /\ SectionAt(b3, b + 2, e.idx)
  <2>1. b3 \in Seq(ItemSet) /\ Len(b3) = Len(b2) + Len(e.idx)
        /\ \A i \in 1..Len(b2) : b3[i] = b2[i]
    BY <1>1, <1>5, ConcatFacts
  <2>2. \A i \in 1..Len(e.idx) : b3[Len(b2) + i] = e.idx[i]
    BY SMTT(30), <1>1, <1>5, ConcatFacts
  <2>3. SectionAt(b3, 1, e.branches)
    BY <1>1, <1>5, SectionStays
  <2>4. b3[b + 2] = c /\ b + 2 + Len(e.idx) <= Len(b3) /\ b + 2 \in Nat \ {0}
    BY <1>1, <1>5, <2>1
  <2>5. SectionAt(b3, b + 2, e.idx)
    BY <1>1, <1>5, <2>2, <2>4 DEF SectionAt
  <2>6. Len(b3) = b + 2 + c
    BY <1>1, <1>5, <2>1
  <2> QED BY <2>1, <2>3, <2>5, <2>6
<1> HIDE DEF b3
<1>7. b4 \in Seq(ItemSet) /\ Len(b4) = b + 2 + c + c
      /\ SectionAt(b4, 1, e.branches) /\ SectionAt(b4, b + 2, e.idx)
      /\ \A i \in 1..c : b4[b + 2 + c + i] = e.constraints[i]
  <2>1. b4 \in Seq(ItemSet) /\ Len(b4) = Len(b3) + c
    BY <1>1, <1>6, ConcatFacts
  <2>2. SectionAt(b4, 1, e.branches) /\ SectionAt(b4, b + 2, e.idx)
    BY <1>1, <1>6, SectionStays
  <2>3. \A i \in 1..c : b4[Len(b3) + i] = e.constraints[i]
    <3>1. b3 \in Seq(ItemSet) /\ e.constraints \in Seq(ItemSet)
      BY <1>1, <1>6
    <3> QED BY <3>1, ConcatFacts
  <2> QED BY <1>1, <1>6, <2>1, <2>2, <2>3
<1> HIDE DEF b4
<1>8. t \in Seq(ItemSet) /\ Len(t) = Len(a) + Len(b4)
      /\ (\A i \in 1..Len(a) : t[i] = a[i])
      /\ \A i \in 1..Len(b4) : t[Len(a) + i] = b4[i]
  <2>1. a \in Seq(ItemSet) /\ b4 \in Seq(ItemSet)
    BY <1>3, <1>7
  <2> QED BY <2>1, ConcatFacts
<1>9. Len(a) + 1 = BranchesAt(e) /\ Len(a) + (b + 2) = CountAt(e)
      /\ Len(a) + Len(b4) = End(e)
  <2>1. BranchesAt(e) \in Nat /\ b \in Nat /\ c \in Nat
    BY LengthTypes
  <2>2. CountAt(e) = BranchesAt(e) + b + 1 /\ End(e) = CountAt(e) + c + c
    BY DEF CountAt, End
  <2> DEFINE n == Len(a)
             m == Len(b4)
  <2>3. n = BranchesAt(e) - 1 /\ m = b + 2 + c + c
    BY <1>3, <1>7
  <2> HIDE DEF b, c, n, m
  <2>4. n + 1 = BranchesAt(e) /\ n + (b + 2) = CountAt(e) /\ n + m = End(e)
    BY <2>1, <2>2, <2>3
  <2> QED BY <2>4 DEF n, m
<1>10. SectionAt(t, BranchesAt(e), e.branches) /\ SectionAt(t, CountAt(e), e.idx)
  <2>1. SectionAt(t, Len(a) + 1, e.branches) /\ SectionAt(t, Len(a) + (b + 2), e.idx)
    BY <1>1, <1>3, <1>7, SectionMoves
  <2> QED BY <2>1, <1>9
<1>11. \A i \in 1..c : t[CountAt(e) + c + i] = e.constraints[i]
  <2> TAKE i \in 1..c
  <2>1. b + 2 + c + i \in 1..Len(b4)
    <3>1. b \in Nat /\ c \in Nat /\ Len(b4) = b + 2 + c + c /\ i \in 1..c
      BY <1>1, <1>7
    <3> HIDE DEF b, c
    <3> QED BY <3>1
  <2>2. Len(a) + (b + 2 + c + i) = CountAt(e) + c + i
    <3> DEFINE n == Len(a)
    <3>1. n \in Nat /\ b \in Nat /\ c \in Nat /\ i \in 1..c
          /\ n + (b + 2) = CountAt(e)
      BY <1>1, <1>3, <1>9
    <3> HIDE DEF n, b, c
    <3>2. n + (b + 2 + c + i) = CountAt(e) + c + i
      BY <3>1
    <3> QED BY <3>2 DEF n
  <2> QED BY <1>7, <1>8, <2>1, <2>2
<1>12. IndicesLaid(t, e)
  <2>1. /\ SectionAt(t, 1, e.inputs) /\ SectionAt(t, LimitsAt(e), e.limits)
        /\ SectionAt(t, RanksAt(e), e.ranks) /\ SectionAt(t, CommsAt(e), e.comms)
        /\ SectionAt(t, MapAt(e), e.map) /\ SectionAt(t, SizesAt(e), e.sizes)
    BY <1>3, <1>7, SectionStays, ItemSequences DEF IndicesLaid
  <2>2. Len(e.inputs) + 2 \in 1..Len(a)
    <3> DEFINE n == Len(a)
               i == Len(e.inputs)
    <3>1. n = BranchesAt(e) - 1 /\ i \in Nat /\ i + 3 <= LimitsAt(e)
      BY <1>3, LengthTypes
    <3> HIDE DEF n, i
    <3>2. i + 2 \in 1..n
      BY <3>1, LengthTypes
    <3> QED BY <3>2 DEF n, i
  <2> QED BY <1>3, <1>8, <2>1, <2>2 DEF IndicesLaid
<1> HIDE DEF t
<1> QED
  BY <1>2, <1>3, <1>8, <1>9, <1>10, <1>11, <1>12 DEF Laid, a

-----------------------------------------------------------------------------
(* What Parse finds in a file that holds the first items of an execution.  *)

LEMMA RecordedTyped ==
    ASSUME NEW s \in Shapes, NEW j \in Nat
    PROVE  Typed(Recorded(s, j))
<1> DEFINE e == Recorded(s, j)
<1>1. /\ s.inputs \in Nat /\ s.branches \in Nat
      /\ s.limits \in Seq(Int \X Int) /\ s.map \in Seq(Seq(Int))
      /\ s.preds \in Seq(SUBSET Nat) /\ Len(s.preds) = Len(s.idx)
  BY FileAssumption
<1>2. s.ranks \in Seq(Nat) /\ s.comms \in Seq(Nat) /\ s.sizes \in Seq(Nat)
      /\ s.idx \in Seq(Nat)
  BY FileAssumption
<1>3. e.inputs = [i \in 1..s.inputs |-> j] /\ e.branches = [i \in 1..s.branches |-> j]
      /\ e.tag = j /\ e.limits = s.limits /\ e.ranks = s.ranks /\ e.comms = s.comms
      /\ e.map = s.map /\ e.sizes = s.sizes /\ e.idx = s.idx
      /\ e.constraints = [i \in DOMAIN s.preds |-> Pred(j, s.preds[i])]
  BY DEF Recorded
<1>4. e.inputs \in Seq(Nat) /\ e.branches \in Seq(Nat)
  BY <1>1, <1>3
<1>5. e.constraints \in Seq(Preds) /\ Len(e.constraints) = Len(s.preds)
  <2>1. DOMAIN s.preds = 1..Len(s.preds) /\ Len(s.preds) \in Nat
    BY <1>1
  <2>2. \A i \in 1..Len(s.preds) : Pred(j, s.preds[i]) \in Preds
    BY <1>1 DEF Pred, Preds
  <2> QED BY <1>3, <2>1, <2>2
<1> HIDE DEF e
<1>6. Typed(e)
  BY <1>1, <1>2, <1>3, <1>4, <1>5 DEF Typed
<1> QED BY <1>6 DEF e

\* f is the execution e, or begins like it.
Prefix(f, e) ==
    /\ Typed(e)
    /\ f \in Seq(ItemSet) /\ Len(f) <= End(e)
    /\ \A i \in 1..Len(f) : f[i] = Serialize(e)[i]

PrefixOf(e) == Prefix(file, e)

LEMMA SubSeqIsPrefix ==
    ASSUME NEW e, Typed(e), NEW n \in 0..Len(Serialize(e))
    PROVE  LET f == SubSeq(Serialize(e), 1, n)
           IN Prefix(f, e) /\ Len(f) = n
<1> DEFINE t == Serialize(e)
           f == SubSeq(t, 1, n)
<1>1. t \in Seq(ItemSet) /\ Len(t) = End(e)
  BY Written DEF Laid
<1> HIDE DEF t
<1>2. n \in Nat /\ n <= Len(t) /\ Len(t) \in Nat
  BY <1>1 DEF t
<1>3. f \in Seq(ItemSet) /\ Len(f) = n /\ \A i \in 1..n : f[i] = t[i]
  BY <1>1, <1>2
<1> HIDE DEF f
<1>4. Prefix(f, e) /\ Len(f) = n
  BY <1>1, <1>2, <1>3 DEF Prefix, t
<1> QED
  BY <1>4 DEF f, t

\* A section was found where it is, as far as the file goes: one that begins
\* within the file is where it belongs and has its length, and one that
\* should begin within it does.
Found(s, at, len) ==
    /\ s.at \in Nat \ {0} /\ s.len \in Nat
    /\ s.at <= Len(file) => s.at = at /\ s.len = len
    /\ at <= Len(file) => s.at = at

LEMMA FollowingFound ==
    ASSUME NEW e, PrefixOf(e), NEW q, Len(q) \in Nat, NEW next,
           SectionAt(Serialize(e), next, q),
           NEW s, NEW at \in Nat, NEW len \in Nat, Found(s, at, len),
           NEW gap \in Nat \ {0}, next = at + len + gap
    PROVE  Found(Following(s, gap), next, Len(q))
<1> DEFINE n == Len(file)
           f == Following(s, gap)
<1>1. n \in Nat /\ Len(q) \in Nat
  BY DEF PrefixOf, Prefix
<1>2. s.at \in Nat \ {0} /\ s.len \in Nat /\ (s.at <= n => s.at = at /\ s.len = len)
      /\ (at <= n => s.at = at)
  BY DEF Found
<1>3. f.at = s.at + s.len + gap /\ f.len = Item(f.at, s.len)
  BY DEF Following
<1>4. f.at \in Nat \ {0}
  BY <1>2, <1>3
<1>5. ASSUME f.at <= n
      PROVE  f.at = next /\ f.len = Len(q)
  <2>1. s.at <= n
    BY <1>1, <1>2, <1>3, <1>5
  <2>2. f.at = next
    BY <1>2, <1>3, <2>1
  <2>3. f.at \in 1..n
    BY <1>1, <1>4, <1>5
  <2>4. f.len = file[f.at] /\ file[f.at] = Serialize(e)[f.at]
    BY <1>3, <1>5, <2>3 DEF Item, PrefixOf, Prefix
  <2> QED BY <2>2, <2>4 DEF SectionAt
<1>6. ASSUME next <= n
      PROVE  f.at = next
  <2>1. at <= n
    BY <1>1, <1>6
  <2> QED BY <1>2, <1>3, <2>1
<1>7. f.len \in Nat
  <2>1. CASE f.at <= n
    BY <1>1, <1>5, <2>1
  <2>2. CASE ~(f.at <= n)
    BY <1>2, <1>3, <2>2 DEF Item
  <2> QED BY <2>1, <2>2
<1> HIDE DEF f
<1> QED
  BY <1>4, <1>5, <1>6, <1>7 DEF Found, f

AllFound(e, s) ==
    /\ Found(s.inputs, 1, Len(e.inputs))
    /\ Found(s.limits, LimitsAt(e), Len(e.limits))
    /\ Found(s.ranks, RanksAt(e), Len(e.ranks))
    /\ Found(s.comms, CommsAt(e), Len(e.comms))
    /\ Found(s.map, MapAt(e), Len(e.map))
    /\ Found(s.sizes, SizesAt(e), Len(e.sizes))
    /\ Found(Following(s.sizes, 1), BranchesAt(e), Len(e.branches))

LEMMA SectionsFound ==
    ASSUME NEW e, PrefixOf(e), NEW g \in Nat
    PROVE  AllFound(e, Section(g))
<1> DEFINE inputs == [at |-> 1, len |-> Item(1, g)]
           limits == Following(inputs, 2)
           ranks == Following(limits, 1)
           comms == Following(ranks, 1)
           map == Following(comms, 1)
           sizes == Following(map, 1)
           s == Section(g)
<1>1. s.inputs = inputs /\ s.limits = limits /\ s.ranks = ranks
      /\ s.comms = comms /\ s.map = map /\ s.sizes = sizes
  BY DEF Section, SectionsFrom
<1>2. Typed(e) /\ Laid(Serialize(e), e)
  BY Written DEF PrefixOf, Prefix
<1>3. /\ SectionAt(Serialize(e), 1, e.inputs)
      /\ SectionAt(Serialize(e), LimitsAt(e), e.limits)
      /\ SectionAt(Serialize(e), RanksAt(e), e.ranks)
      /\ SectionAt(Serialize(e), CommsAt(e), e.comms)
      /\ SectionAt(Serialize(e), MapAt(e), e.map)
      /\ SectionAt(Serialize(e), SizesAt(e), e.sizes)
      /\ SectionAt(Serialize(e), BranchesAt(e), e.branches)
  BY <1>2 DEF Laid, IndicesLaid
<1>4. /\ LimitsAt(e) = 1 + Len(e.inputs) + 2
      /\ RanksAt(e) = LimitsAt(e) + Len(e.limits) + 1
      /\ CommsAt(e) = RanksAt(e) + Len(e.ranks) + 1
      /\ MapAt(e) = CommsAt(e) + Len(e.comms) + 1
      /\ SizesAt(e) = MapAt(e) + Len(e.map) + 1
      /\ BranchesAt(e) = SizesAt(e) + Len(e.sizes) + 1
  BY <1>2, LengthTypes
     DEF LimitsAt, RanksAt, CommsAt, MapAt, SizesAt, BranchesAt
<1>5. Found(inputs, 1, Len(e.inputs))
  <2>1. inputs.at = 1 /\ inputs.len = Item(1, g)
    OBVIOUS
  <2>2. Len(file) \in Nat /\ Len(e.inputs) \in Nat
    BY <1>2, LengthTypes DEF PrefixOf, Prefix
  <2>3. ASSUME 1 <= Len(file)
        PROVE  inputs.len = Len(e.inputs)
    <3>1. file[1] = Serialize(e)[1]
      BY <2>2, <2>3 DEF PrefixOf, Prefix
    <3> QED BY <1>3, <2>1, <2>3, <3>1 DEF Item, SectionAt
  <2>4. inputs.len \in Nat
    <3>1. CASE 1 <= Len(file)
      BY <2>2, <2>3, <3>1
    <3>2. CASE ~(1 <= Len(file))
      BY <2>1, <3>2 DEF Item
    <3> QED BY <3>1, <3>2
  <2> HIDE DEF inputs
  <2> QED BY <2>1, <2>3, <2>4 DEF Found
<1> HIDE DEF inputs
<1>6. Found(limits, LimitsAt(e), Len(e.limits))
  <2>1. LimitsAt(e) = 1 + Len(e.inputs) + 2 /\ SectionAt(Serialize(e), LimitsAt(e), e.limits)
    BY <1>3, <1>4
  <2>2. Len(e.inputs) \in Nat /\ Len(e.limits) \in Nat /\ 1 \in Nat /\ 2 \in Nat \ {0}
    BY <1>2, LengthTypes
  <2>3. Found(Following(inputs, 2), LimitsAt(e), Len(e.limits))
    BY <1>5, <2>1, <2>2, FollowingFound
  <2> QED BY <2>3
<1> HIDE DEF limits
<1>7. Found(ranks, RanksAt(e), Len(e.ranks))
  <2>1. RanksAt(e) = LimitsAt(e) + Len(e.limits) + 1 /\ SectionAt(Serialize(e), RanksAt(e), e.ranks)
    BY <1>3, <1>4
  <2>2. Len(e.limits) \in Nat /\ Len(e.ranks) \in Nat /\ LimitsAt(e) \in Nat /\ 1 \in Nat \ {0}
    BY <1>2, LengthTypes
  <2>3. Found(Following(limits, 1), RanksAt(e), Len(e.ranks))
    BY <1>6, <2>1, <2>2, FollowingFound
  <2> QED BY <2>3
<1> HIDE DEF ranks
<1>8. Found(comms, CommsAt(e), Len(e.comms))
  <2>1. CommsAt(e) = RanksAt(e) + Len(e.ranks) + 1 /\ SectionAt(Serialize(e), CommsAt(e), e.comms)
    BY <1>3, <1>4
  <2>2. Len(e.ranks) \in Nat /\ Len(e.comms) \in Nat /\ RanksAt(e) \in Nat /\ 1 \in Nat \ {0}
    BY <1>2, LengthTypes
  <2>3. Found(Following(ranks, 1), CommsAt(e), Len(e.comms))
    BY <1>7, <2>1, <2>2, FollowingFound
  <2> QED BY <2>3
<1> HIDE DEF comms
<1>9. Found(map, MapAt(e), Len(e.map))
  <2>1. MapAt(e) = CommsAt(e) + Len(e.comms) + 1 /\ SectionAt(Serialize(e), MapAt(e), e.map)
    BY <1>3, <1>4
  <2>2. Len(e.comms) \in Nat /\ Len(e.map) \in Nat /\ CommsAt(e) \in Nat /\ 1 \in Nat \ {0}
    BY <1>2, LengthTypes
  <2>3. Found(Following(comms, 1), MapAt(e), Len(e.map))
    BY <1>8, <2>1, <2>2, FollowingFound
  <2> QED BY <2>3
<1> HIDE DEF map
<1>10. Found(sizes, SizesAt(e), Len(e.sizes))
  <2>1. SizesAt(e) = MapAt(e) + Len(e.map) + 1 /\ SectionAt(Serialize(e), SizesAt(e), e.sizes)
    BY <1>3, <1>4
  <2>2. Len(e.map) \in Nat /\ Len(e.sizes) \in Nat /\ MapAt(e) \in Nat /\ 1 \in Nat \ {0}
    BY <1>2, LengthTypes
  <2>3. Found(Following(map, 1), SizesAt(e), Len(e.sizes))
    BY <1>9, <2>1, <2>2, FollowingFound
  <2> QED BY <2>3
<1> HIDE DEF sizes
<1>11. Found(Following(sizes, 1), BranchesAt(e), Len(e.branches))
  <2>1. BranchesAt(e) = SizesAt(e) + Len(e.sizes) + 1 /\ SectionAt(Serialize(e), BranchesAt(e), e.branches)
    BY <1>3, <1>4
  <2>2. Len(e.sizes) \in Nat /\ Len(e.branches) \in Nat /\ SizesAt(e) \in Nat /\ 1 \in Nat \ {0}
    BY <1>2, LengthTypes
  <2>3. Found(Following(sizes, 1), BranchesAt(e), Len(e.branches))
    BY <1>10, <2>1, <2>2, FollowingFound
  <2> QED BY <2>3
<1> HIDE DEF s
<1> QED
  BY <1>1, <1>5, <1>6, <1>7, <1>8, <1>9, <1>10, <1>11 DEF AllFound, s

\* A section that lies in the file is read as it was written.
ReadAs(s, at, q) ==
    /\ s.at = at /\ s.len = Len(q)
    /\ \A old : Items(s.at, s.len, old) = q
    /\ \A i \in 1..Len(q) : \A old : Item(at + i, old) = q[i]

LEMMA VectorRead ==
    ASSUME NEW e, PrefixOf(e), NEW q \in Seq(ItemSet), NEW at,
           SectionAt(Serialize(e), at, q), NEW s, Found(s, at, Len(q)),
           at + Len(q) <= Len(file)
    PROVE  ReadAs(s, at, q)
<1>1. Len(file) \in Nat /\ at \in Nat \ {0} /\ Len(q) \in Nat
  BY DEF PrefixOf, Prefix, SectionAt
<1>2. at <= Len(file) /\ \A i \in 1..Len(q) : at + i \in 1..Len(file)
  BY <1>1
<1>3. s.at = at /\ s.len = Len(q)
  BY <1>2 DEF Found
<1>4. ASSUME NEW i \in 1..Len(q), NEW old
      PROVE  Item(at + i, old) = q[i]
  <2>1. at + i \in 1..Len(file) /\ at + i <= Len(file)
    BY <1>1, <1>2
  <2>2. file[at + i] = Serialize(e)[at + i]
    BY <2>1 DEF PrefixOf, Prefix
  <2>3. Serialize(e)[at + i] = q[i]
    BY DEF SectionAt
  <2> QED BY <2>1, <2>2, <2>3 DEF Item
<1>5. q = [i \in 1..Len(q) |-> q[i]]
  OBVIOUS
<1>6. ASSUME NEW old
      PROVE  Items(at, Len(q), old) = q
  <2>1. Items(at, Len(q), old) = [i \in 1..Len(q) |-> q[i]]
    BY <1>4 DEF Items
  <2> QED BY <1>5, <2>1
<1> QED
  BY <1>3, <1>4, <1>6 DEF ReadAs

LEMMA SeqsEqual ==
    ASSUME NEW S, NEW T, NEW q \in Seq(S), NEW r \in Seq(T), Len(q) = Len(r),
           \A i \in 1..Len(q) : q[i] = r[i]
    PROVE  q = r
  OBVIOUS

LEMMA MinOfTwo ==
    ASSUME NEW a \in Int, NEW b \in Int, a <= b
    PROVE  Min({a, b}) = a
  BY DEF Min

LEMMA LimitsRead ==
    ASSUME NEW e, PrefixOf(e), NEW q \in Seq(ItemSet), NEW at,
           SectionAt(Serialize(e), at, q), NEW s, Found(s, at, Len(q)),
           at + Len(q) <= Len(file)
    PROVE  Limits(s.at, s.len) = q
<1>1. Len(file) \in Nat /\ at \in Nat \ {0} /\ Len(q) \in Nat
      /\ file \in Seq(ItemSet)
  BY DEF PrefixOf, Prefix, SectionAt
<1>2. at <= Len(file)
  BY <1>1
<1>3. s.at = at /\ s.len = Len(q)
  BY <1>2 DEF Found
<1>4. CASE Len(q) = 0
  BY <1>3, <1>4 DEF Limits
<1>5. CASE Len(q) # 0
  <2>1. at < Len(file) /\ Min({at + Len(q), Len(file)}) = at + Len(q)
    BY <1>1, <1>5, MinOfTwo
  <2>2. Limits(s.at, s.len) = SubSeq(file, at + 1, at + Len(q))
    <3>1. ~(at >= Len(file))
      BY <1>1, <2>1
    <3>2. Limits(at, Len(q)) = SubSeq(file, at + 1, Min({at + Len(q), Len(file)}))
      BY <1>5, <3>1, Zenon DEF Limits
    <3> QED BY <1>3, <2>1, <3>2
  <2> DEFINE r == SubSeq(file, at + 1, at + Len(q))
             n == Len(q)
  <2>3. n \in Nat /\ at \in Nat /\ at + n <= Len(file) /\ Len(file) \in Nat
    BY <1>1
  <2> HIDE DEF n
  <2>4. SubSeq(file, at + 1, at + n) \in Seq(ItemSet)
        /\ Len(SubSeq(file, at + 1, at + n)) = n
        /\ \A i \in 1..n : SubSeq(file, at + 1, at + n)[i] = file[at + i]
    BY <1>1, <2>3
  <2> USE DEF n
  <2>5. r \in Seq(ItemSet) /\ Len(r) = Len(q)
        /\ \A i \in 1..Len(q) : r[i] = file[at + i]
    BY <2>4
  <2>6. \A i \in 1..Len(q) : file[at + i] = q[i]
    <3> TAKE i \in 1..Len(q)
    <3>1. at + i \in 1..Len(file)
      BY <1>1
    <3> QED BY <3>1 DEF PrefixOf, Prefix, SectionAt
  <2> HIDE DEF r
  <2>7. r = q
    BY <2>5, <2>6, SeqsEqual
  <2> QED BY <2>2, <2>7 DEF r
<1> QED
  BY <1>4, <1>5

\* The fields of an execution.
Shaped(x) ==
    x = [inputs |-> x.inputs, tag |-> x.tag, limits |-> x.limits,
         ranks |-> x.ranks, comms |-> x.comms, map |-> x.map,
         sizes |-> x.sizes, branches |-> x.branches, idx |-> x.idx,
         constraints |-> x.constraints]

\* The indices that the cache of MPI constraints is made from.
Indices(x) == <<x.ranks, x.comms, x.sizes>>

\* What the parse makes of x before the path.
IndicesMade(x, g) ==
    LET s == Section(g)
        y == ParseIndices(x, g)
    IN /\ Shaped(y)
       /\ y.branches = x.branches /\ y.idx = x.idx
       /\ y.constraints = x.constraints
       /\ y.inputs = Items(s.inputs.at, s.inputs.len, x.inputs)
       /\ y.tag = Item(s.inputs.at + s.inputs.len + 1, x.tag)
       /\ y.limits = Limits(s.limits.at, s.limits.len)
       /\ y.ranks = Items(s.ranks.at, s.ranks.len, <<>>)
       /\ y.comms = Items(s.comms.at, s.comms.len, <<>>)
       /\ y.map = [i \in 1..s.map.len |->
                     Item(s.map.at + i, [j \in 1..g |-> 0])]
       /\ y.sizes = Items(s.sizes.at, s.sizes.len, <<>>)

LEMMA IndicesParsed ==
    ASSUME NEW x, Shaped(x), NEW g
    PROVE  IndicesMade(x, g)
<1> DEFINE s == Section(g)
           y == ParseIndices(x, g)
           inputs == Items(s.inputs.at, s.inputs.len, x.inputs)
           tag == Item(s.inputs.at + s.inputs.len + 1, x.tag)
           limits == Limits(s.limits.at, s.limits.len)
           ranks == Items(s.ranks.at, s.ranks.len, <<>>)
           comms == Items(s.comms.at, s.comms.len, <<>>)
           map == [i \in 1..s.map.len |-> Item(s.map.at + i, [j \in 1..g |-> 0])]
           sizes == Items(s.sizes.at, s.sizes.len, <<>>)
<1>1. y = [x EXCEPT !.inputs = inputs, !.tag = tag, !.limits = limits,
                    !.ranks = ranks, !.comms = comms, !.map = map,
                    !.sizes = sizes]
  BY Zenon DEF ParseIndices
<1> HIDE DEF inputs, tag, limits, ranks, comms, map, sizes, y
<1>2. y = [inputs |-> inputs, tag |-> tag, limits |-> limits,
           ranks |-> ranks, comms |-> comms, map |-> map,
           sizes |-> sizes, branches |-> x.branches, idx |-> x.idx,
           constraints |-> x.constraints]
  BY <1>1 DEF Shaped
<1>3. /\ y.inputs = inputs /\ y.tag = tag /\ y.limits = limits /\ y.ranks = ranks
      /\ y.comms = comms /\ y.map = map /\ y.sizes = sizes
      /\ y.branches = x.branches /\ y.idx = x.idx
      /\ y.constraints = x.constraints
  BY <1>2
<1>4. Shaped(y)
  BY <1>2, <1>3 DEF Shaped
<1> QED
  BY <1>3, <1>4, Zenon
     DEF IndicesMade, inputs, tag, limits, ranks, comms, map, sizes, y

Rejected(e, x, p, h) ==
    LET r == ParsePath(x, p, h)
    IN /\ r.ex = RejectBranches(x, p) /\ r.defined = TRUE
       /\ r.end \in Nat /\ r.end > Len(file) /\ Len(file) < End(e)

\* m is the number of constraints that was read, or what was left of the
\* number of branches if there is none in the file.
Accepted(e, x, p, h, m) ==
    LET r == ParsePath(x, p, h)
        end == CountAt(e) - 1
    IN /\ r.ex = ReadConstraints([x EXCEPT !.branches = SubSeq(file, p + 1, end)],
                                 CountAt(e), m)
       /\ r.end = CountAt(e) + 2 * m /\ r.defined = ~HasDeleted(x)
       /\ p = BranchesAt(e) /\ end <= Len(file)
       /\ CountAt(e) <= Len(file) => m = Len(e.constraints)

\* The path is refused unless all of its branches are there.
LEMMA PathRead ==
    ASSUME NEW e, PrefixOf(e), NEW x, NEW p \in Nat \ {0}, NEW h \in Nat,
           p <= Len(file) => p = BranchesAt(e),
           BranchesAt(e) <= Len(file) => p = BranchesAt(e)
    PROVE  Rejected(e, x, p, h) \/ \E m \in Nat : Accepted(e, x, p, h, m)
<1> DEFINE n == Len(file)
           b == Item(p, h)
           end == p + b
           read == [x EXCEPT !.branches = SubSeq(file, p + 1, end)]
           m == Item(end + 1, b)
           r == ParsePath(x, p, h)
           e1 == CountAt(e) - 1
<1>1. Typed(e) /\ Laid(Serialize(e), e) /\ n \in Nat /\ n <= End(e)
  BY Written DEF PrefixOf, Prefix
<1>2. BranchesAt(e) \in Nat /\ CountAt(e) \in Nat /\ End(e) \in Nat
      /\ BranchesAt(e) < CountAt(e) /\ CountAt(e) <= End(e)
      /\ Len(e.branches) \in Nat /\ Len(e.constraints) \in Nat
  BY <1>1, LengthTypes
<1>3. e1 = BranchesAt(e) + Len(e.branches)
  BY <1>2 DEF CountAt
<1>4. r = IF end > n THEN Result(RejectBranches(x, p), TRUE, end)
          ELSE Result(ReadConstraints(read, end + 1, m), ~HasDeleted(x),
                      end + 1 + 2 * m)
  BY Zenon DEF ParsePath
<1>5. \A t : t \in 1..n => file[t] = Serialize(e)[t]
  BY DEF PrefixOf, Prefix
<1>6. ASSUME p <= n
      PROVE  p = BranchesAt(e) /\ b = Len(e.branches) /\ end = e1
  <2>1. p \in 1..n
    BY <1>1, <1>6
  <2>2. b = Serialize(e)[p]
    BY <1>5, <1>6, <2>1 DEF Item
  <2>3. b = Len(e.branches)
    BY <1>1, <1>6, <2>2 DEF Laid, SectionAt
  <2> QED BY <1>2, <1>3, <1>6, <2>3
<1>7. b \in Nat
  <2>1. CASE p <= n
    BY <1>2, <1>6, <2>1
  <2>2. CASE ~(p <= n)
    BY <2>2 DEF Item
  <2> QED BY <2>1, <2>2
<1> HIDE DEF b, n, e1
<1>8. CASE end > n
  <2>1. end \in Nat
    BY <1>7
  <2>2. r.ex = RejectBranches(x, p) /\ r.defined = TRUE /\ r.end = end
    <3> HIDE DEF r, end
    <3>1. r = Result(RejectBranches(x, p), TRUE, end)
      BY <1>4, <1>8, Zenon
    <3> QED BY <3>1 DEF Result
  <2>3. n < End(e)
    <3> SUFFICES ASSUME n = End(e) PROVE FALSE
      BY <1>1, <1>2
    <3>1. p = BranchesAt(e)
      BY <1>2 DEF n
    <3>2. p <= n
      BY <1>2, <3>1
    <3> QED BY <1>2, <1>6, <1>8, <3>2 DEF e1
  <2> QED BY <1>8, <2>1, <2>2, <2>3 DEF Rejected, n
<1>9. CASE ~(end > n)
  <2>1. p <= n
    BY <1>1, <1>7, <1>9
  <2>2. p = BranchesAt(e) /\ b = Len(e.branches) /\ end = e1
    BY <1>6, <2>1
  <2>3. end + 1 = CountAt(e) /\ end + 1 + 2 * m = CountAt(e) + 2 * m
    BY <1>2, <2>2 DEF e1
  <2>4. ASSUME CountAt(e) <= n
        PROVE  m = Len(e.constraints)
    <3>1. CountAt(e) \in 1..n
      BY <1>1, <1>2, <2>4
    <3>2. m = Serialize(e)[CountAt(e)]
      BY <1>5, <2>3, <2>4, <3>1 DEF Item, n
    <3>3. Len(e.idx) = Len(e.constraints)
      BY <1>1 DEF Typed
    <3> QED BY <1>1, <3>2, <3>3 DEF Laid, SectionAt
  <2>5. m \in Nat
    <3>1. CASE CountAt(e) <= n
      BY <1>2, <2>4, <3>1
    <3>2. CASE ~(CountAt(e) <= n)
      BY <1>7, <2>3, <3>2 DEF Item, n
    <3> QED BY <3>1, <3>2
  <2>6. r.ex = ReadConstraints(read, end + 1, m) /\ r.defined = ~HasDeleted(x)
        /\ r.end = end + 1 + 2 * m
    <3> DEFINE y == ReadConstraints(read, end + 1, m)
               d == ~HasDeleted(x)
               k == end + 1 + 2 * m
    <3>1. r = Result(y, d, k)
      <4> HIDE DEF r, end, m, read
      <4> QED BY <1>4, <1>9, Zenon
    <3> HIDE DEF r, y, d, k
    <3>2. r.ex = y /\ r.defined = d /\ r.end = k
      BY <3>1 DEF Result
    <3> QED BY <3>2 DEF y, d, k
  <2>7. read = [x EXCEPT !.branches = SubSeq(file, p + 1, e1)]
    BY <2>2, Zenon
  <2> HIDE DEF m, read, r
  <2>8. r.ex = ReadConstraints([x EXCEPT !.branches = SubSeq(file, p + 1, e1)],
                               CountAt(e), m)
    BY <2>3, <2>6, <2>7
  <2>9. e1 <= n
    BY <1>1, <1>2, <1>7, <1>9, <2>2 DEF e1
  <2>10. Accepted(e, x, p, h, m)
    BY <2>2, <2>3, <2>4, <2>6, <2>8, <2>9 DEF Accepted, n, e1, r
  <2> QED BY <2>5, <2>10
<1> QED
  BY <1>8, <1>9

SameBeforePath(x, y) ==
    /\ y.inputs = x.inputs /\ y.tag = x.tag /\ y.limits = x.limits
    /\ y.ranks = x.ranks /\ y.comms = x.comms /\ y.map = x.map
    /\ y.sizes = x.sizes

\* What becomes of x when m constraints are read behind position p.
ConstraintsMade(x, branches, p, m) ==
    LET y == ReadConstraints([x EXCEPT !.branches = branches], p, m)
        left == Len(file) - (p + m)
        made == IF left < 0 THEN 0 ELSE left
    IN /\ Shaped(y) /\ SameBeforePath(x, y)
       /\ y.branches = branches /\ y.idx = Items(p, m, x.idx)
       /\ y.constraints =
            [i \in 1..m |->
              IF i <= made THEN file[p + m + i]
              ELSE IF i = made + 1 THEN Blank
              ELSE IF i \in DOMAIN x.constraints THEN Deleted
              ELSE Null]

LEMMA ConstraintsParsed ==
    ASSUME NEW x, Shaped(x), NEW branches, NEW p \in Nat, NEW m \in Nat,
           Len(file) \in Nat
    PROVE  ConstraintsMade(x, branches, p, m)
<1> DEFINE z == [x EXCEPT !.branches = branches]
           y == ReadConstraints(z, p, m)
           left == Len(file) - (p + m)
           made == IF left < 0 THEN 0 ELSE left
           idx == Items(p, m, x.idx)
           constraints == [i \in 1..m |->
                     IF i <= made THEN file[p + m + i]
                     ELSE IF i = made + 1 THEN Blank
                     ELSE IF i \in DOMAIN x.constraints THEN Deleted
                     ELSE Null]
<1>1. z = [inputs |-> x.inputs, tag |-> x.tag, limits |-> x.limits,
           ranks |-> x.ranks, comms |-> x.comms, map |-> x.map,
           sizes |-> x.sizes, branches |-> branches, idx |-> x.idx,
           constraints |-> x.constraints]
  BY DEF Shaped
<1> HIDE DEF z
<1>2. z.idx = x.idx /\ z.constraints = x.constraints
  BY <1>1
<1>3. y = [z EXCEPT !.idx = Items(p, m, z.idx),
                    !.constraints =
                      [i \in 1..m |->
                        IF i <= made THEN file[p + m + i]
                        ELSE IF i = made + 1 THEN Blank
                        ELSE IF i \in DOMAIN z.constraints THEN Deleted
                        ELSE Null]]
  BY Zenon DEF ReadConstraints
<1>4. y = [z EXCEPT !.idx = idx, !.constraints = constraints]
  BY <1>2, <1>3
<1> HIDE DEF y, idx, constraints
<1>5. y = [inputs |-> x.inputs, tag |-> x.tag, limits |-> x.limits,
           ranks |-> x.ranks, comms |-> x.comms, map |-> x.map,
           sizes |-> x.sizes, branches |-> branches, idx |-> idx,
           constraints |-> constraints]
  BY <1>1, <1>4
<1>6. /\ y.inputs = x.inputs /\ y.tag = x.tag /\ y.limits = x.limits
      /\ y.ranks = x.ranks /\ y.comms = x.comms /\ y.map = x.map
      /\ y.sizes = x.sizes /\ y.branches = branches
      /\ y.idx = idx /\ y.constraints = constraints
  BY <1>5
<1>7. Shaped(y)
  BY <1>5, <1>6 DEF Shaped
<1> QED
  BY <1>6, <1>7, Zenon DEF ConstraintsMade, SameBeforePath, y, z, idx, constraints

\* An entry that Parse may make: a constraint of the file, one that could
\* not be read, or one that nobody may use.
Entry(e, c) ==
    \/ \E k \in 1..Len(e.constraints) : c = e.constraints[k]
    \/ c = Blank \/ c.state # "live"

PathRefused(e, x, r) ==
    /\ r.ex.constraints = x.constraints
    /\ r.end \in Nat /\ r.end > Len(file) /\ Len(file) < End(e)

PathTaken(e, r) ==
    /\ CountAt(e) - 1 <= Len(file)
    /\ \A i \in DOMAIN r.ex.constraints : Entry(e, r.ex.constraints[i])
    /\ r.end <= Len(file) <=> Len(file) = End(e)
    /\ Len(file) = End(e) =>
         /\ r.ex.branches = e.branches /\ r.ex.idx = e.idx
         /\ r.ex.constraints = e.constraints

LEMMA PathTakenWhenAccepted ==
    ASSUME NEW e, PrefixOf(e), NEW x, Shaped(x), NEW p, NEW h,
           NEW m \in Nat, Accepted(e, x, p, h, m)
    PROVE  LET r == ParsePath(x, p, h)
           IN Shaped(r.ex) /\ SameBeforePath(x, r.ex) /\ PathTaken(e, r)
<1> DEFINE r == ParsePath(x, p, h)
           n == Len(file)
           at == CountAt(e)
           c == Len(e.constraints)
           t == Serialize(e)
           branches == SubSeq(file, p + 1, at - 1)
           left == n - (at + m)
           made == IF left < 0 THEN 0 ELSE left
<1>1. Typed(e) /\ Laid(t, e) /\ n \in Nat /\ n <= End(e) /\ file \in Seq(ItemSet)
  BY Written DEF PrefixOf, Prefix
<1>2. BranchesAt(e) \in Nat /\ at \in Nat /\ End(e) \in Nat
      /\ BranchesAt(e) < at /\ at <= End(e) /\ Len(e.branches) \in Nat /\ c \in Nat
  BY <1>1, LengthTypes
<1>3. /\ r.ex = ReadConstraints([x EXCEPT !.branches = branches], at, m)
      /\ r.end = at + 2 * m /\ p = BranchesAt(e) /\ at - 1 <= n
      /\ at <= n => m = c
  BY Zenon DEF Accepted
<1>4. End(e) = at + c + c /\ at - 1 = p + Len(e.branches)
  BY <1>2, <1>3 DEF End, CountAt
<1>5. \A k : k \in 1..n => file[k] = t[k]
  BY DEF PrefixOf, Prefix
<1> HIDE DEF r, n, at, c, t, branches
<1>6. /\ Shaped(r.ex) /\ SameBeforePath(x, r.ex)
      /\ r.ex.branches = branches /\ r.ex.idx = Items(at, m, x.idx)
      /\ r.ex.constraints =
           [i \in 1..m |->
              IF i <= made THEN file[at + m + i]
              ELSE IF i = made + 1 THEN Blank
              ELSE IF i \in DOMAIN x.constraints THEN Deleted
              ELSE Null]
  <2>1. ConstraintsMade(x, branches, at, m)
    BY <1>1, <1>2, ConstraintsParsed DEF n
  <2> QED BY <1>3, <2>1, Zenon DEF ConstraintsMade, n
<1>7. \A k \in 1..c : t[at + c + k] = e.constraints[k]
  BY <1>1 DEF Laid, at, c
<1>8. ASSUME NEW i \in DOMAIN r.ex.constraints
      PROVE  Entry(e, r.ex.constraints[i])
  <2>1. i \in 1..m /\ DOMAIN r.ex.constraints = 1..m
    BY <1>6
  <2>2. CASE i <= made
    <3>1. left >= 0 /\ i <= left /\ at <= n
      BY <1>1, <1>2, <2>1, <2>2
    <3>2. m = c /\ at + m + i \in 1..n
      BY <1>1, <1>2, <1>3, <2>1, <3>1
    <3>3. i \in 1..c /\ r.ex.constraints[i] = file[at + m + i]
      BY <1>6, <2>1, <2>2, <3>2
    <3>4. r.ex.constraints[i] = e.constraints[i]
      BY <1>5, <1>7, <3>2, <3>3
    <3> QED BY <3>3, <3>4 DEF Entry, c
  <2>3. CASE i = made + 1
    <3>1. ~(i <= made)
      BY <1>1, <1>2, <2>3
    <3> QED BY <1>6, <2>1, <2>3, <3>1 DEF Entry
  <2>4. CASE ~(i <= made) /\ i # made + 1
    <3>1. r.ex.constraints[i] \in {Deleted, Null}
      BY <1>6, <2>1, <2>4
    <3>2. Deleted.state = "deleted" /\ Null.state = "null"
      BY DEF Deleted, Null, Blank, Pred
    <3> QED BY <3>1, <3>2 DEF Entry
  <2> QED BY <2>2, <2>3, <2>4
<1>9. r.end <= n <=> n = End(e)
  <2>1. CASE at <= n
    BY <1>1, <1>2, <1>3, <1>4, <2>1
  <2>2. CASE ~(at <= n)
    BY <1>1, <1>2, <1>3, <1>4, <2>2
  <2> QED BY <2>1, <2>2
<1>10. ASSUME n = End(e)
       PROVE  /\ r.ex.branches = e.branches /\ r.ex.idx = e.idx
              /\ r.ex.constraints = e.constraints
  <2>1. at <= n /\ m = c /\ left = c /\ made = c
    BY <1>1, <1>2, <1>3, <1>4, <1>10
  <2>2. r.ex.constraints = e.constraints
    <3>1. \A i \in 1..c : r.ex.constraints[i] = e.constraints[i]
      <4> TAKE i \in 1..c
      <4>1. i <= made /\ at + c + i \in 1..n
        BY <1>2, <1>4, <1>10, <2>1
      <4>2. r.ex.constraints[i] = file[at + c + i]
        BY <1>6, <2>1, <4>1
      <4> QED BY <1>5, <1>7, <4>1, <4>2
    <3>2. r.ex.constraints = [i \in 1..c |-> r.ex.constraints[i]]
      BY <1>6, <2>1
    <3>3. e.constraints = [i \in 1..c |-> e.constraints[i]]
      BY <1>1 DEF Typed, c
    <3> QED BY <3>1, <3>2, <3>3
  <2>3. r.ex.idx = e.idx
    <3> DEFINE s == [at |-> at, len |-> c]
    <3>1. SectionAt(t, at, e.idx) /\ Len(e.idx) = c /\ e.idx \in Seq(ItemSet)
      BY <1>1, ItemSequences DEF Laid, Typed, at, c
    <3>2. Found(s, at, Len(e.idx)) /\ at + Len(e.idx) <= Len(file)
      <4>1. at \in Nat \ {0} /\ at + c <= n
        BY <1>2, <1>4, <1>10
      <4>2. s.at = at /\ s.len = c
        OBVIOUS
      <4> HIDE DEF s
      <4> QED BY <1>2, <3>1, <4>1, <4>2 DEF Found, n
    <3>3. s.at = at /\ s.len = c
      OBVIOUS
    <3> HIDE DEF s
    <3>4. Items(s.at, s.len, x.idx) = e.idx
      <4>1. SectionAt(Serialize(e), at, e.idx) /\ e.idx \in Seq(ItemSet)
        BY <3>1 DEF t
      <4>2. ReadAs(s, at, e.idx)
        BY <3>2, <4>1, VectorRead
      <4> QED BY <4>2 DEF ReadAs
    <3> QED BY <1>6, <2>1, <3>3, <3>4
  <2>4. r.ex.branches = e.branches
    <3> DEFINE b == Len(e.branches)
    <3>1. SectionAt(t, p, e.branches) /\ e.branches \in Seq(Nat)
      BY <1>1, <1>3 DEF Laid, Typed
    <3>2. b \in Nat /\ p \in Nat /\ p + b <= n /\ at - 1 = p + b
      BY <1>2, <1>3, <1>4, <1>10
    <3> HIDE DEF b
    <3>3. /\ branches \in Seq(ItemSet) /\ Len(branches) = b
          /\ \A i \in 1..b : branches[i] = file[p + i]
      <4>1. branches = SubSeq(file, p + 1, p + b)
        BY <3>2 DEF branches
      <4> QED BY <1>1, <3>2, <4>1 DEF n
    <3>4. \A i \in 1..b : branches[i] = e.branches[i]
      <4> TAKE i \in 1..b
      <4>1. p + i \in 1..n
        BY <3>2, <1>1
      <4>2. file[p + i] = e.branches[i]
        BY <1>5, <3>1, <4>1 DEF SectionAt, b
      <4> QED BY <3>3, <4>2
    <3>5. branches = e.branches
      BY <3>1, <3>3, <3>4, SeqsEqual DEF b
    <3> QED BY <1>6, <3>5
  <2> QED BY <2>2, <2>3, <2>4
<1>11. PathTaken(e, r)
  BY <1>3, <1>8, <1>9, <1>10 DEF PathTaken, n, at
<1> QED
  BY <1>6, <1>11 DEF r

LEMMA PathRefusedWhenRejected ==
    ASSUME NEW e, NEW x, Shaped(x), NEW p, NEW h, Rejected(e, x, p, h)
    PROVE  LET r == ParsePath(x, p, h)
           IN Shaped(r.ex) /\ SameBeforePath(x, r.ex) /\ PathRefused(e, x, r)
<1> DEFINE r == ParsePath(x, p, h)
           branches == SubSeq(file, p + 1, Len(file))
<1>1. /\ r.ex = [x EXCEPT !.branches = branches]
      /\ r.end \in Nat /\ r.end > Len(file) /\ Len(file) < End(e)
  BY Zenon DEF Rejected, RejectBranches
<1> HIDE DEF r, branches
<1>2. r.ex = [inputs |-> x.inputs, tag |-> x.tag, limits |-> x.limits,
              ranks |-> x.ranks, comms |-> x.comms, map |-> x.map,
              sizes |-> x.sizes, branches |-> branches, idx |-> x.idx,
              constraints |-> x.constraints]
  BY <1>1 DEF Shaped
<1>3. SameBeforePath(x, r.ex) /\ r.ex.branches = branches /\ r.ex.idx = x.idx
      /\ r.ex.constraints = x.constraints
  BY <1>2 DEF SameBeforePath
<1>4. Shaped(r.ex)
  BY <1>2, <1>3 DEF Shaped, SameBeforePath
<1> QED
  BY <1>1, <1>3, <1>4 DEF PathRefused, r

\* What a parse makes of x, cut file or not.
ParsedFrom(e, x, g, h) ==
    LET r == Parse(x, g, h)
        y == ParseIndices(x, g)
    IN /\ Shaped(y) /\ Shaped(r.ex) /\ SameBeforePath(y, r.ex)
       /\ PathRefused(e, x, r) \/ PathTaken(e, r)

LEMMA ParseResult ==
    ASSUME NEW e, PrefixOf(e), NEW x, Shaped(x), NEW g \in Nat, NEW h \in Nat
    PROVE  ParsedFrom(e, x, g, h)
<1> DEFINE r == Parse(x, g, h)
           y == ParseIndices(x, g)
           p == PathStart(g)
           f == Following(Section(g).sizes, 1)
<1>1. Shaped(y) /\ y.constraints = x.constraints
  BY IndicesParsed, Zenon DEF IndicesMade
<1>2. p = f.at
  BY DEF PathStart, Following
<1>3. Found(f, BranchesAt(e), Len(e.branches))
  BY SectionsFound DEF AllFound
<1>4. r = ParsePath(y, p, h)
  BY DEF Parse
<1> HIDE DEF r, y, f
<1>5. p \in Nat \ {0} /\ (p <= Len(file) => p = BranchesAt(e))
      /\ (BranchesAt(e) <= Len(file) => p = BranchesAt(e))
  BY <1>2, <1>3 DEF Found
<1> HIDE DEF p
<1>6. Rejected(e, y, p, h) \/ \E m \in Nat : Accepted(e, y, p, h, m)
  BY <1>5, PathRead
<1>7. CASE Rejected(e, y, p, h)
  <2>1. Shaped(r.ex) /\ SameBeforePath(y, r.ex) /\ PathRefused(e, y, r)
    BY <1>1, <1>4, <1>7, PathRefusedWhenRejected
  <2>2. PathRefused(e, x, r)
    BY <1>1, <2>1 DEF PathRefused
  <2> QED BY <1>1, <2>1, <2>2 DEF ParsedFrom, r, y
<1>8. CASE \E m \in Nat : Accepted(e, y, p, h, m)
  <2>1. Shaped(r.ex) /\ SameBeforePath(y, r.ex) /\ PathTaken(e, r)
    BY <1>1, <1>4, <1>8, PathTakenWhenAccepted
  <2> QED BY <1>1, <2>1 DEF ParsedFrom, r, y
<1> QED
  BY <1>6, <1>7, <1>8

\* The tag is where the inputs that precede it say it is.
LEMMA TagParsed ==
    ASSUME NEW e, PrefixOf(e), NEW x, Shaped(x), NEW g \in Nat,
           Len(e.inputs) + 2 <= Len(file)
    PROVE  ParseIndices(x, g).tag = e.tag
<1> DEFINE s == Section(g)
<1>1. ParseIndices(x, g).tag = Item(s.inputs.at + s.inputs.len + 1, x.tag)
  BY IndicesParsed, Zenon DEF IndicesMade
<1>2. Found(s.inputs, 1, Len(e.inputs))
  BY SectionsFound DEF AllFound
<1>3. Typed(e) /\ Len(file) \in Nat /\ Len(e.inputs) \in Nat
  BY LengthTypes DEF PrefixOf, Prefix
<1>4. s.inputs.at = 1 /\ s.inputs.len = Len(e.inputs)
  BY <1>2, <1>3 DEF Found
<1>5. ParseIndices(x, g).tag = Item(Len(e.inputs) + 2, x.tag)
  <2>1. 1 + Len(e.inputs) + 1 = Len(e.inputs) + 2
    BY <1>3
  <2> QED BY <1>1, <1>4, <2>1
<1>6. Len(e.inputs) + 2 \in 1..Len(file)
  BY <1>3
<1>7. Serialize(e)[Len(e.inputs) + 2] = e.tag
  BY <1>3, Written DEF Laid, IndicesLaid
<1> QED
  BY <1>5, <1>6, <1>7 DEF Item, PrefixOf, Prefix

\* The indices that any parse of the file finds.
FileIndices ==
    LET s == Section(0)
    IN <<Items(s.ranks.at, s.ranks.len, <<>>),
         Items(s.comms.at, s.comms.len, <<>>),
         Items(s.sizes.at, s.sizes.len, <<>>)>>

\* They do not depend on the object, nor on what is uninitialized.
LEMMA FileIndicesParsed ==
    ASSUME NEW x, Shaped(x), NEW g, 1 <= Len(file)
    PROVE  Indices(ParseIndices(x, g)) = FileIndices
<1>1. Section(g) = Section(0)
  BY DEF Section, Item
<1> DEFINE y == ParseIndices(x, g)
           s == Section(0)
<1>2. IndicesMade(x, g)
  BY IndicesParsed
<1>3. /\ y.ranks = Items(s.ranks.at, s.ranks.len, <<>>)
      /\ y.comms = Items(s.comms.at, s.comms.len, <<>>)
      /\ y.sizes = Items(s.sizes.at, s.sizes.len, <<>>)
  BY <1>1, <1>2 DEF IndicesMade
<1> HIDE DEF y
<1> QED
  BY <1>3 DEF Indices, FileIndices, y

\* A whole file is read as it was written.
LEMMA WholeParsed ==
    ASSUME NEW e, PrefixOf(e), Shaped(e), Len(file) = End(e),
           NEW x, Shaped(x), NEW g \in Nat, NEW h \in Nat
    PROVE  Parse(x, g, h).ex = e
<1> DEFINE r == Parse(x, g, h)
           y == ParseIndices(x, g)
           s == Section(g)
           t == Serialize(e)
<1>1. Typed(e) /\ Laid(t, e)
  BY Written DEF PrefixOf, Prefix
<1>2. Shaped(y) /\ Shaped(r.ex) /\ SameBeforePath(y, r.ex)
      /\ (PathRefused(e, x, r) \/ PathTaken(e, r))
  BY ParseResult, Zenon DEF ParsedFrom
<1>3. r.ex.branches = e.branches /\ r.ex.idx = e.idx
      /\ r.ex.constraints = e.constraints
  <2>1. End(e) \in Nat
    BY <1>1, LengthTypes
  <2>2. ~PathRefused(e, x, r)
    BY <2>1 DEF PathRefused
  <2> QED BY <1>2, <2>2 DEF PathTaken
<1>4. AllFound(e, s)
  BY SectionsFound
<1>5. /\ e.inputs \in Seq(ItemSet) /\ e.limits \in Seq(ItemSet)
      /\ e.ranks \in Seq(ItemSet) /\ e.comms \in Seq(ItemSet)
      /\ e.map \in Seq(ItemSet) /\ e.sizes \in Seq(ItemSet)
  BY <1>1, ItemSequences
<1>6. \* Every section ends before the next one begins, and within the file.
      /\ 1 + Len(e.inputs) <= End(e) /\ Len(e.inputs) + 2 <= End(e)
      /\ LimitsAt(e) + Len(e.limits) <= End(e)
      /\ RanksAt(e) + Len(e.ranks) <= End(e)
      /\ CommsAt(e) + Len(e.comms) <= End(e)
      /\ MapAt(e) + Len(e.map) <= End(e)
      /\ SizesAt(e) + Len(e.sizes) <= End(e)
  <2>1. 1 + Len(e.inputs) <= End(e) /\ Len(e.inputs) + 2 <= End(e)
    <3> DEFINE i == Len(e.inputs)
    <3>1. i \in Nat /\ i + 3 <= LimitsAt(e)
      BY <1>1, LengthTypes
    <3> HIDE DEF i
    <3>2. 1 + i <= End(e) /\ i + 2 <= End(e)
      BY <1>1, <3>1, LengthTypes
    <3> QED BY <3>2 DEF i
  <2>2. /\ SectionAt(t, LimitsAt(e), e.limits) /\ SectionAt(t, RanksAt(e), e.ranks)
        /\ SectionAt(t, CommsAt(e), e.comms) /\ SectionAt(t, MapAt(e), e.map)
        /\ SectionAt(t, SizesAt(e), e.sizes) /\ Len(t) = End(e)
    BY <1>1 DEF Laid, IndicesLaid
  <2> HIDE DEF t
  <2> QED BY <2>1, <2>2 DEF SectionAt
<1>7. /\ SectionAt(t, 1, e.inputs)
      /\ SectionAt(t, LimitsAt(e), e.limits) /\ SectionAt(t, RanksAt(e), e.ranks)
      /\ SectionAt(t, CommsAt(e), e.comms) /\ SectionAt(t, MapAt(e), e.map)
      /\ SectionAt(t, SizesAt(e), e.sizes)
  BY <1>1 DEF Laid, IndicesLaid
<1>8. /\ y.inputs = Items(s.inputs.at, s.inputs.len, x.inputs)
      /\ y.limits = Limits(s.limits.at, s.limits.len)
      /\ y.ranks = Items(s.ranks.at, s.ranks.len, <<>>)
      /\ y.comms = Items(s.comms.at, s.comms.len, <<>>)
      /\ y.map = [i \in 1..s.map.len |-> Item(s.map.at + i, [j \in 1..g |-> 0])]
      /\ y.sizes = Items(s.sizes.at, s.sizes.len, <<>>)
  <2>1. IndicesMade(x, g)
    BY IndicesParsed
  <2> QED BY <2>1 DEF IndicesMade
<1>9. y.inputs = e.inputs
  <2>1. ReadAs(s.inputs, 1, e.inputs)
    BY <1>4, <1>5, <1>6, <1>7, VectorRead DEF AllFound
  <2> QED BY <1>8, <2>1 DEF ReadAs
<1>10. y.ranks = e.ranks
  <2>1. ReadAs(s.ranks, RanksAt(e), e.ranks)
    BY <1>4, <1>5, <1>6, <1>7, VectorRead DEF AllFound
  <2> QED BY <1>8, <2>1 DEF ReadAs
<1>11. y.comms = e.comms
  <2>1. ReadAs(s.comms, CommsAt(e), e.comms)
    BY <1>4, <1>5, <1>6, <1>7, VectorRead DEF AllFound
  <2> QED BY <1>8, <2>1 DEF ReadAs
<1>12. y.sizes = e.sizes
  <2>1. ReadAs(s.sizes, SizesAt(e), e.sizes)
    BY <1>4, <1>5, <1>6, <1>7, VectorRead DEF AllFound
  <2> QED BY <1>8, <2>1 DEF ReadAs
<1>13. y.map = e.map
  <2>1. ReadAs(s.map, MapAt(e), e.map)
    BY <1>4, <1>5, <1>6, <1>7, VectorRead DEF AllFound
  <2>2. y.map = [i \in 1..s.map.len |-> Item(s.map.at + i, [j \in 1..g |-> 0])]
    BY <1>8
  <2>3. e.map = [i \in 1..Len(e.map) |-> e.map[i]]
    BY <1>5
  <2>4. /\ s.map.at = MapAt(e) /\ s.map.len = Len(e.map)
        /\ \A i \in 1..Len(e.map) : \A old : Item(MapAt(e) + i, old) = e.map[i]
    BY <2>1 DEF ReadAs
  <2> HIDE DEF y, s
  <2>5. y.map = [i \in 1..Len(e.map) |-> Item(MapAt(e) + i, [j \in 1..g |-> 0])]
    BY <2>2, <2>4
  <2> QED BY <2>3, <2>4, <2>5
<1>14. y.limits = e.limits
  <2>1. Limits(s.limits.at, s.limits.len) = e.limits
    BY <1>4, <1>5, <1>6, <1>7, LimitsRead DEF AllFound
  <2> QED BY <1>8, <2>1
<1>15. y.tag = e.tag
  BY <1>6, TagParsed
<1> HIDE DEF r, y
<1>16. /\ r.ex.inputs = e.inputs /\ r.ex.tag = e.tag /\ r.ex.limits = e.limits
       /\ r.ex.ranks = e.ranks /\ r.ex.comms = e.comms /\ r.ex.map = e.map
       /\ r.ex.sizes = e.sizes
  BY <1>2, <1>9, <1>10, <1>11, <1>12, <1>13, <1>14, <1>15 DEF SameBeforePath
<1>17. r.ex = e
  BY <1>2, <1>3, <1>16 DEF Shaped
<1> QED BY <1>17 DEF r

-----------------------------------------------------------------------------
(* The inductive invariant.                                                *)

TypeInv ==
    /\ job \in Nat /\ exists \in BOOLEAN /\ into \in Objects
    /\ objects = [o \in Objects |-> objects[o]]
    /\ \A o \in Objects : Shaped(objects[o])

\* The file came from e, and history says so.
WrittenFrom(e) ==
    /\ PrefixOf(e)
    /\ written = IF Len(file) < End(e) THEN Fresh ELSE e
    /\ Len(file) < End(e) => CutIn(e, Len(file)) \in cuts

\* The file is what some job wrote, or as much of it as the job got to write.
FileIsOfAJob ==
    IF exists
    THEN \E s \in Shapes : \E j \in 1..job : WrittenFrom(Recorded(s, j))
    ELSE written = Fresh

\* The constraints that may be used are those of one job.
OneJob(x) ==
    \E j \in Nat : \A i \in DOMAIN x.constraints :
        x.constraints[i].state = "live" /\ x.constraints[i] # Blank
            => x.constraints[i].job = j

EachOneJob == \A o \in Objects : OneJob(objects[o])

\* Where a reader that trusts the file looks for its tag.
TagIn(f) == f[f[1] + 2]

\* A tag stands for the indices of the job that has it: in the objects, and
\* in the file that the next parse reads.
TagsNameIndices ==
    "inputs" \notin cuts =>
        /\ \A o \in Objects : objects[o].tag \in 0..job
        /\ \A o, p \in Objects :
              objects[o].tag = objects[p].tag
                  => Indices(objects[o]) = Indices(objects[p])
        /\ exists => \A o \in Objects :
              objects[o].tag = TagIn(file) => Indices(objects[o]) = FileIndices

IInv ==
    /\ TypeInv /\ FileIsOfAJob /\ WholeFilesRead /\ EachOneJob
    /\ ConstraintsUsable /\ TagsNameIndices

-----------------------------------------------------------------------------
(* What the invariant says of the file.                                    *)

LEMMA RecordedFacts ==
    ASSUME NEW s \in Shapes, NEW j \in Nat \ {0}
    PROVE  LET e == Recorded(s, j)
           IN /\ Typed(e) /\ Shaped(e) /\ e.tag = j /\ e # Fresh
              /\ \A i \in 1..Len(e.constraints) :
                    e.constraints[i].job = j /\ e.constraints[i].state = "live"
<1> DEFINE e == Recorded(s, j)
<1>1. Typed(e)
  BY RecordedTyped
<1>2. e.tag = j
  BY DEF Recorded
<1>3. Shaped(e)
  BY DEF Recorded, Shaped
<1>4. Fresh.tag = 0
  BY DEF Fresh
<1>5. \A i \in 1..Len(e.constraints) :
         e.constraints[i].job = j /\ e.constraints[i].state = "live"
  <2>1. e.constraints = [i \in DOMAIN s.preds |-> Pred(j, s.preds[i])]
    BY DEF Recorded
  <2>2. e.constraints \in Seq(Preds)
    BY <1>1 DEF Typed
  <2> HIDE DEF e
  <2>3. 1..Len(e.constraints) = DOMAIN e.constraints
    BY <2>2
  <2>4. DOMAIN e.constraints = DOMAIN s.preds
    BY <2>1
  <2> TAKE i \in 1..Len(e.constraints)
  <2>5. e.constraints[i] = Pred(j, s.preds[i])
    BY <2>1, <2>3, <2>4
  <2> QED BY <2>5 DEF Pred
<1> HIDE DEF e
<1>6. e # Fresh
  BY <1>2, <1>4
<1> QED
  BY <1>1, <1>2, <1>3, <1>5, <1>6 DEF e

\* What is cut elsewhere than in the inputs has its tag, and what is cut
\* elsewhere than in the constraints lacks a branch.
LEMMA CutFacts ==
    ASSUME NEW e, Typed(e), NEW n \in Nat
    PROVE  /\ CutIn(e, n) # "inputs" => Len(e.inputs) + 2 <= n
           /\ CutIn(e, n) # "constraints" => n < CountAt(e) - 1
           /\ Len(e.inputs) + 2 <= End(e)
<1> DEFINE i == Len(e.inputs)
           b == Len(e.branches)
           l == Len(SerializeIndices(e))
<1>1. i \in Nat /\ b \in Nat /\ i + 3 <= LimitsAt(e) /\ l = BranchesAt(e) - 1
      /\ CountAt(e) = BranchesAt(e) + b + 1
  BY LengthTypes, Written DEF CountAt
<1>2. CutIn(e, n) = IF n <= i + 1 THEN "inputs"
                    ELSE IF n - l < 0 THEN "indices"
                    ELSE IF n - l <= b THEN "branches" ELSE "constraints"
  BY DEF CutIn
<1> HIDE DEF i, b, l
<1>3. LimitsAt(e) \in Nat /\ BranchesAt(e) \in Nat /\ LimitsAt(e) < BranchesAt(e)
      /\ CountAt(e) \in Nat /\ CountAt(e) <= End(e) /\ End(e) \in Nat
  BY LengthTypes
<1>4. CutIn(e, n) # "inputs" => i + 2 <= n
  BY <1>1, <1>2
<1>5. CutIn(e, n) # "constraints" => n < CountAt(e) - 1
  <2>1. CASE n <= i + 1
    BY <1>1, <1>3, <2>1
  <2>2. CASE n - l < 0
    BY <1>1, <1>3, <2>2
  <2>3. CASE n - l <= b
    BY <1>1, <1>3, <2>3
  <2>4. CASE ~(n <= i + 1) /\ ~(n - l < 0) /\ ~(n - l <= b)
    BY <1>2, <2>4
  <2> QED BY <2>1, <2>2, <2>3, <2>4
<1>6. i + 2 <= End(e)
  BY <1>1, <1>3, LengthTypes
<1> QED
  BY <1>4, <1>5, <1>6 DEF i

LEMMA TagInPrefix ==
    ASSUME NEW f, NEW e, Prefix(f, e), Len(e.inputs) + 2 <= Len(f)
    PROVE  TagIn(f) = e.tag /\ 1 <= Len(f)
<1>1. Typed(e) /\ Len(f) \in Nat /\ Len(e.inputs) \in Nat
  BY LengthTypes DEF Prefix
<1>2. 1 \in 1..Len(f) /\ Len(e.inputs) + 2 \in 1..Len(f)
  BY <1>1
<1>3. SectionAt(Serialize(e), 1, e.inputs)
      /\ Serialize(e)[Len(e.inputs) + 2] = e.tag
  BY <1>1, Written DEF Laid, IndicesLaid
<1>4. f[1] = Len(e.inputs) /\ f[Len(e.inputs) + 2] = e.tag
  BY <1>2, <1>3 DEF Prefix, SectionAt
<1> QED
  BY <1>1, <1>2, <1>4 DEF TagIn

LEMMA FreshFacts ==
    /\ Shaped(Fresh) /\ Fresh.tag = 0 /\ Fresh.constraints = <<>>
  BY DEF Fresh, Shaped

LEMMA InitIInv == Init => IInv
<1> SUFFICES ASSUME Init PROVE IInv
  OBVIOUS
<1>1. /\ job = 0 /\ exists = FALSE /\ written = Fresh /\ cuts = {} /\ phase = "run"
      /\ into = "ex_" /\ objects = [o \in Objects |-> Fresh]
  BY DEF Init
<1>2. \A o \in Objects : objects[o] = Fresh
  BY <1>1
<1>3. TypeInv
  BY <1>1, <1>2, FreshFacts DEF TypeInv, Objects
<1>4. FileIsOfAJob /\ WholeFilesRead
  BY <1>1 DEF FileIsOfAJob, WholeFilesRead
<1>5. EachOneJob /\ ConstraintsUsable
  BY <1>2, FreshFacts DEF EachOneJob, OneJob, ConstraintsUsable, ToSet
<1>6. TagsNameIndices
  BY <1>1, <1>2, FreshFacts DEF TagsNameIndices
<1> QED
  BY <1>3, <1>4, <1>5, <1>6 DEF IInv

-----------------------------------------------------------------------------
(* The steps.                                                              *)

LEMMA JobWritesStep ==
    ASSUME IInv, NEW s \in Shapes, NEW n \in 0..Len(Serialize(Recorded(s, job + 1))),
           JobWrites(s, n)
    PROVE  IInv'
<1>1. PICK j : j = job + 1
  OBVIOUS
<1> DEFINE e == Recorded(s, j)
           f == SubSeq(Serialize(e), 1, n)
<1>2. job \in Nat /\ j \in Nat \ {0}
  BY <1>1 DEF IInv, TypeInv
<1>3. /\ job' = j /\ phase' = "read" /\ exists' = TRUE /\ file' = f
      /\ written' = IF n < Len(Serialize(e)) THEN Fresh ELSE e
      /\ cuts' = cuts \cup (IF n < Len(Serialize(e)) THEN {CutIn(e, n)} ELSE {})
      /\ into' = into /\ objects' = objects /\ accepted' = accepted
  BY <1>1 DEF JobWrites
<1>4. Typed(e) /\ e.tag = j
  <2>1. Recorded(s, j).tag = j
    BY DEF Recorded
  <2> QED BY <1>2, <2>1, RecordedTyped
<1>5. Prefix(f, e) /\ Len(f) = n /\ Len(Serialize(e)) = End(e) /\ n \in Nat
      /\ n <= End(e) /\ End(e) \in Nat
  <2>1. n \in 0..Len(Serialize(e))
    BY <1>1
  <2> HIDE DEF e
  <2>2. Len(Serialize(e)) = End(e) /\ End(e) \in Nat
    BY <1>4, Written, LengthTypes DEF Laid
  <2> QED BY <1>4, <2>1, <2>2, SubSeqIsPrefix
<1> HIDE DEF e, f
<1>6. TypeInv'
  BY <1>2, <1>3 DEF IInv, TypeInv
<1>7. FileIsOfAJob'
  <2>1. WrittenFrom(e)'
    <3>1. Prefix(file', e) /\ Len(file') = n
      BY <1>3, <1>5
    <3>2. written' = IF Len(file') < End(e) THEN Fresh ELSE e
      BY <1>3, <1>5, <3>1
    <3>3. Len(file') < End(e) => CutIn(e, Len(file')) \in cuts'
      BY <1>3, <1>5, <3>1
    <3> QED BY <3>1, <3>2, <3>3 DEF WrittenFrom, PrefixOf
  <2>2. j \in 1..job'
    BY <1>2, <1>3
  <2> QED BY <1>3, <2>1, <2>2 DEF FileIsOfAJob, e
<1>8. WholeFilesRead'
  BY <1>3 DEF WholeFilesRead
<1>9. EachOneJob' /\ ConstraintsUsable'
  BY <1>3 DEF IInv, EachOneJob, ConstraintsUsable
<1>10. TagsNameIndices'
  <2> SUFFICES ASSUME "inputs" \notin cuts'
               PROVE  TagsNameIndices'
    BY DEF TagsNameIndices
  <2>1. /\ \A o \in Objects : objects[o].tag \in 0..job
        /\ \A o, p \in Objects : objects[o].tag = objects[p].tag
              => Indices(objects[o]) = Indices(objects[p])
    BY <1>3 DEF IInv, TagsNameIndices
  <2>2. Len(e.inputs) + 2 <= n
    <3>1. CASE n < End(e)
      <4>1. CutIn(e, n) # "inputs"
        BY <1>3, <1>5, <3>1
      <4> QED BY <1>4, <1>5, <4>1, CutFacts
    <3>2. CASE ~(n < End(e))
      <4>1. n = End(e)
        BY <1>5, <3>2
      <4> QED BY <1>4, <1>5, <4>1, CutFacts
    <3> QED BY <3>1, <3>2
  <2>3. TagIn(file') = j
    BY <1>3, <1>4, <1>5, <2>2, TagInPrefix
  <2>4. \A o \in Objects : objects'[o].tag \in 0..job' /\ objects'[o].tag # TagIn(file')
    BY <1>1, <1>2, <1>3, <2>1, <2>3
  <2> QED BY <1>3, <2>1, <2>4 DEF TagsNameIndices
<1> QED
  BY <1>6, <1>7, <1>8, <1>9, <1>10 DEF IInv

\* The file and history stay: what the invariant says of them does, too.
LEMMA FileKept ==
    ASSUME IInv, UNCHANGED disk
    PROVE  FileIsOfAJob'
  BY DEF IInv, FileIsOfAJob, WrittenFrom, PrefixOf, disk

LEMMA FileIndicesKept ==
    ASSUME file' = file
    PROVE  FileIndices' = FileIndices
<1>1. \A p : \A old : Item(p, old)' = Item(p, old)
  BY DEF Item
<1>2. \A p : \A n : Items(p, n, <<>>)' = Items(p, n, <<>>)
  BY <1>1 DEF Items
<1>3. \A s : \A gap : Following(s, gap)' = Following(s, gap)
  BY <1>1 DEF Following
<1>4. Section(0)' = Section(0)
  BY <1>1, <1>3, Zenon DEF Section, SectionsFrom
<1> QED
  BY <1>2, <1>4, Zenon DEF FileIndices

LEMMA JobDiesStep ==
    ASSUME IInv, JobDies
    PROVE  IInv'
<1>1. /\ job' = job + 1 /\ phase' = "read" /\ exists' = exists /\ file' = file
      /\ written' = written /\ cuts' = cuts /\ into' = into /\ objects' = objects
  BY DEF JobDies
<1>2. job \in Nat
  BY DEF IInv, TypeInv
<1>3. TypeInv' /\ WholeFilesRead' /\ EachOneJob' /\ ConstraintsUsable'
  BY <1>1, <1>2 DEF IInv, TypeInv, WholeFilesRead, EachOneJob, ConstraintsUsable
<1>4. FileIsOfAJob'
  <2>1. \A j : j \in 1..job => j \in 1..job'
    BY <1>1, <1>2
  <2>2. \A x : WrittenFrom(x)' <=> WrittenFrom(x)
    BY <1>1 DEF WrittenFrom, PrefixOf
  <2> QED BY <1>1, <2>1, <2>2 DEF IInv, FileIsOfAJob
<1>5. TagsNameIndices'
  <2>1. \A k : k \in 0..job => k \in 0..job'
    BY <1>1, <1>2
  <2>2. FileIndices' = FileIndices
    BY <1>1, FileIndicesKept
  <2> QED BY <1>1, <2>1, <2>2 DEF IInv, TagsNameIndices
<1> QED
  BY <1>3, <1>4, <1>5 DEF IInv

\* Steps that leave the objects and the disk alone.
LEMMA ObjectsKept ==
    ASSUME IInv, UNCHANGED <<disk, objects>>, into' \in Objects, WholeFilesRead'
    PROVE  IInv'
<1>1. /\ job' = job /\ exists' = exists /\ file' = file /\ written' = written
      /\ cuts' = cuts /\ objects' = objects
  BY DEF disk
<1>2. TypeInv' /\ EachOneJob' /\ ConstraintsUsable'
  BY <1>1 DEF IInv, TypeInv, EachOneJob, ConstraintsUsable
<1>3. FileIndices' = FileIndices
  BY <1>1, FileIndicesKept
<1>4. TagsNameIndices'
  BY <1>1, <1>3 DEF IInv, TagsNameIndices
<1> QED
  BY <1>2, <1>4, FileKept DEF IInv

LEMMA SwapStep ==
    ASSUME IInv, Swap
    PROVE  IInv'
<1>1. /\ UNCHANGED disk /\ into' = into /\ phase' = "search"
      /\ objects' = [ex_ |-> objects["next_ex"], next_ex |-> objects["ex_"]]
  BY DEF Swap
<1>2. /\ job' = job /\ exists' = exists /\ file' = file /\ written' = written
      /\ cuts' = cuts
  BY <1>1 DEF disk
<1>3. objects'["ex_"] = objects["next_ex"] /\ objects'["next_ex"] = objects["ex_"]
      /\ objects' = [o \in Objects |-> objects'[o]]
  BY <1>1 DEF Objects
<1>4. \A o \in Objects : \E p \in Objects : objects'[o] = objects[p]
  BY <1>3 DEF Objects
<1>5. TypeInv' /\ EachOneJob' /\ ConstraintsUsable'
  <2>1. TypeInv'
    BY <1>1, <1>2, <1>3, <1>4 DEF IInv, TypeInv
  <2>2. EachOneJob'
    BY <1>4 DEF IInv, EachOneJob, OneJob
  <2>3. ConstraintsUsable'
    BY <1>2, <1>4 DEF IInv, ConstraintsUsable
  <2> QED BY <2>1, <2>2, <2>3
<1>6. WholeFilesRead'
  BY <1>1 DEF WholeFilesRead
<1>7. FileIndices' = FileIndices
  BY <1>2, FileIndicesKept
<1>8. TagsNameIndices'
  <2> SUFFICES ASSUME "inputs" \notin cuts'
               PROVE  TagsNameIndices'
    BY DEF TagsNameIndices
  <2>1. /\ \A o \in Objects : objects[o].tag \in 0..job
        /\ \A o, p \in Objects : objects[o].tag = objects[p].tag
              => Indices(objects[o]) = Indices(objects[p])
        /\ exists => \A o \in Objects : objects[o].tag = TagIn(file)
              => Indices(objects[o]) = FileIndices
    BY <1>2 DEF IInv, TagsNameIndices
  <2>2. \A o \in Objects : objects'[o].tag \in 0..job'
    BY <1>2, <1>4, <2>1
  <2>3. \A o, p \in Objects : objects'[o].tag = objects'[p].tag
              => Indices(objects'[o]) = Indices(objects'[p])
    BY <1>4, <2>1
  <2>4. exists' => \A o \in Objects : objects'[o].tag = TagIn(file')
              => Indices(objects'[o]) = FileIndices'
    BY <1>2, <1>4, <1>7, <2>1
  <2> QED BY <2>2, <2>3, <2>4 DEF TagsNameIndices
<1> QED
  BY <1>1, <1>5, <1>6, <1>8, FileKept DEF IInv

LEMMA ReadStep ==
    ASSUME IInv, ReadExecution
    PROVE  IInv'
<1>1. /\ exists /\ UNCHANGED disk /\ into' = into
      /\ \E g, h \in Uninitialized :
            LET parsed == Parse(objects[into], g, h)
            IN /\ objects' = [objects EXCEPT ![into] = parsed.ex]
               /\ accepted' = (parsed.end <= Len(file))
  BY DEF ReadExecution
<1>2. PICK g \in Uninitialized, h \in Uninitialized :
         LET parsed == Parse(objects[into], g, h)
         IN /\ objects' = [objects EXCEPT ![into] = parsed.ex]
            /\ accepted' = (parsed.end <= Len(file))
  BY <1>1
<1> DEFINE x == objects[into]
           r == Parse(x, g, h)
           y == ParseIndices(x, g)
<1>3. objects' = [objects EXCEPT ![into] = r.ex] /\ accepted' = (r.end <= Len(file))
  BY <1>2
<1>4. g \in Nat /\ h \in Nat
  BY FileAssumption
<1>5. /\ job' = job /\ exists' = exists /\ file' = file /\ written' = written
      /\ cuts' = cuts /\ into' = into /\ exists = TRUE
  BY <1>1 DEF disk, IInv, TypeInv
<1>6. PICK s \in Shapes, j \in 1..job : WrittenFrom(Recorded(s, j))
  BY <1>5 DEF IInv, FileIsOfAJob
<1> DEFINE e == Recorded(s, j)
           n == Len(file)
<1>7. /\ PrefixOf(e) /\ written = IF n < End(e) THEN Fresh ELSE e
      /\ n < End(e) => CutIn(e, n) \in cuts
  BY <1>6 DEF WrittenFrom
<1>8. j \in Nat \ {0} /\ j \in 0..job
  BY DEF IInv, TypeInv
<1>9. /\ Typed(e) /\ Shaped(e) /\ e.tag = j /\ e # Fresh
      /\ \A i \in 1..Len(e.constraints) :
            e.constraints[i].job = j /\ e.constraints[i].state = "live"
  BY <1>8, RecordedFacts
<1> HIDE DEF e
<1>10. n \in Nat /\ n <= End(e) /\ End(e) \in Nat /\ CountAt(e) \in Nat
  BY <1>7, <1>9, LengthTypes DEF PrefixOf, Prefix
<1>11. Shaped(x) /\ into \in Objects /\ objects = [o \in Objects |-> objects[o]]
  BY DEF IInv, TypeInv
<1>12. ParsedFrom(e, x, g, h)
  BY <1>4, <1>7, <1>11, ParseResult
<1>13. /\ Shaped(y) /\ Shaped(r.ex) /\ SameBeforePath(y, r.ex)
       /\ PathRefused(e, x, r) \/ PathTaken(e, r)
  BY <1>12, Zenon DEF ParsedFrom
<1>14. n = End(e) => r.ex = e
  BY <1>4, <1>7, <1>9, <1>11, WholeParsed
<1>15. y.tag = e.tag \/ n < Len(e.inputs) + 2
  <2>1. Len(e.inputs) \in Nat
    BY <1>9, LengthTypes
  <2>2. CASE Len(e.inputs) + 2 <= n
    BY <1>4, <1>7, <1>11, <2>2, TagParsed
  <2>3. CASE ~(Len(e.inputs) + 2 <= n)
    BY <1>10, <2>1, <2>3
  <2> QED BY <2>2, <2>3
<1>16. 1 <= n => Indices(y) = FileIndices
  BY <1>11, FileIndicesParsed
<1> HIDE DEF x, y, r, n
<1>17. /\ objects'[into] = r.ex /\ objects' = [o \in Objects |-> objects'[o]]
       /\ \A o \in Objects : o # into => objects'[o] = objects[o]
  BY <1>3, <1>11
<1>18. TypeInv'
  BY <1>5, <1>13, <1>17 DEF IInv, TypeInv
<1>19. FileIsOfAJob'
  BY <1>1, FileKept
<1>20. r.end <= n <=> n = End(e)
  BY <1>10, <1>13 DEF PathRefused, PathTaken, n
<1>21. WholeFilesRead'
  <2>1. accepted' <=> n = End(e)
    BY <1>3, <1>20 DEF n
  <2>2. written' # Fresh <=> n = End(e)
    BY <1>5, <1>7, <1>9, <1>10
  <2>3. n = End(e) => objects'[into'] = written'
    BY <1>5, <1>7, <1>10, <1>14, <1>17
  <2> QED BY <2>1, <2>2, <2>3 DEF WholeFilesRead
<1>22. EachOneJob'
  <2>1. OneJob(x)
    BY <1>11 DEF IInv, EachOneJob, x
  <2>2. OneJob(r.ex)
    <3>1. CASE PathRefused(e, x, r)
      BY <2>1, <3>1 DEF PathRefused, OneJob
    <3>2. CASE PathTaken(e, r)
      <4>1. ASSUME NEW i \in DOMAIN r.ex.constraints,
                   r.ex.constraints[i].state = "live",
                   r.ex.constraints[i] # Blank
            PROVE  r.ex.constraints[i].job = j
        BY <1>9, <3>2, <4>1 DEF PathTaken, Entry
      <4> QED BY <1>8, <4>1 DEF OneJob
    <3> QED BY <1>13, <3>1, <3>2
  <2>3. \A o \in Objects : OneJob(objects'[o])
    BY <1>17, <2>2 DEF IInv, EachOneJob
  <2> QED BY <2>3 DEF EachOneJob, OneJob
<1>23. ConstraintsUsable'
  <2> SUFFICES ASSUME "constraints" \notin cuts', NEW o \in Objects,
                      NEW c \in ToSet(objects'[o].constraints)
               PROVE  c.state = "live"
    BY DEF ConstraintsUsable
  <2>1. \A d \in ToSet(x.constraints) : d.state = "live"
    BY <1>5, <1>11 DEF IInv, ConstraintsUsable, x
  <2>2. CASE o # into
    BY <1>5, <1>17, <2>2 DEF IInv, ConstraintsUsable
  <2>3. CASE o = into /\ PathRefused(e, x, r)
    BY <1>17, <2>1, <2>3 DEF PathRefused
  <2>4. CASE o = into /\ PathTaken(e, r)
    <3>1. n = End(e)
      <4> SUFFICES ASSUME n # End(e) PROVE FALSE
        OBVIOUS
      <4>1. n < End(e)
        BY <1>10
      <4>2. CutIn(e, n) # "constraints"
        BY <1>5, <1>7, <4>1
      <4>3. n < CountAt(e) - 1
        BY <1>9, <1>10, <4>2, CutFacts
      <4> QED BY <1>10, <2>4, <4>3 DEF PathTaken, n
    <3>2. objects'[o].constraints = e.constraints
      BY <1>14, <1>17, <2>4, <3>1
    <3>3. e.constraints \in Seq(Preds)
      BY <1>9 DEF Typed
    <3>4. DOMAIN e.constraints = 1..Len(e.constraints)
      BY <3>3
    <3> QED BY <1>9, <3>2, <3>4 DEF ToSet
  <2> QED BY <1>13, <2>2, <2>3, <2>4
<1>24. TagsNameIndices'
  <2> SUFFICES ASSUME "inputs" \notin cuts'
               PROVE  TagsNameIndices'
    BY DEF TagsNameIndices
  <2>1. /\ \A o \in Objects : objects[o].tag \in 0..job
        /\ \A o, p \in Objects : objects[o].tag = objects[p].tag
              => Indices(objects[o]) = Indices(objects[p])
        /\ \A o \in Objects : objects[o].tag = TagIn(file)
              => Indices(objects[o]) = FileIndices
    BY <1>5 DEF IInv, TagsNameIndices
  <2>2. Len(e.inputs) + 2 <= n
    <3>1. CASE n < End(e)
      <4>1. CutIn(e, n) # "inputs"
        BY <1>5, <1>7, <3>1
      <4> QED BY <1>9, <1>10, <4>1, CutFacts
    <3>2. CASE ~(n < End(e))
      <4>1. n = End(e)
        BY <1>10, <3>2
      <4> QED BY <1>9, <1>10, <4>1, CutFacts
    <3> QED BY <3>1, <3>2
  <2>3. TagIn(file) = j /\ 1 <= n
    BY <1>7, <1>9, <2>2, TagInPrefix DEF PrefixOf, n
  <2>4. r.ex.tag = j /\ Indices(r.ex) = FileIndices
    <3>1. y.tag = e.tag
      <4>1. Len(e.inputs) \in Nat
        BY <1>9, LengthTypes
      <4> QED BY <1>10, <1>15, <2>2, <4>1
    <3> QED BY <1>9, <1>13, <1>16, <2>3, <3>1 DEF SameBeforePath, Indices
  <2>5. FileIndices' = FileIndices
    BY <1>5, FileIndicesKept
  <2>6. \A o \in Objects : objects'[o].tag \in 0..job'
    BY <1>5, <1>8, <1>17, <2>1, <2>4
  <2>7. \A o \in Objects : objects'[o].tag = j => Indices(objects'[o]) = FileIndices
    BY <1>17, <2>1, <2>3, <2>4
  <2>8. \A o, p \in Objects : objects'[o].tag = objects'[p].tag
              => Indices(objects'[o]) = Indices(objects'[p])
    <3> SUFFICES ASSUME NEW o \in Objects, NEW p \in Objects,
                        objects'[o].tag = objects'[p].tag
                 PROVE  Indices(objects'[o]) = Indices(objects'[p])
      OBVIOUS
    <3>1. CASE o = into \/ p = into
      BY <1>17, <2>4, <2>7, <3>1
    <3>2. CASE o # into /\ p # into
      BY <1>17, <2>1, <3>2
    <3> QED BY <3>1, <3>2
  <2> QED BY <1>5, <2>3, <2>5, <2>6, <2>7, <2>8 DEF TagsNameIndices
<1> QED
  BY <1>18, <1>19, <1>21, <1>22, <1>23, <1>24 DEF IInv

LEMMA NextIInv == IInv /\ [Next]_vars => IInv'
<1> SUFFICES ASSUME IInv, [Next]_vars PROVE IInv'
  OBVIOUS
<1>1. ASSUME NEW s \in Shapes, NEW n \in 0..Len(Serialize(Recorded(s, job + 1))),
             JobWrites(s, n)
      PROVE  IInv'
  BY <1>1, JobWritesStep
<1>2. CASE JobDies
  BY <1>2, JobDiesStep
<1>3. CASE ReadExecution
  BY <1>3, ReadStep
<1>4. CASE ReadFails
  <2>1. UNCHANGED <<disk, objects>> /\ into' = into /\ phase' = "undefined"
    BY <1>4 DEF ReadFails
  <2>2. into' \in Objects /\ WholeFilesRead'
    BY <2>1 DEF IInv, TypeInv, WholeFilesRead
  <2> QED BY <2>1, <2>2, ObjectsKept
<1>5. CASE ReadNothing
  <2>1. UNCHANGED <<disk, objects>> /\ into' = into /\ ~exists /\ accepted' = FALSE
    BY <1>5 DEF ReadNothing
  <2>2. written' = Fresh
    BY <2>1 DEF IInv, FileIsOfAJob, disk
  <2>3. into' \in Objects /\ WholeFilesRead'
    BY <2>1, <2>2 DEF IInv, TypeInv, WholeFilesRead
  <2> QED BY <2>1, <2>3, ObjectsKept
<1>6. CASE Swap
  BY <1>6, SwapStep
<1>7. CASE Stay
  <2>1. UNCHANGED <<disk, objects>> /\ into' = into /\ phase' = "search"
    BY <1>7 DEF Stay
  <2>2. into' \in Objects /\ WholeFilesRead'
    BY <2>1 DEF IInv, TypeInv, WholeFilesRead
  <2> QED BY <2>1, <2>2, ObjectsKept
<1>8. CASE Restart
  <2>1. UNCHANGED <<disk, objects>> /\ into' = "ex_" /\ phase' = "run"
    BY <1>8 DEF Restart
  <2>2. into' \in Objects /\ WholeFilesRead'
    BY <2>1 DEF Objects, WholeFilesRead
  <2> QED BY <2>1, <2>2, ObjectsKept
<1>9. ASSUME NEW k \in DOMAIN objects["ex_"].constraints, SolveAtBranch(k)
      PROVE  IInv'
  <2>1. UNCHANGED <<disk, objects>> /\ into' = "next_ex"
        /\ phase' \in {"run", "undefined"}
    BY <1>9 DEF SolveAtBranch
  <2>2. into' \in Objects /\ WholeFilesRead'
    BY <2>1 DEF Objects, WholeFilesRead
  <2> QED BY <2>1, <2>2, ObjectsKept
<1>10. CASE UNCHANGED vars
  <2>1. UNCHANGED <<disk, objects>> /\ into' = into /\ phase' = phase
        /\ accepted' = accepted
    BY <1>10 DEF vars
  <2>2. into' \in Objects /\ WholeFilesRead'
    BY <2>1 DEF IInv, TypeInv, WholeFilesRead, disk
  <2> QED BY <2>1, <2>2, ObjectsKept
<1> QED
  BY <1>1, <1>2, <1>3, <1>4, <1>5, <1>6, <1>7, <1>8, <1>9, <1>10 DEF Next

-----------------------------------------------------------------------------
(* The theorems.                                                           *)

\* The file is what one job wrote, the objects hold what Parse can make of
\* such files, and tags stand for indices.
THEOREM IInvHolds == Spec => []IInv
<1>1. Init => IInv
  BY InitIInv
<1>2. IInv /\ [Next]_vars => IInv'
  BY NextIInv
<1> QED
  BY <1>1, <1>2, PTL DEF Spec

\* SymbolicExecution::Parse accepts exactly the whole files, and leaves the
\* execution that was written in an object that held anything before.
THEOREM WholeFilesAreRead == Spec => []WholeFilesRead
<1>1. IInv => WholeFilesRead
  BY DEF IInv
<1> QED
  BY <1>1, IInvHolds, PTL

\* SymbolicPath::Parse never mixes the constraints of two runs.
THEOREM OneJobHolds == Spec => []ConstraintsOfOneJob
<1>1. IInv => ConstraintsOfOneJob
  <2> SUFFICES ASSUME IInv, NEW o \in Objects
               PROVE  Cardinality({c.job : c \in {c \in ToSet(objects[o].constraints) :
                                      c.state = "live" /\ c # Blank}}) <= 1
    BY DEF ConstraintsOfOneJob
  <2> DEFINE live == {c \in ToSet(objects[o].constraints) :
                        c.state = "live" /\ c # Blank}
             jobs == {c.job : c \in live}
  <2>1. PICK j \in Nat : \A i \in DOMAIN objects[o].constraints :
           /\ objects[o].constraints[i].state = "live"
           /\ objects[o].constraints[i] # Blank
           => objects[o].constraints[i].job = j
    BY DEF IInv, EachOneJob, OneJob
  <2>2. \A c \in live : c.job = j
    BY <2>1 DEF ToSet
  <2>3. jobs = {} \/ jobs = {j}
    BY <2>2
  <2>4. Cardinality({}) = 0 /\ Cardinality({j}) = 1
    BY FS_EmptySet, FS_Singleton
  <2> HIDE DEF jobs
  <2>5. Cardinality(jobs) <= 1
    BY <2>3, <2>4
  <2> QED BY <2>5 DEF jobs, live
<1> QED
  BY <1>1, IInvHolds, PTL

\* Unless a file was cut behind its branches, SolveAtBranch finds every
\* constraint of an execution live.
THEOREM UsableHolds == Spec => []ConstraintsUsable
<1>1. IInv => ConstraintsUsable
  BY DEF IInv
<1> QED
  BY <1>1, IInvHolds, PTL

\* The cache of Search::SolveAtBranch is keyed rightly: equal tags, equal
\* indices, unless a file was cut before its tag.
THEOREM TagsHold == Spec => []SameTagSameIndices
<1>1. IInv => SameTagSameIndices
  <2> SUFFICES ASSUME IInv, "inputs" \notin cuts,
                      objects["ex_"].tag = objects["next_ex"].tag,
                      NEW o \in Objects, NEW p \in Objects
               PROVE  /\ objects[o].ranks = objects[p].ranks
                      /\ objects[o].comms = objects[p].comms
                      /\ objects[o].sizes = objects[p].sizes
    BY DEF SameTagSameIndices
  <2>1. objects[o].tag = objects[p].tag
    BY DEF Objects
  <2>2. Indices(objects[o]) = Indices(objects[p])
    BY <2>1 DEF IInv, TagsNameIndices
  <2> QED BY <2>2 DEF Indices
<1> QED
  BY <1>1, IInvHolds, PTL

=============================================================================
