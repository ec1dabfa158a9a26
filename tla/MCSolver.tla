------------------------------- MODULE MCSolver -------------------------------
(***************************************************************************)
(* Three variables of two values.  A path has two constraints on one or  *)
(* two variables each, and any input that satisfies them; the variables    *)
(* have no MPI meaning, or are a rank and sizes, or a size and ranks, or   *)
(* have limits.                                                            *)
(***************************************************************************)
EXTENDS Solver, FiniteSets

Positive(v) == [vars |-> {v}, sat |-> {f \in [{v} -> Values] : f[v] > 0}]
Pool ==
    {Positive(v) : v \in Vars} \cup {Negation(Positive(v)) : v \in Vars}
    \cup {Same(0, 1), Negation(Same(1, 2)), Below(0, 1), Below(2, 1)}

Markings ==
    {[ranks |-> {}, sizes |-> {}, limits |-> <<>>],
     [ranks |-> {0}, sizes |-> {1}, limits |-> <<>>],
     [ranks |-> {0}, sizes |-> {1, 2}, limits |-> <<>>],
     [ranks |-> {1, 2}, sizes |-> {0}, limits |-> <<>>],
     [ranks |-> {}, sizes |-> {0, 2}, limits |-> [v \in {0, 1} |-> 0]]}

Marked(m, path, a) ==
    [constraints |-> path, inputs |-> a,
     ranks |-> m.ranks, sizes |-> m.sizes, limits |-> m.limits]

SmallExecutions ==
    {e \in {Marked(m, path, a) : m \in Markings, path \in [1..2 -> Pool],
                                 a \in [Vars -> Values]} :
        \A k \in 1..2 : Satisfies(e.inputs, e.constraints[k])}

SomeEarlier ==
    {Marked(m, <<>>, [v \in Vars |-> 0]) : m \in {m \in Markings : 1 \in m.sizes}}

=============================================================================
