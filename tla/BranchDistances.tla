--------------------------- MODULE BranchDistances ---------------------------
(***************************************************************************)
(* CfgHeuristicSearch::UpdateBranchDistances: the backward breadth-first   *)
(* search from all uncovered branches that gives every branch its distance *)
(* over the thinned control-flow graph (module ThinCfg), one step per      *)
(* queue element and per edge.                                             *)
(***************************************************************************)
EXTENDS Integers, Sequences, FiniteSets

CONSTANTS
    Branches,           \* branches_
    kInfiniteDistance,  \* 10000
    Graphs,             \* thinned graphs considered, as sets of edges
    MaxCalls            \* bound: calls of UpdateBranchDistances

ASSUME DistanceAssumption ==
    /\ Branches \subseteq Nat
    /\ kInfiniteDistance \in Nat /\ kInfiniteDistance > 0
    /\ Graphs \subseteq SUBSET (Branches \X Branches)
    /\ MaxCalls \in Nat

VARIABLES
    pc,
    cfg_,       \* edges of the thinned graph
    covered_,   \* branches covered when the call began
    dist_,
    Q,          \* branches whose predecessors are still to be visited
    front,      \* the branch i taken from Q
    todo,       \* "init": branches, "edges": cfg_rev_[i], not yet visited
    calls

vars == <<pc, cfg_, covered_, dist_, Q, front, todo, calls>>

Uncovered == Branches \ covered_
cfg_rev_(i) == {j \in Branches : <<j, i>> \in cfg_}
IsNext(b) == b \in todo /\ \A c \in todo : b <= c

\* The constructor: distances start at zero.
Init ==
    /\ pc = "idle" /\ calls = 0
    /\ cfg_ \in Graphs /\ covered_ = {}
    /\ dist_ = [b \in Branches |-> 0]
    /\ Q = <<>> /\ todo = {} /\ front \in Branches

\* Run calls it after a run found new branches; a restart forgets coverage.
Call(coverage) ==
    /\ pc = "idle" /\ calls < MaxCalls
    /\ covered_' = coverage
    /\ pc' = "init" /\ todo' = Branches /\ calls' = calls + 1
    /\ UNCHANGED <<cfg_, dist_, Q, front>>

\* Mutated form: covered branches keep their old distance.
InitBranchKeeps(b) ==
    /\ pc = "init" /\ IsNext(b)
    /\ IF b \in covered_
       THEN UNCHANGED <<dist_, Q>>
       ELSE dist_' = [dist_ EXCEPT ![b] = 0] /\ Q' = Append(Q, b)
    /\ todo' = todo \ {b}
    /\ UNCHANGED <<pc, cfg_, covered_, front, calls>>

InitBranch(b) ==
    /\ pc = "init" /\ IsNext(b)
    /\ IF b \in covered_
       THEN dist_' = [dist_ EXCEPT ![b] = kInfiniteDistance] /\ UNCHANGED Q
       ELSE dist_' = [dist_ EXCEPT ![b] = 0] /\ Q' = Append(Q, b)
    /\ todo' = todo \ {b}
    /\ UNCHANGED <<pc, cfg_, covered_, front, calls>>

TakeFront ==
    /\ pc \in {"init", "edges"} /\ todo = {} /\ Q # <<>>
    /\ front' = Head(Q) /\ Q' = Tail(Q)
    /\ todo' = cfg_rev_(Head(Q)) /\ pc' = "edges"
    /\ UNCHANGED <<cfg_, covered_, dist_, calls>>

\* Mutated form: the newest branch is taken first.
VisitDepthFirst(j) ==
    /\ pc = "edges" /\ IsNext(j)
    /\ LET dist_i == dist_[front]
       IN IF dist_i + 1 < dist_[j]
          THEN dist_' = [dist_ EXCEPT ![j] = dist_i + 1] /\ Q' = <<j>> \o Q
          ELSE UNCHANGED <<dist_, Q>>
    /\ todo' = todo \ {j}
    /\ UNCHANGED <<pc, cfg_, covered_, front, calls>>

\* One edge of cfg_rev_[i]; the distance of i is the one read when taken.
Visit(j) ==
    /\ pc = "edges" /\ IsNext(j)
    /\ LET dist_i == dist_[front]
       IN IF dist_i + 1 < dist_[j]
          THEN dist_' = [dist_ EXCEPT ![j] = dist_i + 1] /\ Q' = Append(Q, j)
          ELSE UNCHANGED <<dist_, Q>>
    /\ todo' = todo \ {j}
    /\ UNCHANGED <<pc, cfg_, covered_, front, calls>>

Return ==
    /\ pc \in {"init", "edges"} /\ todo = {} /\ Q = <<>>
    /\ pc' = "idle"
    /\ UNCHANGED <<cfg_, covered_, dist_, Q, front, todo, calls>>

Step ==
    \/ \E b \in todo : InitBranch(b) \/ Visit(b)
    \/ TakeFront \/ Return

Next == Step \/ \E coverage \in SUBSET Branches : Call(coverage)

\* The function runs on once called.
Spec == Init /\ [][Next]_vars /\ WF_vars(Step)

-----------------------------------------------------------------------------
(* Properties.                                                             *)

\* Every variable has its type.
TypeOK ==
    /\ pc \in {"idle", "init", "edges"} /\ calls \in Nat
    /\ cfg_ \subseteq Branches \X Branches /\ covered_ \subseteq Branches
    /\ dist_ \in [Branches -> 0..kInfiniteDistance]
    /\ Q \in Seq(Branches) /\ front \in Branches /\ todo \subseteq Branches

\* The distances solve the shortest-path equations when the call returns.
Shortest ==
    pc = "idle" /\ calls > 0 =>
        \A b \in Branches :
            /\ dist_[b] = 0 <=> b \in Uncovered
            /\ dist_[b] \in 1..(kInfiniteDistance - 1) =>
                  \E c \in Branches :
                      <<b, c>> \in cfg_ /\ dist_[b] = dist_[c] + 1
            /\ \A c \in Branches :
                  <<b, c>> \in cfg_ /\ dist_[c] + 1 < kInfiniteDistance =>
                      dist_[b] <= dist_[c] + 1

\* A branch enters the queue at most once per call: the search costs a visit
\* per edge, since the queue hands out branches by distance.
EnqueuedOnce ==
    pc \in {"init", "edges"} =>
        /\ \A m, n \in DOMAIN Q : m # n => Q[m] # Q[n]
        /\ pc = "edges" => \A m \in DOMAIN Q :
              Q[m] # front /\ dist_[Q[m]] \in dist_[front]..(dist_[front] + 1)

=============================================================================
