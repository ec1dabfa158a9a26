----------------------------- MODULE CfgDistances -----------------------------
(***************************************************************************)
(* From the control-flow graph to the distances that guide the search:     *)
(* process_cfg thins the graph (module ThinCfg) and writes cfg_branches,   *)
(* the constructor of CfgHeuristicSearch reads that file, and every        *)
(* UpdateBranchDistances (module BranchDistances) searches what was read.  *)
(***************************************************************************)
EXTENDS BranchDistances

CONSTANTS
    Nodes,      \* ids of CFG nodes
    Cfgs        \* control-flow graphs considered

ASSUME PipelineAssumption ==
    /\ Nodes \subseteq Nat /\ IsFiniteSet(Nodes) /\ Branches \subseteq Nodes
    /\ Cfgs \subseteq [Nodes -> SUBSET Nodes]
    /\ {} \in Graphs           \* no edge is known before the file is read

VARIABLES thin_pc, cfg, sources, src, dist_map, thin_Q, finished, nbhrs, loaded

thin_vars == <<thin_pc, cfg, sources, src, dist_map, thin_Q, finished, nbhrs>>

Thin == INSTANCE ThinCfg WITH pc <- thin_pc, todo <- sources, Q <- thin_Q

\* src and front are locals, set before they are read: one value is enough.
PipelineInit ==
    /\ Init /\ Thin!Init /\ loaded = FALSE /\ cfg_ = {}
    /\ src = front /\ \A b \in Branches : front <= b

ProcessCfg == ~loaded /\ Thin!Next /\ UNCHANGED <<vars, loaded>>

\* Mutated form: the destinations are read as sources.
ReadGraphReversed ==
    /\ thin_pc = "done" /\ ~loaded
    /\ cfg_' = {<<e[2], e[1]>> : e \in nbhrs} /\ loaded' = TRUE
    /\ UNCHANGED <<pc, covered_, dist_, Q, front, todo, calls, thin_vars>>

\* The constructor reads cfg_branches, once process_cfg has written it.
ReadGraph ==
    /\ thin_pc = "done" /\ ~loaded
    /\ cfg_' = nbhrs /\ loaded' = TRUE
    /\ UNCHANGED <<pc, covered_, dist_, Q, front, todo, calls, thin_vars>>

Search == loaded /\ Next /\ UNCHANGED <<thin_vars, loaded>>

PipelineNext == ProcessCfg \/ ReadGraph \/ Search

\* Both programs run on once started; the calls are the strategy's.
PipelineSpec ==
    /\ PipelineInit /\ [][PipelineNext]_<<vars, thin_vars, loaded>>
    /\ WF_thin_vars(ProcessCfg) /\ WF_loaded(ReadGraph)
    /\ WF_vars(loaded /\ Step /\ UNCHANGED <<thin_vars, loaded>>)

-----------------------------------------------------------------------------
(* Properties.                                                             *)

\* process_cfg writes exactly the edges between different branches that no
\* third branch separates.
ThinnedExact == Thin!ThinnedExact

\* Branches from which a path of the control-flow graph reaches an uncovered
\* branch and enters at most k branches on the way.
Entering[k \in Nat] ==
    IF k = 0 THEN Uncovered
    ELSE Entering[k - 1] \cup
         {b \in Branches :
            \E n \in Thin!Silent(b), c \in Entering[k - 1] : c \in cfg[n]}

\* The distances after a call are those of the control-flow graph itself:
\* the fewest branches entered on a path to an uncovered one, infinite where
\* no path leads there.  The edges process_cfg drops (from a branch to
\* itself, or through a third branch) must not matter, nor may the
\* distances of an earlier coverage.
DistancesInCfg ==
    pc = "idle" /\ calls > 0 =>
        \A b \in Branches, k \in 0..(kInfiniteDistance - 1) :
            b \in Entering[k] <=> dist_[b] <= k

\* process_cfg ends, and every later call of UpdateBranchDistances returns,
\* on every graph, cycles of length zero included.
PipelineReturns == <>loaded /\ (pc # "idle" ~> pc = "idle")

=============================================================================
