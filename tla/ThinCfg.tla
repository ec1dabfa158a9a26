------------------------------- MODULE ThinCfg -------------------------------
(***************************************************************************)
(* process_cfg: the control-flow graph of the instrumented program is      *)
(* thinned to the edges between branches that no third branch separates,   *)
(* by a bounded Dijkstra search from every branch.  Entering a branch node *)
(* costs one, entering any other node nothing.  Calls are already edges to *)
(* the entry node of the callee.                                           *)
(***************************************************************************)
EXTENDS Integers, FiniteSets

CONSTANTS
    Nodes,      \* ids of CFG nodes, 0..cfg.size()-1
    Branches,   \* those listed in "branches"
    Cfgs        \* control-flow graphs considered

MaxDist == 1                  \* max_dist in the call of the search
Unreached == MaxDist + 2      \* numeric_limits<size_t>::max()

VARIABLES
    pc,
    cfg,        \* successors of every node
    todo,       \* branches still to be a source
    src,        \* the current one
    dist_map, Q, finished,
    nbhrs       \* edges written to cfg_branches

vars == <<pc, cfg, todo, src, dist_map, Q, finished, nbhrs>>

Length(u) == IF u \in Branches THEN 1 ELSE 0
Less(p, q) == p[1] < q[1] \/ (p[1] = q[1] /\ p[2] <= q[2])

Init ==
    /\ pc = "next" /\ cfg \in Cfgs
    /\ todo = Branches /\ src \in Nodes
    /\ dist_map = [u \in Nodes |-> 0]
    /\ Q = {} /\ finished = {} /\ nbhrs = {}

StartSource(b) ==
    /\ pc = "next" /\ b \in todo /\ \A c \in todo : b <= c
    /\ src' = b /\ todo' = todo \ {b}
    /\ dist_map' = [u \in Nodes |-> IF u = b THEN 0 ELSE Unreached]
    /\ Q' = {<<0, b>>} /\ finished' = {}
    /\ pc' = "search"
    /\ UNCHANGED <<cfg, nbhrs>>

\* Mutated form: finished vertices and equal distances are considered too.
ImprovedAgain(v) ==
    {u \in cfg[v] : /\ dist_map[v] + Length(u) <= dist_map[u]
                    /\ dist_map[v] + Length(u) <= MaxDist}

\* The successors of v whose distance the loop over g[v] lowers.
Improved(v) ==
    {u \in cfg[v] \ (finished \cup {v}) :
        /\ dist_map[v] + Length(u) < dist_map[u]
        /\ dist_map[v] + Length(u) <= MaxDist}

\* The head of Q: beyond max_dist the search is over, else v is finished.
PopVertex ==
    /\ pc = "search"
    /\ \E top \in Q :
          LET v == top[2]
              d(u) == dist_map[v] + Length(u)
          IN /\ \A p \in Q : Less(top, p)
             /\ IF top[1] > MaxDist
                THEN /\ Q' = Q \ {top} /\ pc' = "collect"
                     /\ UNCHANGED <<dist_map, finished>>
                ELSE /\ finished' = finished \cup {v}
                     /\ dist_map' =
                           [u \in Nodes |-> IF u \in Improved(v) THEN d(u)
                                            ELSE dist_map[u]]
                     /\ Q' = (Q \ ({top} \cup
                                   {<<dist_map[u], u>> : u \in Improved(v)}))
                             \cup {<<d(u), u>> : u \in Improved(v)}
                     /\ UNCHANGED pc
    /\ UNCHANGED <<cfg, todo, src, nbhrs>>

QueueEmpty ==
    /\ pc = "search" /\ Q = {}
    /\ pc' = "collect"
    /\ UNCHANGED <<cfg, todo, src, dist_map, Q, finished, nbhrs>>

\* Mutated form: distance zero counts as a neighbour.
CollectWithin ==
    /\ pc = "collect"
    /\ nbhrs' = nbhrs \cup {<<src, j>> : j \in {j \in Branches : dist_map[j] <= 1}}
    /\ pc' = IF todo = {} THEN "done" ELSE "next"
    /\ UNCHANGED <<cfg, todo, src, dist_map, Q, finished>>

\* The branches at distance one are written as the neighbours of src.
Collect ==
    /\ pc = "collect"
    /\ nbhrs' = nbhrs \cup {<<src, j>> : j \in {j \in Branches : dist_map[j] = 1}}
    /\ pc' = IF todo = {} THEN "done" ELSE "next"
    /\ UNCHANGED <<cfg, todo, src, dist_map, Q, finished>>

Next ==
    \/ \E b \in todo : StartSource(b)
    \/ PopVertex \/ QueueEmpty \/ Collect

-----------------------------------------------------------------------------
(* Properties.                                                             *)

\* Nodes reached from i by k steps that enter no branch.
Silent(i) ==
    LET f[k \in Nat] ==
            IF k = 0 THEN {i}
            ELSE f[k - 1] \cup
                 ((UNION {cfg[n] : n \in f[k - 1]}) \ Branches)
    IN f[Cardinality(Nodes)]

\* The edges between different branches without a branch in between.
Thinned ==
    {e \in Branches \X Branches :
        e[1] # e[2] /\ \E n \in Silent(e[1]) : e[2] \in cfg[n]}

\* When process_cfg is done it has written exactly those edges.
ThinnedExact == pc = "done" => nbhrs = Thinned

=============================================================================
