---------------------------- MODULE InputMarking ----------------------------
(***************************************************************************)
(* The input variables of one job: every process of an MPI program runs    *)
(* its marks (COMPI_int, the marks of MPI_Comm_rank and MPI_Comm_size), a  *)
(* new variable's value is drawn on each process and replaced by rank 0's  *)
(* in an MPI_Bcast, and the focus's local ranks are mapped to world ranks  *)
(* by collectives of the communicator.                                     *)
(***************************************************************************)
EXTENDS Integers, Sequences, FiniteSets, SequencesExt

CONSTANTS
    NumProcs,       \* processes of the job
    Focus,          \* .target_rank
    Programs,       \* programs considered: per rank, its sequence of marks
    Files,          \* contents of the input file considered
    Comms           \* the communicators besides MPI_COMM_WORLD, disjoint

\* A mark: the variable, how it is marked and the cap on its value.
Mark(var, kind, limit) == [var |-> var, kind |-> kind, limit |-> limit]

Ranks == 0..(NumProcs - 1)

ASSUME MarkingAssumption ==
    /\ NumProcs \in Nat \ {0} /\ Focus \in Ranks
    /\ \A c \in Comms : c \subseteq Ranks
    /\ \A c, d \in Comms : c = d \/ c \cap d = {}
    /\ \A file \in Files : file \in Seq(Int)
    /\ \A prog \in Programs : \A p \in Ranks :
          /\ prog[p] \in Seq(Range(prog[p]))
          /\ \A m \in Range(prog[p]) : m.limit \in Nat

VARIABLES
    program,        \* the marks each process will run
    inputs,         \* inputs_ of each process
    num_inputs_,
    limits_,        \* the focus's caps by input, 0 when it has none
    bcasts,         \* values rank 0 has sent, in order
    received,       \* MPI_Bcast calls each process has completed
    inComm,         \* processes between the two marks of a local rank
    rank_indices_, world_size_indices_,             \* of the focus
    rank_non_default_comm_indices_, rank_non_default_comm_map_

focusVars == <<rank_indices_, world_size_indices_,
               rank_non_default_comm_indices_, rank_non_default_comm_map_>>
vars == <<program, inputs, num_inputs_, limits_, bcasts, received, inComm,
          focusVars>>

\* Inputs are numbered from zero, sequences from one.
HasInput(p) == num_inputs_[p] < Len(inputs[p])
Current(p) == program[p][num_inputs_[p] + 1]
Finished(p) == num_inputs_[p] = Len(program[p]) /\ p \notin inComm
AtMark(p, kind) == ~Finished(p) /\ p \notin inComm /\ Current(p).kind = kind

LocalRank(c, p) == Cardinality({q \in c : q < p})
\* What MPI_Gather leaves: the world ranks of c, by local rank.
Members(c) ==
    [i \in 1..Cardinality(c) |-> CHOOSE p \in c : LocalRank(c, p) = i - 1]

\* __CrestInit: every process has read the input file.
Init ==
    /\ program \in Programs
    /\ \E file \in Files : inputs = [p \in Ranks |-> file]
    /\ num_inputs_ = [p \in Ranks |-> 0] /\ limits_ = <<>>
    /\ bcasts = <<>> /\ received = [p \in Ranks |-> 0]
    /\ inComm = {}
    /\ rank_indices_ = <<>> /\ world_size_indices_ = <<>>
    /\ rank_non_default_comm_indices_ = <<>> /\ rank_non_default_comm_map_ = <<>>

\* Position num_inputs_ + 1 of a process's inputs becomes value.
SetInput(p, value) ==
    inputs' = [inputs EXCEPT ![p] =
        IF HasInput(p) THEN [@ EXCEPT ![num_inputs_[p] + 1] = value]
        ELSE Append(@, value)]

KeepInput(p, value) ==
    IF HasInput(p) THEN UNCHANGED inputs ELSE SetInput(p, value)

Count(p) == num_inputs_' = [num_inputs_ EXCEPT ![p] = @ + 1]
LogIndex(p, indices) ==
    IF p = Focus THEN Append(indices, num_inputs_[p]) ELSE indices
LogLimit(p) ==
    limits_' = IF p = Focus THEN Append(limits_, Current(p).limit) ELSE limits_

\* Mutated form: the drawn value is kept, the broadcast only counted.
NewInputUnsynchronized(p, ret) ==
    /\ AtMark(p, "int")
    /\ IF HasInput(p) THEN UNCHANGED <<bcasts, received>>
       ELSE /\ ret \in 0..(Current(p).limit - 1)
            /\ IF p = 0 THEN bcasts' = Append(bcasts, ret)
               ELSE Len(bcasts) > received[p] /\ UNCHANGED bcasts
            /\ received' = [received EXCEPT ![p] = @ + 1]
    /\ KeepInput(p, ret) /\ Count(p) /\ LogLimit(p)
    /\ UNCHANGED <<program, inComm, focusVars>>

\* Mutated form: rank 0 does not broadcast.
NewInputSilent(p, ret) ==
    /\ AtMark(p, "int")
    /\ IF HasInput(p) \/ p = 0
       THEN UNCHANGED received /\ ret \in 0..(Current(p).limit - 1)
       ELSE /\ Len(bcasts) > received[p] /\ ret = bcasts[received[p] + 1]
            /\ received' = [received EXCEPT ![p] = @ + 1]
    /\ KeepInput(p, ret) /\ Count(p) /\ LogLimit(p)
    /\ UNCHANGED <<program, bcasts, inComm, focusVars>>

\* NewInput, with its cap.  Rank 0 sends the value it drew and may go on; the
\* others wait for the broadcast that answers theirs in order.
NewInput(p, ret) ==
    /\ AtMark(p, "int")
    /\ IF HasInput(p) THEN UNCHANGED <<bcasts, received>>
       ELSE /\ IF p = 0
               THEN /\ ret \in 0..(Current(p).limit - 1)
                    /\ bcasts' = Append(bcasts, ret)
               ELSE /\ Len(bcasts) > received[p] /\ ret = bcasts[received[p] + 1]
                    /\ UNCHANGED bcasts
            /\ received' = [received EXCEPT ![p] = @ + 1]
    /\ KeepInput(p, ret) /\ Count(p) /\ LogLimit(p)
    /\ UNCHANGED <<program, inComm, focusVars>>

\* Mutated form: a rank the solver chose stays in the inputs.
NewInputRankFromFile(p) ==
    /\ AtMark(p, "rank")
    /\ KeepInput(p, p) /\ Count(p) /\ LogLimit(p)
    /\ rank_indices_' = LogIndex(p, rank_indices_)
    /\ UNCHANGED <<program, bcasts, received, inComm, world_size_indices_,
                   rank_non_default_comm_indices_, rank_non_default_comm_map_>>

NewInputRank(p) ==
    /\ AtMark(p, "rank")
    /\ SetInput(p, p) /\ Count(p) /\ LogLimit(p)
    /\ rank_indices_' = LogIndex(p, rank_indices_)
    /\ UNCHANGED <<program, bcasts, received, inComm, world_size_indices_,
                   rank_non_default_comm_indices_, rank_non_default_comm_map_>>

NewInputWorldSize(p) ==
    /\ AtMark(p, "size")
    /\ KeepInput(p, NumProcs) /\ Count(p) /\ LogLimit(p)
    /\ world_size_indices_' = LogIndex(p, world_size_indices_)
    /\ UNCHANGED <<program, bcasts, received, inComm, rank_indices_,
                   rank_non_default_comm_indices_, rank_non_default_comm_map_>>

\* __CrestRankNonDefaultComm1, before MPI_Comm_rank.
NewInputRankNonDefaultComm(p) ==
    /\ AtMark(p, "local")
    /\ KeepInput(p, 0) /\ Count(p) /\ LogLimit(p)
    /\ inComm' = inComm \cup {p}
    /\ rank_non_default_comm_indices_' = LogIndex(p, rank_non_default_comm_indices_)
    /\ UNCHANGED <<program, bcasts, received, rank_indices_, world_size_indices_,
                   rank_non_default_comm_map_>>

\* Mutated form: the focus returns without the gather the others wait in.
CrestRankNonDefaultComm2FocusOnly(c) ==
    /\ c \subseteq inComm
    /\ inComm' = inComm \ (IF Focus \in c THEN {Focus} ELSE c)
    /\ UNCHANGED <<program, inputs, num_inputs_, limits_, bcasts, received, focusVars>>

\* __CrestRankNonDefaultComm2: an MPI_Allreduce finds out whether the focus is
\* in the communicator; if it is, it gathers the world ranks of all members.
CrestRankNonDefaultComm2(c) ==
    /\ c \subseteq inComm
    /\ inComm' = inComm \ c
    /\ IF Focus \in c
       THEN /\ rank_non_default_comm_map_' =
                    Append(rank_non_default_comm_map_, Members(c))
            /\ inputs' = [inputs EXCEPT
                    ![Focus][num_inputs_[Focus]] = LocalRank(c, Focus)]
            /\ limits_' = [limits_ EXCEPT ![num_inputs_[Focus]] = Cardinality(c)]
       ELSE UNCHANGED <<rank_non_default_comm_map_, inputs, limits_>>
    /\ UNCHANGED <<program, num_inputs_, bcasts, received, rank_indices_,
                   world_size_indices_, rank_non_default_comm_indices_>>

\* A process's own step: the values it may draw are below its variable's cap,
\* the value it may receive is below some variable's.
Caps == UNION {{m.limit : m \in UNION {Range(prog[p]) : p \in Ranks}} : prog \in Programs}
Step(p) ==
    \/ \E ret \in 0..Max(Caps) : NewInput(p, ret)
    \/ NewInputRank(p)
    \/ NewInputWorldSize(p)
    \/ NewInputRankNonDefaultComm(p)

Ended == (\A p \in Ranks : Finished(p)) /\ UNCHANGED vars

Next ==
    \/ \E p \in Ranks : Step(p)
    \/ \E c \in Comms : CrestRankNonDefaultComm2(c)
    \/ Ended

\* Every process runs on, and MPI completes a collective all have entered.
Spec ==
    /\ Init /\ [][Next]_vars
    /\ \A p \in Ranks : WF_vars(Step(p))
    /\ \A c \in Comms : WF_vars(CrestRankNonDefaultComm2(c))

-----------------------------------------------------------------------------
(* Properties *)

\* The inputs p has given its program so far, and which visit of its mark
\* gave the k-th one.
Marks(p, kinds) == {k \in 1..num_inputs_[p] : program[p][k].kind \in kinds}
Visit(p, k) == Cardinality({j \in 1..k : program[p][j].var = program[p][k].var})

\* "synchronize the value among all processes" (symbolic_interpreter.cc:378-380):
\* two processes that have marked the same variable as often hold one value.
ValuesSynchronized ==
    \A p, q \in Ranks :
        \A k \in Marks(p, {"int", "size"}), m \in Marks(q, {"int", "size"}) :
            /\ program[p][k].var = program[q][m].var
            /\ Visit(p, k) = Visit(q, m)
            => inputs[p][k] = inputs[q][m]

\* What the focus will report about itself is true however the solver filled
\* the input file: its rank, and its rank in each communicator, whose map
\* leads back to the focus when it is indexed with that rank.
FocusKnowsItself ==
    /\ \A n \in DOMAIN rank_indices_ : inputs[Focus][rank_indices_[n] + 1] = Focus
    /\ \A n \in DOMAIN rank_non_default_comm_map_ :
        LET local == inputs[Focus][rank_non_default_comm_indices_[n] + 1]
            map == rank_non_default_comm_map_[n]
        IN local + 1 \in DOMAIN map /\ map[local + 1] = Focus

\* The step at p's next mark can be taken: only a new variable's value may
\* have to be waited for, by all processes but the one that sends it.
Ready(p) ==
    /\ ~Finished(p) /\ p \notin inComm
    /\ Current(p).kind = "int" =>
          HasInput(p) \/ p = 0 \/ Len(bcasts) > received[p]

\* No state of a job is a deadlock of the instrumentation's own collectives:
\* while a process has a mark left, some process can take the step at its next
\* mark or some collective has all its members (the broadcast of
\* symbolic_interpreter.cc:383, the collectives of crest.cc:283-317).
NobodyStuck ==
    \/ \A p \in Ranks : Finished(p)
    \/ \E p \in Ranks : Ready(p)
    \/ \E c \in Comms : c # {} /\ c \subseteq inComm

\* No process waits forever in a collective of the instrumentation.
AllFinish == <>[](\A p \in Ranks : Finished(p))
=============================================================================
