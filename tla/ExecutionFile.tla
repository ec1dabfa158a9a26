---------------------------- MODULE ExecutionFile ----------------------------
(***************************************************************************)
(* szd_execution: what SymbolicExecution::Serialize writes, and what Parse *)
(* makes of a file that was cut because the job was killed, in two objects *)
(* that the driver uses again and again (class RandomSearch).  The file is *)
(* a sequence of items: numbers, limits, rows of the rank map and path     *)
(* constraints; cuts are between items.  A stream that has failed reads    *)
(* nothing more, so an item beyond the end leaves its variable as it was.  *)
(* A value is represented by the job that produced it.                     *)
(***************************************************************************)
EXTENDS Integers, Sequences, FiniteSetsExt, SequencesExt

CONSTANTS
    Shapes,         \* what a program run may leave: lengths and indices
    Uninitialized,  \* bound: what an uninitialized length may hold
    MaxJobs         \* bound: jobs

ASSUME FileAssumption ==
    /\ Uninitialized \subseteq Nat /\ MaxJobs \in Nat
    /\ \A s \in Shapes :
        /\ s.inputs \in Nat /\ s.branches \in Nat
        /\ s.limits \in Seq(Int \X Int) /\ s.map \in Seq(Seq(Int))
        /\ {s.ranks, s.comms, s.sizes, s.idx} \subseteq Seq(Nat)
        /\ s.preds \in Seq(SUBSET Nat) /\ Len(s.preds) = Len(s.idx)

Objects == {"ex_", "next_ex"}

VARIABLES
    phase,      \* "run", "read", "check", "search"; "undefined" once the
                \* driver's behaviour is
    job,
    exists,     \* there is a szd_execution
    file,       \* what is in it
    written,    \* the execution it was written from, Fresh if it is cut
    into,       \* the object RunProgram was given
    objects,
    accepted,   \* what Parse returned last
    cuts        \* history: the sections in which a file was cut

disk == <<job, exists, file, written, cuts>>
vars == <<phase, disk, into, objects, accepted>>

\* What an entry of constraints_ points to: a constraint of job j on the
\* variables V, one that could not be read, a deleted one, or nothing.
Pred(j, V) == [job |-> j, vars |-> V, state |-> "live"]
Blank == Pred(0, {})
Deleted == [Blank EXCEPT !.state = "deleted"]
Null == [Blank EXCEPT !.state = "null"]

Fresh ==
    [inputs |-> <<>>, tag |-> 0, limits |-> <<>>, ranks |-> <<>>,
     comms |-> <<>>, map |-> <<>>, sizes |-> <<>>, branches |-> <<>>,
     idx |-> <<>>, constraints |-> <<>>]

\* What job j leaves when its run has shape s.
Recorded(s, j) ==
    [inputs |-> [i \in 1..s.inputs |-> j], tag |-> j, limits |-> s.limits,
     ranks |-> s.ranks, comms |-> s.comms, map |-> s.map, sizes |-> s.sizes,
     branches |-> [i \in 1..s.branches |-> j], idx |-> s.idx,
     constraints |-> [i \in DOMAIN s.preds |-> Pred(j, s.preds[i])]]

Init ==
    /\ phase = "run" /\ job = 0 /\ exists = FALSE
    /\ file = <<>> /\ written = Fresh /\ cuts = {}
    /\ into = "ex_" /\ accepted = FALSE
    /\ objects = [o \in Objects |-> Fresh]

-----------------------------------------------------------------------------
(* Writing.                                                                *)

Framed(q) == <<Len(q)>> \o q

\* SymbolicPath::Serialize
SerializePath(e) ==
    Framed(e.branches) \o <<Len(e.constraints)>> \o e.idx \o e.constraints

SerializeIndices(e) ==
    Framed(e.inputs) \o <<e.tag>> \o Framed(e.limits) \o Framed(e.ranks)
    \o Framed(e.comms) \o Framed(e.map) \o Framed(e.sizes)

Serialize(e) == SerializeIndices(e) \o SerializePath(e)

\* The section that lacks something when n items of e are left.
CutIn(e, n) ==
    LET path == n - Len(SerializeIndices(e))
    IN IF n <= Len(e.inputs) + 1 THEN "inputs"
       ELSE IF path < 0 THEN "indices"
       ELSE IF path <= Len(e.branches) THEN "branches" ELSE "constraints"

\* The focus writes its execution, whole or in part.
JobWrites(s, n) ==
    LET e == Recorded(s, job + 1)
        cut == n < Len(Serialize(e))
    IN /\ phase = "run" /\ job < MaxJobs
       /\ job' = job + 1 /\ phase' = "read"
       /\ exists' = TRUE /\ file' = SubSeq(Serialize(e), 1, n)
       /\ written' = IF cut THEN Fresh ELSE e
       /\ cuts' = cuts \cup (IF cut THEN {CutIn(e, n)} ELSE {})
       /\ UNCHANGED <<into, objects, accepted>>

\* The focus dies before it opens the file.
JobDies ==
    /\ phase = "run" /\ job < MaxJobs
    /\ job' = job + 1 /\ phase' = "read"
    /\ UNCHANGED <<exists, file, written, cuts, into, objects, accepted>>

-----------------------------------------------------------------------------
(* Reading.                                                                *)

\* The item at position p, or the variable's old value.
Item(p, old) == IF p <= Len(file) THEN file[p] ELSE old

\* Mutated form: the vector grows but does not shrink.
ItemsGrown(p, n, old) ==
    [i \in 1..Max({n, Len(old)}) |->
        IF i <= n THEN Item(p + i, IF i \in DOMAIN old THEN old[i] ELSE 0)
        ELSE old[i]]

\* The n items after position p, read into a vector resized to n.
Items(p, n, old) ==
    [i \in 1..n |-> Item(p + i, IF i \in DOMAIN old THEN old[i] ELSE 0)]

\* A section: where its length is, and what the one variable for all of the
\* lengths then holds; the next section begins gap items after this one.
Following(s, gap) ==
    LET at == s.at + s.len + gap IN [at |-> at, len |-> Item(at, s.len)]

\* The sections before the path; the tag follows the inputs.
SectionsFrom(first) ==
    LET inputs == [at |-> 1, len |-> first]
        limits == Following(inputs, 2)
        ranks == Following(limits, 1)
        comms == Following(ranks, 1)
        map == Following(comms, 1)
        sizes == Following(map, 1)
    IN [inputs |-> inputs, limits |-> limits, ranks |-> ranks,
        comms |-> comms, map |-> map, sizes |-> sizes]

\* The length variable holds g before anything is read.
Section(g) == SectionsFrom(Item(1, g))

\* Every limit beyond the end is the last one read, or uninitialized.
Wild == <<-1, 0>>
Limits(p, n) ==
    IF n = 0 THEN <<>>
    ELSE IF p >= Len(file) THEN <<Wild>>
    ELSE SubSeq(file, p + 1, Min({p + n, Len(file)}))

\* Mutated form: the index vectors are resized but not cleared.
ParseIndicesUncleared(e, g) ==
    LET s == Section(g)
        Vector(section, old) == Items(section.at, section.len, old)
    IN [e EXCEPT
          !.inputs = Vector(s.inputs, e.inputs),
          !.tag = Item(s.inputs.at + s.inputs.len + 1, e.tag),
          !.limits = Limits(s.limits.at, s.limits.len),
          !.ranks = Vector(s.ranks, e.ranks),
          !.comms = Vector(s.comms, e.comms),
          !.map = [i \in 1..s.map.len |->
                     Item(s.map.at + i, [j \in 1..g |-> 0])],
          !.sizes = Vector(s.sizes, e.sizes)]

\* SymbolicExecution::Parse up to the path.  Only inputs_ is not cleared;
\* vars_ has the positions of inputs_.
ParseIndices(e, g) ==
    LET s == Section(g)
        Vector(section, old) == Items(section.at, section.len, old)
    IN [e EXCEPT
          !.inputs = Vector(s.inputs, e.inputs),
          !.tag = Item(s.inputs.at + s.inputs.len + 1, e.tag),
          !.limits = Limits(s.limits.at, s.limits.len),
          !.ranks = Vector(s.ranks, <<>>),
          !.comms = Vector(s.comms, <<>>),
          !.map = [i \in 1..s.map.len |->
                     Item(s.map.at + i, [j \in 1..g |-> 0])],
          !.sizes = Vector(s.sizes, <<>>)]

HasDeleted(e) ==
    \E i \in DOMAIN e.constraints : e.constraints[i].state = "deleted"

\* The result of a parse: the object, whether the behaviour is defined so
\* far, and the position of the last item asked for.
Result(e, defined, end) == [ex |-> e, defined |-> defined, end |-> end]

\* A file cut in the branches: those that are there.
RejectBranches(e, p) ==
    [e EXCEPT !.branches = SubSeq(file, p + 1, Len(file))]

\* Mutated form: the old constraints beyond the new ones are kept.
ReadConstraintsOver(e, p, n) ==
    LET made == Len(file) - (p + n)
    IN [e EXCEPT
          !.idx = Items(p, n, e.idx),
          !.constraints =
             [i \in 1..n |->
                IF i <= made THEN file[p + n + i]
                ELSE IF i \in DOMAIN e.constraints THEN e.constraints[i]
                ELSE Null]]

\* The old constraints have been deleted; a new one is made for each entry
\* until one cannot be read.
ReadConstraints(e, p, n) ==
    LET left == Len(file) - (p + n)
        made == IF left < 0 THEN 0 ELSE left
    IN [e EXCEPT
          !.idx = Items(p, n, e.idx),
          !.constraints =
             [i \in 1..n |->
                IF i <= made THEN file[p + n + i]
                ELSE IF i = made + 1 THEN Blank
                ELSE IF i \in DOMAIN e.constraints THEN Deleted
                ELSE Null]]

\* Mutated form: the constraints are deleted before the branches are checked.
ParsePathEarly(e, p, g) ==
    LET branches == Item(p, g)
        end == p + branches
        read == [e EXCEPT !.branches = SubSeq(file, p + 1, end)]
        n == Item(end + 1, branches)
        gone == [e EXCEPT !.constraints = [i \in DOMAIN @ |-> Deleted]]
    IN IF end > Len(file) THEN Result(RejectBranches(gone, p), TRUE, end)
       ELSE Result(ReadConstraints(read, end + 1, n), ~HasDeleted(e), end + 1 + 2 * n)

\* SymbolicPath::Parse from position p; g is its own length variable.
ParsePath(e, p, g) ==
    LET branches == Item(p, g)
        end == p + branches
        read == [e EXCEPT !.branches = SubSeq(file, p + 1, end)]
        n == Item(end + 1, branches)
    IN IF end > Len(file) THEN Result(RejectBranches(e, p), TRUE, end)
       ELSE Result(ReadConstraints(read, end + 1, n), ~HasDeleted(e),
                   end + 1 + 2 * n)

PathStart(g) ==
    LET last == Section(g).sizes IN last.at + last.len + 1

Parse(e, g, h) == ParsePath(ParseIndices(e, g), PathStart(g), h)

\* RunProgram; a failure is logged and the search goes on.
ReadExecution ==
    /\ phase = "read" /\ exists
    /\ \E g, h \in Uninitialized :
          LET parsed == Parse(objects[into], g, h)
          IN /\ phase' = IF parsed.defined THEN "check" ELSE "undefined"
             /\ objects' = [objects EXCEPT ![into] = parsed.ex]
             /\ accepted' = (parsed.end <= Len(file))
    /\ UNCHANGED <<disk, into>>

\* No vector can be resized to an uninitialized length.
ReadFails ==
    /\ phase = "read" /\ exists /\ PathStart(0) > Len(file)
    /\ phase' = "undefined"
    /\ UNCHANGED <<disk, into, objects, accepted>>

ReadNothing ==
    /\ phase = "read" /\ ~exists
    /\ phase' = "check" /\ accepted' = FALSE
    /\ UNCHANGED <<disk, into, objects>>

-----------------------------------------------------------------------------
(* Using what was read.                                                    *)

\* The search keeps the new execution or the old one.
Swap ==
    /\ phase = "check" /\ into = "next_ex" /\ phase' = "search"
    /\ objects' = [ex_ |-> objects["next_ex"], next_ex |-> objects["ex_"]]
    /\ UNCHANGED <<disk, into, accepted>>

Stay ==
    /\ phase = "check" /\ phase' = "search"
    /\ UNCHANGED <<disk, into, objects, accepted>>

\* Variables of the constraints up to the k-th and of the MPI constraints:
\* SolveAtBranch indexes vectors as long as the inputs with them.
Variables(e, k) ==
    UNION {e.constraints[i].vars : i \in 1..k}
    \cup ToSet(e.ranks) \cup ToSet(e.sizes)
    \cup {limit[1] : limit \in ToSet(e.limits)}

Usable(e, k) ==
    /\ \A i \in 1..k : e.constraints[i].state = "live"
    /\ Variables(e, k) \subseteq 0..(Len(e.inputs) - 1)

SolveAtBranch(k) ==
    /\ phase = "search"
    /\ phase' = IF Usable(objects["ex_"], k) THEN "run" ELSE "undefined"
    /\ into' = "next_ex"
    /\ UNCHANGED <<disk, objects, accepted>>

Restart ==
    /\ phase = "search" /\ phase' = "run" /\ into' = "ex_"
    /\ UNCHANGED <<disk, objects, accepted>>

Next ==
    \/ \E s \in Shapes :
          \E n \in 0..Len(Serialize(Recorded(s, job + 1))) : JobWrites(s, n)
    \/ JobDies \/ ReadExecution \/ ReadFails \/ ReadNothing
    \/ Swap \/ Stay \/ Restart
    \/ \E k \in DOMAIN objects["ex_"].constraints : SolveAtBranch(k)

Spec == Init /\ [][Next]_vars

-----------------------------------------------------------------------------
(* Properties.                                                             *)

\* Parse accepts a file exactly if it is whole, and then the object is the
\* execution that was written, whatever cut files it was read from before.
WholeFilesRead ==
    phase = "check" =>
        /\ accepted <=> written # Fresh
        /\ accepted => objects[into] = written

\* The constraints of an object are never those of two runs, whatever was
\* cut: a failed read keeps the old ones, or has deleted all of them.
ConstraintsOfOneJob ==
    \A o \in Objects :
        Cardinality({c.job : c \in {c \in ToSet(objects[o].constraints) :
                                       c.state = "live" /\ c # Blank}}) <= 1

\* Every constraint of every object can be read, and deleted once, unless a
\* file was cut after its branches.
ConstraintsUsable ==
    "constraints" \notin cuts =>
        \A o \in Objects : \A c \in ToSet(objects[o].constraints) :
            c.state = "live"

\* The cache of MPI indices in Search is keyed by the tag: objects with the
\* same tag have the same indices, cut or not, unless a cut file ends before
\* its tag.
SameTagSameIndices ==
    "inputs" \notin cuts /\ objects["ex_"].tag = objects["next_ex"].tag =>
        \A e, f \in {objects[o] : o \in Objects} :
            e.ranks = f.ranks /\ e.comms = f.comms /\ e.sizes = f.sizes

=============================================================================
