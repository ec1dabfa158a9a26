--------------------------- MODULE CoverageLedger ---------------------------
(***************************************************************************)
(* What the coverage of a testing campaign promises.  Every program run is *)
(* recorded in memory, and what was recorded is saved before the next run  *)
(* is: a crash forgets the coverage of one run at most.  Only a damaged    *)
(* save can cost more, and after one nothing is promised of what is saved. *)
(***************************************************************************)

CONSTANT Branches

VARIABLES
    executed,   \* the branches some execution had
    known,      \* the branches the running session knows as covered
    saved       \* the branches the next session will know

Init == executed = {} /\ known = {} /\ saved = {}

\* One more program run.
Record(S) ==
    /\ known = saved
    /\ executed' = executed \cup S
    /\ known' = known \cup S
    /\ UNCHANGED saved

Save ==
    /\ saved' = known
    /\ UNCHANGED <<executed, known>>

\* The session dies; the next one knows what was saved.
Crash ==
    /\ known' = saved
    /\ UNCHANGED <<executed, saved>>

\* It dies in the middle of a save.
Damage(S) ==
    /\ saved' = S /\ known' = S
    /\ UNCHANGED executed

Next ==
    \/ \E S \in SUBSET Branches : Record(S)
    \/ Save \/ Crash
    \/ \E S \in SUBSET Branches : Damage(S)

Spec == Init /\ [][Next]_<<executed, known, saved>>

=============================================================================
