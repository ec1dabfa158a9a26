--------------------------- MODULE MCInputMarking ---------------------------
(***************************************************************************)
(* Every mark a program can make, in every order of up to four, and input  *)
(* files that end before, at and after any of them.                        *)
(***************************************************************************)
EXTENDS InputMarking

MCMarks == {Mark("x", "int", 2), Mark("r", "rank", 0), Mark("s", "size", 3),
            Mark("l", "local", 0)}

\* Every process runs the same marks, a variable possibly more than once.
Uniform == {[p \in Ranks |-> marks] :
               marks \in UNION {[1..n -> MCMarks] : n \in 0..4}}

MCFiles == UNION {[1..n -> {0, 1}] : n \in 0..3}
MCComms == {{0, 2}, {1}}
=============================================================================
