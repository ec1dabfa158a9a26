---------------------------- MODULE MCStrategies ----------------------------
EXTENDS Strategies

MCInputs == 0..3

Step(c, holds, symbolic) == <<[cond |-> c, holds |-> holds, symbolic |-> symbolic]>>

\* Two conditionals under a first one, for every pair of predicates of three.
Predicates == {{0}, {1, 3}, {}}
Trees == {[x \in MCInputs |->
            Step(1, {0, 1}, TRUE)
                \o IF x \in {0, 1} THEN Step(2, h[1], TRUE) ELSE Step(3, h[2], TRUE)] :
            h \in Predicates \X Predicates}

\* Three conditionals in sequence; the second may be concrete.
Chains == {[x \in MCInputs |->
            Step(1, {0, 1}, TRUE) \o Step(2, {0, 2}, s) \o Step(3, {0, 3}, TRUE)] :
            s \in BOOLEAN}

\* Two conditionals behind a concrete one.
Hidden == [x \in MCInputs |->
            Step(1, {0, 1}, TRUE) \o Step(2, {0, 2}, FALSE)
                \o IF x \in {0, 2} THEN Step(3, {0, 1}, TRUE) \o Step(4, {0, 2, 3}, TRUE)
                   ELSE <<>>]

\* A loop that runs x times, and a conditional after it.
Loop == [x \in MCInputs |->
            [k \in 1..(x + 1) |->
                [cond |-> 1, holds |-> {y \in MCInputs : y >= k}, symbolic |-> TRUE]]
            \o Step(2, {0, 2}, TRUE)]

\* A conditional that comes twice with one predicate stronger than the other.
Twice == [x \in MCInputs |->
            Step(1, {0}, TRUE) \o Step(2, {0, 1, 2}, TRUE) \o Step(2, {0, 1}, TRUE)]

MCPrograms == Trees \cup Chains \cup {Hidden, Loop, Twice}
=============================================================================
