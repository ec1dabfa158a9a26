--------------------------- MODULE MCExecutionFile ---------------------------
(* A program that marks its rank and size, one that marks a limited variable *)
(* and a rank in a communicator, and one that marks nothing.                 *)
EXTENDS ExecutionFile

RankAndSize ==
    [inputs |-> 2, limits |-> <<>>, ranks |-> <<0>>, comms |-> <<>>,
     map |-> <<>>, sizes |-> <<1>>, branches |-> 3, idx |-> <<0, 2>>,
     preds |-> <<{0}, {0, 1}>>]
Limited ==
    [inputs |-> 3, limits |-> <<<<0, 1>>>>, ranks |-> <<1>>, comms |-> <<2>>,
     map |-> <<<<0, 1>>>>, sizes |-> <<>>, branches |-> 1, idx |-> <<0>>,
     preds |-> <<{2}>>]
Unmarked ==
    [inputs |-> 0, limits |-> <<>>, ranks |-> <<>>, comms |-> <<>>,
     map |-> <<>>, sizes |-> <<>>, branches |-> 1, idx |-> <<>>,
     preds |-> <<>>]
SmallShapes == {RankAndSize, Limited, Unmarked}
=============================================================================
