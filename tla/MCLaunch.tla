------------------------------ MODULE MCLaunch ------------------------------
(***************************************************************************)
(* Instances of Launch: the paths of a program that marks its rank before  *)
(* its size, of one that marks a communicator, and what an earlier session *)
(* may leave behind.                                                       *)
(***************************************************************************)
EXTENDS Launch

RankFirst ==
    {<<{"rank"}>>, <<{"rank"}, {"size"}>>, <<{"rank"}, {"size"}, Data>>}
Mixed == {<<{"rank"}, {"comm"}>>, <<{"size"}, {"rank"}>>}

Wild == {-1, 1}

NoLeftover == {<<>>}
SmallJobInput == {<<>>, <<0, 1>>}
FreshDirectory == {NoExec}

\* The state but for the coverage files: no guard reads them, and they are in
\* no property of the hostile run.
WithoutReports ==
    <<phase, num_iters_, is_first_run, chosen, solver, next_input,
      input_file, szd, szd_cut, cuts, np, held>>

=============================================================================
