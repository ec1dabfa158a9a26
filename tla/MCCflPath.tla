----------------------------- MODULE MCCflPath -----------------------------
(* Both directions of one conditional: a longer list of ids only renames.  *)
EXTENDS CflPath
=============================================================================
