------------------------------- MODULE MCRunner -------------------------------
(* The runner with the small sets of MCDeployments. *)
EXTENDS MCDeployments, Runner

NoUser == {}
=============================================================================
